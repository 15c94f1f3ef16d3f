-------------------------- MODULE OrderIntakeProofs --------------------------
(***************************************************************************)
(* Order intake, for any number of processes, client ids and order ids,    *)
(* overlapping, crashing and with failing writes as they may: replies are  *)
(* stable, what is sent bears its durable name, and intake implements the  *)
(* abstract promise, for every client id that is not spoilt.               *)
(***************************************************************************)
EXTENDS OrderIntake, TLAPS

\* What create_order leaves for a process to do: nothing, or to send.
LEMMA ReturnTypes ==
  ASSUME NEW p \in Procs, NEW c \in Clients, NEW o \in OrderIds,
         call \in [Procs -> Calls], told \subseteq Clients \X OrderIds,
         Return(p, c, o)
  PROVE  /\ call' \in [Procs -> Calls]
         /\ told' \subseteq Clients \X OrderIds
         /\ told' = told \cup {<<c, o>>}
         /\ call'[p] \in {NoCall, [pc |-> "send", client |-> c, order |-> o]}
         /\ \A q \in Procs : q # p => call'[q] = call[q]
<1>1. NoCall \in Calls /\ [pc |-> "send", client |-> c, order |-> o] \in Calls
  BY DEF Calls
<1> QED BY <1>1 DEF Return

\* Type correctness of order intake: every variable keeps its type.
THEOREM TypeCorrect == Spec => []TypeOK
<1>1. Init => TypeOK
  BY NoneAssumption DEF Init, TypeOK, EmptyOrders, EmptyCache, Calls, NoCall
<1>2. TypeOK /\ [Next]_vars => TypeOK'
  <2> SUFFICES ASSUME TypeOK, [Next]_vars PROVE TypeOK'
    OBVIOUS
  <2> USE NoneAssumption DEF TypeOK
  <2>1. ASSUME NEW p \in Procs, Start(p) PROVE TypeOK'
    BY <2>1 DEF Start
  <2>2. ASSUME NEW p \in Procs, Crash(p) PROVE TypeOK'
    BY <2>2 DEF Crash, EmptyOrders, EmptyCache, Calls, NoCall
  <2>3. ASSUME NEW p \in Procs, NEW c \in Clients, NEW o \in OrderIds,
               CreateOrder(p, c, o)
        PROVE TypeOK'
    <3>1. [pc |-> "lookup", client |-> c, order |-> o] \in Calls
      BY DEF Calls
    <3>2. CASE Known(p, c)
      <4>1. cache[p][c] \in OrderIds /\ Return(p, c, cache[p][c])
        BY <2>3, <3>2 DEF CreateOrder, Known
      <4> QED BY <2>3, <4>1, ReturnTypes DEF CreateOrder
    <3>3. CASE ~Known(p, c)
      BY <2>3, <3>1, <3>3 DEF CreateOrder
    <3> QED BY <3>2, <3>3
  <2>4. ASSUME NEW p \in Procs, StoreGet(p) PROVE TypeOK'
    <3>1. /\ call[p] \in Calls /\ call[p].pc = "lookup"
          /\ call[p].client \in Clients /\ call[p].order \in OrderIds
      BY <2>4 DEF StoreGet, Calls, NoCall
    <3>2. [call[p] EXCEPT !.pc = "persist"] \in Calls
      BY <3>1 DEF Calls, NoCall
    <3>3. CASE store[call[p].client] = None
      <4>1. /\ call' = [call EXCEPT ![p].pc = "persist"]
            /\ UNCHANGED <<alive, orders, cache, store, sent, told, used, faulted, contested>>
        BY <2>4, <3>3 DEF StoreGet, Found
      <4> QED BY <3>2, <4>1
    <3>4. CASE store[call[p].client] # None
      <4>1. store[call[p].client] \in OrderIds
        BY <3>1, <3>4
      <4>2. cache' \in [Procs -> [Clients -> OrderIds \cup {None}]]
        <5>1. [cache EXCEPT ![p][call[p].client] = store[call[p].client]]
                \in [Procs -> [Clients -> OrderIds \cup {None}]]
          BY <3>1, <4>1
        <5> QED BY <2>4, <3>4, <5>1 DEF StoreGet, Found
      <4>3. Return(p, call[p].client, store[call[p].client])
        BY <2>4, <3>4 DEF StoreGet, Found
      <4>4. call' \in [Procs -> Calls] /\ told' \subseteq Clients \X OrderIds
        BY <3>1, <4>1, <4>3, ReturnTypes
      <4> QED BY <2>4, <4>2, <4>4 DEF StoreGet
    <3> QED BY <3>3, <3>4
  <2>5. ASSUME NEW p \in Procs, StorePut(p) PROVE TypeOK'
    <3>1. call[p].client \in Clients /\ call[p].order \in OrderIds
      BY <2>5 DEF StorePut, Calls, NoCall
    <3>2. call' \in [Procs -> Calls] /\ told' \subseteq Clients \X OrderIds
      BY <2>5, <3>1, ReturnTypes DEF StorePut
    <3> QED BY <2>5, <3>1, <3>2 DEF StorePut, Remember, InsertOrIgnore
  <2>6. ASSUME NEW p \in Procs, StorePutFails(p) PROVE TypeOK'
    <3>1. call[p].client \in Clients /\ call[p].order \in OrderIds
      BY <2>6 DEF StorePutFails, Calls, NoCall
    <3> QED BY <2>6, <3>1 DEF StorePutFails, Remember, Calls, NoCall
  <2>7. ASSUME NEW p \in Procs, Send(p) PROVE TypeOK'
    <3>1. call[p].client \in Clients /\ call[p].order \in OrderIds
      BY <2>7 DEF Send, Calls, NoCall
    <3> QED BY <2>7, <3>1 DEF Send, Calls, NoCall
  <2>8. CASE UNCHANGED vars
    BY <2>8 DEF vars
  <2> QED BY <2>1, <2>2, <2>3, <2>4, <2>5, <2>6, <2>7, <2>8 DEF Next
<1> QED BY <1>1, <1>2, PTL DEF Spec

-----------------------------------------------------------------------------
(* The inductive invariant.  It says why the row in the table is enough:   *)
(* for a client id that is not spoilt, a call past its lookup still finds  *)
(* no row, and whatever was answered, cached, handed over for sending or   *)
(* sent is what the row names.                                             *)

PutFindsNoRow ==
  \A p \in Procs : call[p].pc = "persist" /\ call[p].client \notin Spoilt
                     => store[call[p].client] = None

HandedIsNamed ==
  \A p \in Procs : call[p].pc = "send" /\ call[p].client \notin Spoilt
                     => store[call[p].client] = call[p].order

\* What is handed over was also answered.
HandedIsTold ==
  \A p \in Procs : call[p].pc = "send" => <<call[p].client, call[p].order>> \in told

CachedIsNamed ==
  \A p \in Procs, c \in Clients \ Spoilt :
    cache[p][c] # None => store[c] = cache[p][c]

ToldIsNamed ==
  \A c \in Clients \ Spoilt, o \in OrderIds : <<c, o>> \in told => store[c] = o

IntakeInv ==
  /\ TypeOK /\ PutFindsNoRow /\ HandedIsNamed /\ HandedIsTold
  /\ CachedIsNamed /\ ToldIsNamed /\ SentUnderItsName

LEMMA InitIntakeInv == Init => IntakeInv
<1> SUFFICES ASSUME Init PROVE IntakeInv
  OBVIOUS
<1>1. TypeOK
  BY NoneAssumption DEF Init, TypeOK, EmptyOrders, EmptyCache, Calls, NoCall
<1> QED
  BY <1>1 DEF Init, IntakeInv, PutFindsNoRow, HandedIsNamed, HandedIsTold,
              CachedIsNamed, ToldIsNamed, SentUnderItsName, EmptyCache, NoCall

\* An answer that gives the row's order, for an id that is not spoilt, keeps
\* what calls, answers and the table have to do with each other.
LEMMA AnswerKeeps ==
  ASSUME IntakeInv, NEW p \in Procs, NEW c \in Clients, NEW o \in OrderIds,
         Return(p, c, o), c \notin Spoilt' => store'[c] = o,
         Spoilt \subseteq Spoilt',
         \A d \in Clients : d \notin Spoilt' /\ d # c => store'[d] = store[d],
         \A d \in Clients : store[d] # None => store'[d] = store[d],
         \A q \in Procs : /\ q # p /\ call[q].pc = "persist"
                          /\ call[q].client \notin Spoilt'
                          => store'[call[q].client] = store[call[q].client]
  PROVE  PutFindsNoRow' /\ HandedIsNamed' /\ HandedIsTold' /\ ToldIsNamed'
<1>1. /\ told' = told \cup {<<c, o>>}
      /\ call'[p] \in {NoCall, [pc |-> "send", client |-> c, order |-> o]}
      /\ \A q \in Procs : q # p => call'[q] = call[q]
  BY ReturnTypes DEF IntakeInv, TypeOK
<1>2. \A q \in Procs : call[q].pc # "idle"
                         => call[q].client \in Clients /\ call[q].order \in OrderIds
  BY DEF IntakeInv, TypeOK, Calls, NoCall
<1>3. PutFindsNoRow'
  BY <1>1, <1>2 DEF IntakeInv, PutFindsNoRow, NoCall
<1>4. HandedIsNamed'
  <2> SUFFICES ASSUME NEW q \in Procs, call'[q].pc = "send",
                      call'[q].client \notin Spoilt'
               PROVE  store'[call'[q].client] = call'[q].order
    BY DEF HandedIsNamed
  <2>1. CASE q = p
    BY <1>1, <2>1 DEF NoCall
  <2>2. CASE q # p
    <3>1. call'[q] = call[q] /\ call[q].client \in Clients /\ call[q].order \in OrderIds
      BY <1>1, <1>2, <2>2
    <3>2. store[call[q].client] = call[q].order
      BY <3>1 DEF IntakeInv, HandedIsNamed
    <3> QED BY <3>1, <3>2, NoneAssumption
  <2> QED BY <2>1, <2>2
<1>5. HandedIsTold'
  BY <1>1 DEF IntakeInv, HandedIsTold, NoCall
<1>6. ToldIsNamed'
  BY <1>1, NoneAssumption DEF IntakeInv, ToldIsNamed
<1> QED BY <1>3, <1>4, <1>5, <1>6

\* No step of intake breaks the inductive invariant.
LEMMA StepIntakeInv ==
  ASSUME IntakeInv, TypeOK', [Next]_vars
  PROVE  IntakeInv'
<1> USE NoneAssumption
<1>1. ASSUME NEW p \in Procs, Start(p) PROVE IntakeInv'
  BY <1>1 DEF Start, IntakeInv, PutFindsNoRow, HandedIsNamed, HandedIsTold,
              CachedIsNamed, ToldIsNamed, SentUnderItsName, Spoilt
<1>2. ASSUME NEW p \in Procs, Crash(p) PROVE IntakeInv'
  <2>1. \A q \in Procs : call'[q] = NoCall \/ call'[q] = call[q]
    BY <1>2 DEF Crash, IntakeInv, TypeOK
  <2>2. \A q \in Procs, c \in Clients : cache'[q][c] = None \/ cache'[q][c] = cache[q][c]
    BY <1>2 DEF Crash, EmptyCache, IntakeInv, TypeOK
  <2>3. UNCHANGED <<store, sent, told, faulted, contested>>
    BY <1>2 DEF Crash
  <2> QED
    BY <2>1, <2>2, <2>3 DEF IntakeInv, PutFindsNoRow, HandedIsNamed, HandedIsTold,
       CachedIsNamed, ToldIsNamed, SentUnderItsName, Spoilt, NoCall
<1>3. ASSUME NEW p \in Procs, NEW c \in Clients, NEW o \in OrderIds,
             CreateOrder(p, c, o)
      PROVE IntakeInv'
  <2>1. UNCHANGED <<cache, store, sent, faulted, contested>>
    BY <1>3 DEF CreateOrder
  <2>2. CachedIsNamed' /\ SentUnderItsName'
    BY <2>1 DEF IntakeInv, CachedIsNamed, SentUnderItsName, Spoilt
  <2>3. CASE Known(p, c)
    <3>1. cache[p][c] \in OrderIds /\ Return(p, c, cache[p][c])
      BY <1>3, <2>3 DEF CreateOrder, Known, IntakeInv, TypeOK
    <3>2. c \notin Spoilt => store[c] = cache[p][c]
      BY <3>1 DEF IntakeInv, CachedIsNamed
    <3>3. PutFindsNoRow' /\ HandedIsNamed' /\ HandedIsTold' /\ ToldIsNamed'
      BY <2>1, <3>1, <3>2, AnswerKeeps DEF Spoilt
    <3> QED BY <2>2, <3>3 DEF IntakeInv
  <2>4. CASE ~Known(p, c)
    <3>1. /\ \A q \in Procs : q # p => call'[q] = call[q]
          /\ call'[p].pc = "lookup" /\ told' = told
      BY <1>3, <2>4 DEF CreateOrder, IntakeInv, TypeOK
    <3>2. PutFindsNoRow' /\ HandedIsNamed' /\ HandedIsTold' /\ ToldIsNamed'
      BY <2>1, <3>1 DEF IntakeInv, PutFindsNoRow, HandedIsNamed, HandedIsTold,
         ToldIsNamed, Spoilt
    <3> QED BY <2>2, <3>2 DEF IntakeInv
  <2> QED BY <2>3, <2>4
<1>4. ASSUME NEW p \in Procs, StoreGet(p) PROVE IntakeInv'
  <2> DEFINE c == call[p].client
  <2>1. /\ c \in Clients /\ call[p] \in Calls
        /\ UNCHANGED <<store, sent, faulted, contested>>
    BY <1>4 DEF StoreGet, Calls, NoCall, IntakeInv, TypeOK
  <2>2. SentUnderItsName'
    BY <2>1 DEF IntakeInv, SentUnderItsName, Spoilt
  <2>3. CachedIsNamed'
    <3>1. cache' = cache \/ cache' = [cache EXCEPT ![p][c] = store[c]]
      BY <1>4 DEF StoreGet, Found
    <3>2. \A q \in Procs, d \in Clients :
            cache'[q][d] = cache[q][d] \/ (d = c /\ cache'[q][d] = store[c])
      <4>1. cache \in [Procs -> [Clients -> OrderIds \cup {None}]]
        BY DEF IntakeInv, TypeOK
      <4>2. CASE cache' = cache
        BY <4>2
      <4>3. CASE cache' = [cache EXCEPT ![p][c] = store[c]]
        <5> HIDE DEF c
        <5> QED BY <2>1, <4>1, <4>3
      <4> QED BY <3>1, <4>2, <4>3
    <3> QED BY <2>1, <3>2 DEF IntakeInv, CachedIsNamed, Spoilt
  <2>4. CASE store[c] = None
    <3>1. /\ \A q \in Procs : q # p => call'[q] = call[q]
          /\ call'[p] = [call[p] EXCEPT !.pc = "persist"] /\ told' = told
      BY <1>4, <2>4 DEF StoreGet, Found, IntakeInv, TypeOK
    <3>2. call'[p].pc = "persist" /\ call'[p].client = c
      BY <2>1, <3>1, <1>4 DEF StoreGet, Calls, NoCall
    <3>3. PutFindsNoRow' /\ HandedIsNamed' /\ HandedIsTold' /\ ToldIsNamed'
      BY <2>1, <2>4, <3>1, <3>2 DEF IntakeInv, PutFindsNoRow, HandedIsNamed,
         HandedIsTold, ToldIsNamed, Spoilt
    <3> QED BY <2>2, <2>3, <3>3 DEF IntakeInv
  <2>5. CASE store[c] # None
    <3>1. store[c] \in OrderIds /\ Return(p, c, store[c])
      BY <1>4, <2>1, <2>5 DEF StoreGet, Found, IntakeInv, TypeOK
    <3>2. PutFindsNoRow' /\ HandedIsNamed' /\ HandedIsTold' /\ ToldIsNamed'
      BY <2>1, <3>1, AnswerKeeps DEF Spoilt
    <3> QED BY <2>2, <2>3, <3>2 DEF IntakeInv
  <2> QED BY <2>4, <2>5
<1>5. ASSUME NEW p \in Procs, StorePut(p) PROVE IntakeInv'
  <2> DEFINE c == call[p].client
             o == call[p].order
  <2>1. /\ c \in Clients /\ o \in OrderIds /\ call[p].pc = "persist"
        /\ faulted' = faulted /\ sent' = sent /\ Return(p, c, o)
        /\ contested \subseteq contested'
    BY <1>5 DEF StorePut, Calls, NoCall, IntakeInv, TypeOK
  <2>2. Spoilt \subseteq Spoilt'
    BY <2>1 DEF Spoilt
  <2>3. /\ store'[c] = IF store[c] = None THEN o ELSE store[c]
        /\ \A d \in Clients : d # c => store'[d] = store[d]
    BY <1>5, <2>1 DEF StorePut, InsertOrIgnore, IntakeInv, TypeOK
  <2>4. c \notin Spoilt' => store'[c] = o
    BY <2>1, <2>2, <2>3 DEF IntakeInv, PutFindsNoRow
  <2>5. ASSUME NEW q \in Procs, q # p, call[q].pc = "persist",
               call[q].client \notin Spoilt'
        PROVE store'[call[q].client] = store[call[q].client]
    <3>1. call[q].client \in Clients
      BY <2>5 DEF Calls, NoCall, IntakeInv, TypeOK
    <3>2. call[q].client = c => c \in contested'
      BY <1>5, <2>5 DEF StorePut, Rival
    <3> QED BY <2>3, <2>5, <3>1, <3>2 DEF Spoilt
  <2>6. PutFindsNoRow' /\ HandedIsNamed' /\ HandedIsTold' /\ ToldIsNamed'
    BY <2>1, <2>2, <2>3, <2>4, <2>5, AnswerKeeps
  <2>7. CachedIsNamed'
    <3>1. cache' = [cache EXCEPT ![p][c] = o]
      BY <1>5 DEF StorePut, Remember
    <3>2. \A q \in Procs, d \in Clients :
            cache'[q][d] = cache[q][d] \/ (d = c /\ cache'[q][d] = o)
      BY <2>1, <3>1 DEF IntakeInv, TypeOK
    <3> QED BY <2>2, <2>3, <2>4, <3>2 DEF IntakeInv, CachedIsNamed
  <2>8. SentUnderItsName'
    BY <2>1, <2>2, <2>3 DEF IntakeInv, SentUnderItsName
  <2> QED BY <2>6, <2>7, <2>8 DEF IntakeInv
<1>6. ASSUME NEW p \in Procs, StorePutFails(p) PROVE IntakeInv'
  <2> DEFINE c == call[p].client
             o == call[p].order
  <2>1. c \in Clients /\ o \in OrderIds
    BY <1>6 DEF StorePutFails, Calls, NoCall, IntakeInv, TypeOK
  <2>2. \A q \in Procs, d \in Clients \ {c} : cache'[q][d] = cache[q][d]
    BY <1>6, <2>1 DEF StorePutFails, Remember, IntakeInv, TypeOK
  <2>3. /\ Spoilt' = Spoilt \cup {c} /\ UNCHANGED <<store, sent, told>>
        /\ \A q \in Procs : call'[q] = NoCall \/ call'[q] = call[q]
    BY <1>6 DEF StorePutFails, Spoilt, IntakeInv, TypeOK
  <2> QED
    BY <2>2, <2>3 DEF IntakeInv, PutFindsNoRow, HandedIsNamed, HandedIsTold,
       CachedIsNamed, ToldIsNamed, SentUnderItsName, NoCall
<1>7. ASSUME NEW p \in Procs, Send(p) PROVE IntakeInv'
  <2> DEFINE c == call[p].client
             o == call[p].order
  <2>1. /\ c \in Clients /\ o \in OrderIds /\ call[p].pc = "send"
        /\ UNCHANGED <<cache, store, told, faulted, contested>>
        /\ \A q \in Procs : call'[q] = NoCall \/ call'[q] = call[q]
    BY <1>7 DEF Send, Calls, NoCall, IntakeInv, TypeOK
  <2>2. \A d \in Clients, n \in OrderIds :
          sent'[d][n] = sent[d][n] \/ (d = c /\ n = o)
    BY <1>7, <2>1 DEF Send, IntakeInv, TypeOK
  <2>3. SentUnderItsName'
    BY <2>1, <2>2 DEF IntakeInv, SentUnderItsName, HandedIsNamed, Spoilt
  <2> QED
    BY <2>1, <2>3 DEF IntakeInv, PutFindsNoRow, HandedIsNamed, HandedIsTold,
       CachedIsNamed, ToldIsNamed, Spoilt, NoCall
<1>8. CASE UNCHANGED vars
  BY <1>8 DEF vars, IntakeInv, PutFindsNoRow, HandedIsNamed, HandedIsTold,
              CachedIsNamed, ToldIsNamed, SentUnderItsName, Spoilt
<1> QED
  BY <1>1, <1>2, <1>3, <1>4, <1>5, <1>6, <1>7, <1>8 DEF Next

LEMMA IntakeInvHolds == Spec => []IntakeInv
<1>1. IntakeInv /\ TypeOK' /\ [Next]_vars => IntakeInv'
  BY StepIntakeInv
<1> QED BY InitIntakeInv, <1>1, TypeCorrect, PTL DEF Spec

\* Replies are stable across restarts and between processes
\* (core/oms.py:140-143), for every client id that is not spoilt.
THEOREM RepliesAreStable == Spec => []StableReply
<1>1. IntakeInv => StableReply
  <2> SUFFICES ASSUME IntakeInv, NEW r \in told, NEW s \in told,
                      r[1] = s[1], r[1] \notin Spoilt
               PROVE  r[2] = s[2]
    BY DEF StableReply
  <2>1. told \subseteq Clients \X OrderIds
    BY DEF IntakeInv, TypeOK
  <2>2. /\ r = <<r[1], r[2]>> /\ r[1] \in Clients /\ r[2] \in OrderIds
        /\ s = <<s[1], s[2]>> /\ s[2] \in OrderIds
    BY <2>1
  <2> QED BY <2>2 DEF IntakeInv, ToldIsNamed
<1> QED BY <1>1, IntakeInvHolds, PTL

\* Whatever is sent (broker.submit, execution.py:661), the first time, again,
\* or by a process that knows only the row, bears the order id of the row.
THEOREM SendsAreNamed == Spec => []SentUnderItsName
<1>1. IntakeInv => SentUnderItsName
  BY DEF IntakeInv
<1> QED BY <1>1, IntakeInvHolds, PTL

\* Intake implements the abstract promise: every step records and answers a
\* name, answers the name there is, sends what was answered under its name,
\* spoils a client id, or leaves all four alone.
THEOREM IntakeImplementsPromise == Spec => ImplementsPromise
<1>1. Init => Promise!Init
  BY DEF Init, Promise!Init, EmptyCache, Spoilt
<1>2. IntakeInv /\ [Next]_vars => [Promise!Next]_<<store, told, sent, Spoilt>>
  <2> SUFFICES ASSUME IntakeInv, [Next]_vars
               PROVE  Promise!Next \/ UNCHANGED <<store, told, sent, Spoilt>>
    OBVIOUS
  <2> USE NoneAssumption
  <2>1. ASSUME NEW p \in Procs, NEW c \in Clients, NEW o \in OrderIds,
               CreateOrder(p, c, o)
        PROVE Promise!Next \/ UNCHANGED <<store, told, sent, Spoilt>>
    <3>1. UNCHANGED <<store, sent, Spoilt>>
      BY <2>1 DEF CreateOrder, Spoilt
    <3>2. CASE Known(p, c)
      <4>1. cache[p][c] \in OrderIds /\ told' = told \cup {<<c, cache[p][c]>>}
        BY <2>1, <3>2 DEF CreateOrder, Known, Return, IntakeInv, TypeOK
      <4>2. store[c] = cache[p][c] \/ c \in Spoilt
        BY <4>1 DEF IntakeInv, CachedIsNamed
      <4> QED BY <3>1, <4>1, <4>2 DEF Promise!Next, Promise!Answer
    <3>3. CASE ~Known(p, c)
      BY <2>1, <3>1, <3>3 DEF CreateOrder
    <3> QED BY <3>2, <3>3
  <2>2. ASSUME NEW p \in Procs, StoreGet(p)
        PROVE Promise!Next \/ UNCHANGED <<store, told, sent, Spoilt>>
    <3> DEFINE c == call[p].client
    <3>1. UNCHANGED <<store, sent, Spoilt>> /\ c \in Clients
      BY <2>2 DEF StoreGet, Spoilt, Calls, NoCall, IntakeInv, TypeOK
    <3>2. CASE store[c] # None
      <4>1. store[c] \in OrderIds /\ told' = told \cup {<<c, store[c]>>}
        BY <2>2, <3>1, <3>2 DEF StoreGet, Found, Return, IntakeInv, TypeOK
      <4> QED BY <3>1, <4>1 DEF Promise!Next, Promise!Answer
    <3>3. CASE store[c] = None
      BY <2>2, <3>1, <3>3 DEF StoreGet, Found
    <3> QED BY <3>2, <3>3
  <2>3. ASSUME NEW p \in Procs, StorePut(p) PROVE Promise!Next
    <3> DEFINE c == call[p].client
               o == call[p].order
    <3>1. /\ c \in Clients /\ o \in OrderIds /\ sent' = sent
          /\ told' = told \cup {<<c, o>>}
          /\ Spoilt' \in {Spoilt, Spoilt \cup {c}}
          /\ store' = InsertOrIgnore(c, o)
      BY <2>3 DEF StorePut, Return, Spoilt, Calls, NoCall, IntakeInv, TypeOK
    <3>2. CASE store[c] = None
      BY <3>1, <3>2 DEF InsertOrIgnore, Promise!Next, Promise!Record
    <3>3. CASE store[c] # None
      <4>1. c \in Spoilt
        BY <2>3, <3>3 DEF StorePut, IntakeInv, PutFindsNoRow
      <4> QED BY <3>1, <3>3, <4>1 DEF InsertOrIgnore, Promise!Next, Promise!Answer
    <3> QED BY <3>2, <3>3
  <2>4. ASSUME NEW p \in Procs, StorePutFails(p) PROVE Promise!Next
    <3> DEFINE c == call[p].client
    <3>1. /\ c \in Clients /\ UNCHANGED <<store, told, sent>>
          /\ Spoilt' = Spoilt \cup {c}
      BY <2>4 DEF StorePutFails, Spoilt, Calls, NoCall, IntakeInv, TypeOK
    <3> QED BY <3>1 DEF Promise!Next, Promise!Spoil
  <2>5. ASSUME NEW p \in Procs, Send(p) PROVE Promise!Next
    <3> DEFINE c == call[p].client
               o == call[p].order
    <3>1. /\ c \in Clients /\ o \in OrderIds /\ UNCHANGED <<store, told, Spoilt>>
          /\ sent' = [sent EXCEPT ![c][o] = @ + 1]
      BY <2>5 DEF Send, Spoilt, Calls, NoCall, IntakeInv, TypeOK
    <3>2. <<c, o>> \in told /\ (store[c] = o \/ c \in Spoilt)
      BY <2>5 DEF Send, IntakeInv, HandedIsTold, HandedIsNamed
    <3> QED BY <3>1, <3>2 DEF Promise!Next, Promise!Submit
  <2>6. ASSUME NEW p \in Procs, Start(p) \/ Crash(p)
        PROVE UNCHANGED <<store, told, sent, Spoilt>>
    BY <2>6 DEF Start, Crash, Spoilt
  <2>7. CASE UNCHANGED vars
    BY <2>7 DEF vars, Spoilt
  <2> QED BY <2>1, <2>2, <2>3, <2>4, <2>5, <2>6, <2>7 DEF Next
<1> QED
  BY <1>1, <1>2, IntakeInvHolds, PTL
     DEF Spec, ImplementsPromise, Promise!Spec, Promise!vars

=============================================================================

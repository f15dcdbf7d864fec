----------------------- MODULE WebSocketClient_proofs -----------------------
(***************************************************************************)
(* Proofs about WebSocketClient: the flag tells of every thread that is at *)
(* the context, and no thread is spawned over another.  The invariant adds *)
(* that a thread which was not joined is still in the handle.              *)
(***************************************************************************)
EXTENDS WebSocketClient, TLAPS

HandleHoldsThread == ~joinable => io \in {"none", "ended"}

ClientInv == TypeOK /\ RunningIsFlagged /\ SpawnOnlyWhenJoined /\ HandleHoldsThread

LEMMA UserInv == ClientInv /\ User => ClientInv'
<1> SUFFICES ASSUME ClientInv, User PROVE ClientInv'
  OBVIOUS
<1> USE DEF ClientInv, TypeOK, RunningIsFlagged, SpawnOnlyWhenJoined,
            HandleHoldsThread
<1>1. CASE Subscribe \/ CallRun
  BY <1>1 DEF Subscribe, CallRun
<1>2. CASE RunCheck
  BY <1>2 DEF RunCheck
<1>3. CASE RunSet
  <2>1. /\ isRunning' = TRUE /\ user' \in {"join", "spawn"}
        /\ user' = "spawn" => ~joinable
        /\ UNCHANGED <<joinable, stopped, session, io, thrown>>
    BY <1>3 DEF RunSet
  <2>2. TypeOK'
    BY <2>1
  <2>3. RunningIsFlagged' /\ HandleHoldsThread'
    BY <2>1
  <2>4. SpawnOnlyWhenJoined'
    BY <2>1
  <2> QED
    BY <2>2, <2>3, <2>4
<1>4. CASE RunJoin
  BY <1>4 DEF RunJoin
<1>5. CASE RunSpawn
  BY <1>5 DEF RunSpawn
<1>6. CASE Destroy
  BY <1>6 DEF Destroy
<1>7. CASE DestroyJoin
  BY <1>7 DEF DestroyJoin
<1> QED
  BY <1>1, <1>2, <1>3, <1>4, <1>5, <1>6, <1>7 DEF User

LEMMA IoInv ==
  ClientInv /\ (IoStep \/ IoSessionEnds \/ IoThrow) => ClientInv'
<1> SUFFICES ASSUME ClientInv, IoStep \/ IoSessionEnds \/ IoThrow
             PROVE  ClientInv'
  OBVIOUS
<1> USE DEF ClientInv, TypeOK, RunningIsFlagged, SpawnOnlyWhenJoined,
            HandleHoldsThread
<1>1. CASE IoTop
  BY <1>1 DEF IoTop
<1>2. CASE IoCheck
  BY <1>2 DEF IoCheck
<1>3. CASE IoRestart
  BY <1>3 DEF IoRestart
<1>4. CASE IoOutOfWork \/ IoSessionEnds
  BY <1>4 DEF IoOutOfWork, IoSessionEnds
<1>5. CASE IoRunReturns
  BY <1>5 DEF IoRunReturns
<1>6. CASE IoClear \/ IoClearAgain
  BY <1>6 DEF IoClear, IoClearAgain
<1>7. CASE IoThrow
  BY <1>7 DEF IoThrow
<1> QED
  BY <1>1, <1>2, <1>3, <1>4, <1>5, <1>6, <1>7 DEF IoStep

\* The inductive invariant holds in every reachable state of the client.
THEOREM ClientInvariant == Spec => []ClientInv
<1>1. Init => ClientInv
  BY DEF Init, ClientInv, TypeOK, RunningIsFlagged, SpawnOnlyWhenJoined,
         HandleHoldsThread
<1>2. ClientInv /\ [Next]_vars => ClientInv'
  <2> SUFFICES ASSUME ClientInv, [Next]_vars PROVE ClientInv'
    OBVIOUS
  <2>1. CASE UNCHANGED vars
    BY <2>1 DEF vars, ClientInv, TypeOK, RunningIsFlagged, SpawnOnlyWhenJoined,
                HandleHoldsThread
  <2> QED
    BY <2>1, UserInv, IoInv DEF Next
<1> QED
  BY <1>1, <1>2, PTL DEF Spec

\* run() sees the flag up for as long as a thread is at the context.
THEOREM FlagTellsOfContext == Spec => []RunningIsFlagged
<1>1. ClientInv => RunningIsFlagged
  BY DEF ClientInv
<1> QED
  BY <1>1, ClientInvariant, PTL

\* std::thread is never assigned to while it is joinable, although the flag
\* may be down when a thread is at its start or at its end.
THEOREM NoThreadOverThread == Spec => []SpawnOnlyWhenJoined
<1>1. ClientInv => SpawnOnlyWhenJoined
  BY DEF ClientInv
<1> QED
  BY <1>1, ClientInvariant, PTL
=============================================================================

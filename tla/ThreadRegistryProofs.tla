----------------------- MODULE ThreadRegistryProofs -----------------------
(***************************************************************************)
(* Proofs about ThreadRegistry for any set of threads, any bound on the    *)
(* numbers and any guest.                                                  *)
(***************************************************************************)
EXTENDS ThreadRegistry, TLAPS, WellFoundedInduction

Owner(u) == pc[u] \in {"made", "joining"}

(* main is never created, and has no creator's environment to read.        *)
MainRuns == pc[Main] \notin {"none"} \cup ReadsEnv

(* A number belongs to one thread, and none has the numbers not given out. *)
Numbered ==
  /\ \A c \in Threads : Created(c) <=> number[c] # 0
  /\ \A c, d \in Threads : Created(c) /\ number[c] = number[d] => c = d

(* A number whose thread is still to be made is in use nowhere.            *)
Unused ==
  \A u \in Threads : pc[u] = "numbered" =>
    /\ thread_id[u] # 0 /\ thread_id[u] \notin DOMAIN threads \cup joined
    /\ \A c \in Threads : number[c] # thread_id[u]
    /\ \A v \in Threads : pc[v] = "numbered" /\ thread_id[v] = thread_id[u] => v = u

(* What a creator or a joiner has is the thread of its number, and nobody   *)
(* else has it.                                                            *)
Held ==
  \A u \in Threads : Owner(u) =>
    /\ t[u] \in Threads /\ Created(t[u]) /\ number[t[u]] = thread_id[u]
    /\ thread_id[u] \notin DOMAIN threads \cup joined
    /\ \A v \in Threads : Owner(v) /\ t[v] = t[u] => v = u

Listed ==
  \A i \in DOMAIN threads :
    Created(threads[i]) /\ number[threads[i]] = i /\ i \notin joined

(* No thread is lost.                                                      *)
Placed ==
  \A c \in Threads : Created(c) =>
    \/ number[c] \in DOMAIN threads \cup joined
    \/ \E u \in Threads : Owner(u) /\ t[u] = c

Inv == TypeOK /\ MainRuns /\ Numbered /\ Unused /\ Held /\ Listed /\ Placed
         /\ JoinedEnded

(* What an owner has is a thread, under a number that was given out.        *)
LEMMA HeldNumber ==
  ASSUME Inv, NEW u \in Threads, Owner(u)
  PROVE t[u] \in Threads /\ thread_id[u] \in 1..(id_counter - 1)
<1>1. t[u] \in Threads /\ number[t[u]] = thread_id[u] /\ number[t[u]] # 0
  BY DEF Inv, Held, Numbered
<1>2. QED
  BY <1>1 DEF Inv, TypeOK, LocalsOK, CountersOK

(* A number just taken is larger than any in use.                          *)
LEMMA TakeIdStep ==
  ASSUME Inv, NEW self \in Threads, TakeId(self) PROVE Inv'
<1> USE RegistryAssumption DEF Inv, TypeOK, CountersOK, LocalsOK, HistoryOK,
    RegistryOK, Steps, ReadsEnv, Goto, locals, history, TakeId
<1>1. TypeOK'
  OBVIOUS
<1>2. MainRuns' /\ Numbered' /\ Unused'
  BY DEF MainRuns, Created, Numbered, Unused, Held, Listed, Owner
<1>3. Held' /\ Listed'
  BY DEF MainRuns, Created, Numbered, Unused, Held, Listed, Owner
<1>4. Placed'
  BY DEF MainRuns, Created, Placed, Numbered, Held, Listed, Owner
<1>5. JoinedEnded'
  BY DEF MainRuns, Created, JoinedEnded, Joined, Numbered, Unused, Held,
      Owner
<1>6. QED
  BY <1>1, <1>2, <1>3, <1>4, <1>5 DEF Inv

(* A thread is made under its creator's number, which nobody else has.     *)
LEMMA MakeStep ==
  ASSUME Inv, NEW self \in Threads, Make(self) PROVE Inv'
<1> USE RegistryAssumption DEF Inv, TypeOK, CountersOK, LocalsOK, HistoryOK,
    RegistryOK, Steps, ReadsEnv, Goto, locals, history, Make
<1>1. TypeOK'
  OBVIOUS
<1>2. MainRuns' /\ Numbered' /\ Unused'
  BY DEF MainRuns, Created, Numbered, Unused, Held, Listed, Owner
<1>3. Held' /\ Listed'
  BY DEF MainRuns, Created, Numbered, Unused, Held, Listed, Owner
<1>4. Placed'
  BY DEF MainRuns, Created, Placed, Numbered, Held, Listed, Owner
<1>5. JoinedEnded'
  BY DEF MainRuns, Created, JoinedEnded, Joined, Numbered, Unused, Held,
      Owner
<1>6. QED
  BY <1>1, <1>2, <1>3, <1>4, <1>5 DEF Inv

(* The registry takes the thread over from its creator.                    *)
LEMMA InsertStep ==
  ASSUME Inv, NEW self \in Threads, Insert(self) PROVE Inv'
<1> USE RegistryAssumption DEF Inv, TypeOK, CountersOK, LocalsOK, HistoryOK,
    RegistryOK, Steps, ReadsEnv, Goto, locals, history, Insert
<1>1. CountersOK'
  OBVIOUS
<1>2. LocalsOK'
  OBVIOUS
<1>3. HistoryOK'
  OBVIOUS
<1>4. RegistryOK'
  BY HeldNumber DEF Owner
<1>5. MainRuns' /\ Numbered' /\ Unused'
  BY DEF MainRuns, Created, Numbered, Unused, Held, Listed, Owner
<1>6. Held' /\ Listed'
  BY DEF MainRuns, Created, Numbered, Unused, Held, Listed, Owner
<1>7. Placed'
  BY DEF MainRuns, Created, Placed, Numbered, Held, Listed, Owner
<1>8. JoinedEnded'
  BY DEF MainRuns, Created, JoinedEnded, Joined, Numbered, Unused, Held,
      Owner
<1>9. QED
  BY <1>1, <1>2, <1>3, <1>4, <1>5, <1>6, <1>7, <1>8 DEF Inv

(* A joiner takes the thread over from the registry, under the mutex.      *)
LEMMA ExtractStep ==
  ASSUME Inv, NEW self \in Threads, NEW i \in Ids, Extract(self, i) PROVE Inv'
<1> USE RegistryAssumption DEF Inv, TypeOK, CountersOK, LocalsOK, HistoryOK,
    RegistryOK, Steps, ReadsEnv, Goto, locals, history, Extract, Restrict
<1>1. TypeOK'
  OBVIOUS
<1>2. MainRuns' /\ Numbered' /\ Unused'
  BY DEF MainRuns, Created, Numbered, Unused, Held, Listed, Owner
<1>3. Held' /\ Listed'
  BY DEF MainRuns, Created, Numbered, Unused, Held, Listed, Owner
<1>4. Placed'
  BY DEF MainRuns, Created, Placed, Numbered, Held, Listed, Owner
<1>5. JoinedEnded'
  BY DEF MainRuns, Created, JoinedEnded, Joined, Numbered, Unused, Held,
      Owner
<1>6. QED
  BY <1>1, <1>2, <1>3, <1>4, <1>5 DEF Inv

(* A number counts as joined once its thread has ended.                    *)
LEMMA JoinStep ==
  ASSUME Inv, NEW self \in Threads, Join(self) PROVE Inv'
<1> USE RegistryAssumption DEF Inv, TypeOK, CountersOK, LocalsOK, HistoryOK,
    RegistryOK, Steps, ReadsEnv, Goto, locals, history, Join, Joinable
<1>1. CountersOK'
  BY HeldNumber DEF Owner
<1>2. LocalsOK'
  OBVIOUS
<1>3. HistoryOK'
  OBVIOUS
<1>4. RegistryOK'
  OBVIOUS
<1>5. MainRuns' /\ Numbered' /\ Unused'
  BY DEF MainRuns, Created, Numbered, Unused, Held, Listed, Owner
<1>6. Held' /\ Listed'
  BY DEF MainRuns, Created, Numbered, Unused, Held, Listed, Owner
<1>7. Placed'
  BY DEF MainRuns, Created, Placed, Numbered, Held, Listed, Owner
<1>8. JoinedEnded'
  BY DEF MainRuns, Created, JoinedEnded, Joined, Numbered, Unused, Held,
      Owner
<1>9. QED
  BY <1>1, <1>2, <1>3, <1>4, <1>5, <1>6, <1>7, <1>8 DEF Inv

(* The steps of a new thread's own run.                                    *)
LEMMA QuietStep ==
  ASSUME Inv, NEW self \in Threads,
         Enter(self) \/ Trap(self) \/ Return(self) \/ Crash(self)
  PROVE Inv'
<1> USE RegistryAssumption DEF Inv, TypeOK, CountersOK, LocalsOK, HistoryOK,
    RegistryOK, Steps, ReadsEnv, Goto, locals, history, Enter, Trap, Return, Crash
<1>1. TypeOK'
  OBVIOUS
<1>2. MainRuns' /\ Numbered' /\ Unused'
  BY DEF MainRuns, Created, Numbered, Unused, Held, Listed, Owner
<1>3. Held' /\ Listed'
  BY DEF MainRuns, Created, Numbered, Unused, Held, Listed, Owner
<1>4. Placed'
  BY DEF MainRuns, Created, Placed, Numbered, Held, Listed, Owner
<1>5. JoinedEnded'
  BY DEF MainRuns, Created, JoinedEnded, Joined, Numbered, Unused, Held,
      Owner
<1>6. QED
  BY <1>1, <1>2, <1>3, <1>4, <1>5 DEF Inv

(* The end of main leaves every thread where it is.                        *)
LEMMA ExitStep ==
  ASSUME Inv, Exit PROVE Inv'
<1> USE RegistryAssumption DEF Inv, TypeOK, CountersOK, LocalsOK, HistoryOK,
    RegistryOK, Steps, ReadsEnv, Goto, locals, history, Exit
<1>1. TypeOK'
  OBVIOUS
<1>2. MainRuns'
  BY DEF MainRuns, Created, Numbered, Unused, Held, Listed, Owner
<1>3. Numbered'
  BY DEF MainRuns, Created, Numbered, Unused, Held, Listed, Owner
<1>4. Unused'
  BY DEF MainRuns, Created, Numbered, Unused, Held, Listed, Owner
<1>5. Held' /\ Listed'
  BY DEF MainRuns, Created, Numbered, Unused, Held, Listed, Owner
<1>6. \A u \in Threads : Owner(u)' <=> Owner(u)
  BY DEF Owner
<1>7. Placed'
  BY <1>6 DEF Placed, MainRuns, Created
<1>8. JoinedEnded'
  BY DEF MainRuns, Created, JoinedEnded, Joined, Numbered, Unused, Held,
      Owner
<1>9. QED
  BY <1>1, <1>2, <1>3, <1>4, <1>5, <1>6, <1>7, <1>8 DEF Inv

(* The invariant holds at the start: main runs and nothing is registered.  *)
LEMMA InvInit == Init => Inv
<1> USE RegistryAssumption DEF Init
<1>1. Init => TypeOK
  BY DEF TypeOK, CountersOK, LocalsOK, HistoryOK, RegistryOK, Steps
<1>2. Init => MainRuns /\ Numbered /\ Unused /\ Held
  BY DEF MainRuns, ReadsEnv, Numbered, Unused, Held, Owner, Created
<1>3. Init => Listed /\ Placed /\ JoinedEnded
  BY DEF Listed, Placed, JoinedEnded, Created, Joined
<1>4. QED
  BY <1>1, <1>2, <1>3 DEF Inv

(* Every step of every thread preserves the invariant.                     *)
LEMMA InvStep == ASSUME Inv, [Next]_vars PROVE Inv'
<1>1. ASSUME NEW self \in Threads, Thread(self) PROVE Inv'
  BY <1>1, TakeIdStep, MakeStep, InsertStep, ExtractStep, JoinStep, QuietStep
    DEF Thread
<1>2. CASE UNCHANGED vars
  <2> USE <1>2 DEF vars, locals, history
  <2>1. TypeOK'
    BY DEF Inv, TypeOK, CountersOK, LocalsOK, HistoryOK, RegistryOK
  <2>2. MainRuns' /\ Numbered' /\ Unused' /\ Held'
    BY DEF Inv, MainRuns, Numbered, Unused, Held, Owner, Created
  <2>3. Listed' /\ Placed' /\ JoinedEnded'
    BY DEF Inv, Listed, Placed, JoinedEnded, Created, Joined, Owner
  <2>4. QED
    BY <2>1, <2>2, <2>3 DEF Inv
<1>3. QED
  BY <1>1, <1>2, ExitStep DEF Next

(* The invariant holds in every reachable state.                           *)
THEOREM InvHolds == Spec => []Inv
BY InvInit, InvStep, PTL DEF Spec

(* Every field keeps its type, whatever the guest does.                    *)
THEOREM RegistryTypeCorrect == Spec => []TypeOK
<1>1. Inv => TypeOK
  BY DEF Inv
<1>2. QED
  BY <1>1, InvHolds, PTL

(* create_thread and join_thread never lose, overwrite or share a thread:  *)
(* it is with its creator, in the registry, with one joiner or joined.     *)
THEOREM OneOwnerHolds == Spec => []OneOwner
<1>1. Inv => OneOwner
  <2> SUFFICES ASSUME Inv, NEW c \in Threads, Created(c)
      PROVE /\ Registered(c) \/ Joined(c) \/ \E u \in Threads : Holds(u, c)
            /\ \A u \in Threads : Holds(u, c) =>
                 /\ ~Registered(c) /\ ~Joined(c)
                 /\ \A v \in Threads : Holds(v, c) => v = u
            /\ \A i \in DOMAIN threads : threads[i] = c => i = number[c] /\ ~Joined(c)
    BY DEF OneOwner
  <2> USE DEF Inv, Holds, Registered, Joined, Owner
  <2>1. Registered(c) \/ Joined(c) \/ \E u \in Threads : Holds(u, c)
    BY DEF Placed, Listed, Numbered, TypeOK, RegistryOK
  <2>2. ASSUME NEW u \in Threads, Holds(u, c)
        PROVE ~Registered(c) /\ ~Joined(c) /\ \A v \in Threads : Holds(v, c) => v = u
    BY <2>2 DEF Held, Listed
  <2>3. \A i \in DOMAIN threads : threads[i] = c => i = number[c] /\ ~Joined(c)
    BY DEF Listed
  <2>4. QED
    BY <2>1, <2>2, <2>3
<1>2. QED
  BY <1>1, InvHolds, PTL

(* join_thread returns 0 only after the thread of that number has ended.   *)
THEOREM JoinedEndedHolds == Spec => []JoinedEnded
<1>1. Inv => JoinedEnded
  BY DEF Inv
<1>2. QED
  BY <1>1, InvHolds, PTL

---------------------------------------------------------------------------
(* A thread is younger than its creator: its number is larger.             *)
Younger ==
  /\ \A c \in Threads : Created(c) =>
       /\ parent[c] = Main \/ Created(parent[c])
       /\ number[parent[c]] < number[c]
  /\ \A u \in Threads : pc[u] = "numbered" => number[u] < thread_id[u]

LEMMA YoungerStep ==
  ASSUME Inv, Younger, [Next]_vars PROVE Younger'
<1> USE RegistryAssumption DEF Younger, Created, Goto
<1>1. ASSUME NEW self \in Threads, TakeId(self) PROVE Younger'
  BY <1>1 DEF TakeId, history, Inv, TypeOK, LocalsOK, CountersOK, HistoryOK
<1>2. ASSUME NEW self \in Threads, Make(self) PROVE Younger'
  <2> USE DEF Inv, TypeOK, LocalsOK, HistoryOK
  <2>1. PICK u \in Threads :
          /\ pc[u] = "none"
          /\ pc' = [pc EXCEPT ![self] = "made", ![u] = "born"]
          /\ parent' = [parent EXCEPT ![u] = self]
          /\ number' = [number EXCEPT ![u] = thread_id[self]]
    BY <1>2 DEF Make
  <2>2. u # Main /\ u # self /\ pc[self] = "numbered" /\ UNCHANGED thread_id
    BY <1>2, <2>1 DEF Make, MainRuns
  <2>3. \A c \in Threads : Created(c) => parent[c] # u
    BY <2>1, <2>2
  <2>4. ASSUME NEW c \in Threads, Created(c)'
        PROVE (parent[c] = Main \/ Created(parent[c]))' /\ (number[parent[c]] < number[c])'
    BY <2>1, <2>2, <2>3, <2>4
  <2>5. ASSUME NEW v \in Threads, pc'[v] = "numbered"
        PROVE number'[v] < thread_id'[v]
    BY <2>1, <2>2, <2>5
  <2>6. QED
    BY <2>4, <2>5
<1>3. ASSUME NEW self \in Threads,
             Insert(self) \/ Join(self) \/ Enter(self) \/ Trap(self) \/ Return(self) \/ Crash(self)
      PROVE  Younger'
  <2>1. parent' = parent /\ number' = number /\ thread_id' = thread_id
    BY <1>3 DEF Insert, Join, Enter, Trap, Return, Crash, locals, history
  <2>2. \A u \in Threads : (pc'[u] = "none" <=> pc[u] = "none")
                          /\ (pc'[u] = "numbered" => pc[u] = "numbered")
    <3>1. CASE Crash(self)
      BY <3>1 DEF Crash
    <3>2. CASE Insert(self) \/ Join(self)
      BY <3>2 DEF Insert, Join, Inv, TypeOK, LocalsOK
    <3>3. CASE Enter(self)
      BY <3>3 DEF Enter, Inv, TypeOK, LocalsOK
    <3>4. CASE Trap(self) \/ Return(self)
      BY <3>4 DEF Trap, Return, Inv, TypeOK, LocalsOK
    <3>5. QED
      BY <1>3, <3>1, <3>2, <3>3, <3>4
  <2>3. QED
    BY <2>1, <2>2 DEF Inv, TypeOK, LocalsOK, HistoryOK
<1>4. ASSUME NEW self \in Threads, NEW i \in Ids, Extract(self, i) PROVE Younger'
  BY <1>4 DEF Extract, history, Inv, TypeOK, LocalsOK, HistoryOK
<1>5. CASE Exit
  BY <1>5 DEF Exit, locals, history, Inv, TypeOK, LocalsOK, MainRuns
<1>6. CASE UNCHANGED vars
  BY <1>6 DEF vars, locals, history
<1>7. QED
  BY <1>1, <1>2, <1>3, <1>4, <1>5, <1>6 DEF Next, Thread

(* Of the threads that are not joined the oldest was created by main, or by  *)
(* a thread that was joined and has therefore ended.                        *)
LEMMA OldestAbandoned ==
  ASSUME Inv, Younger, DOMAIN threads # {}
  PROVE  \E c \in Threads :
           Created(c) /\ ~Joined(c) /\ (parent[c] = Main \/ pc[parent[c]] = "ended")
<1> DEFINE Waiting == {c \in Threads : Created(c) /\ ~Joined(c)}
           Ages    == {number[c] : c \in Waiting}
           Less    == OpToRel(<, Nat)
<1>1. Ages \subseteq Nat
  BY DEF Inv, TypeOK, HistoryOK, CountersOK
<1>2. PICK i \in DOMAIN threads : TRUE
  OBVIOUS
<1>3. threads[i] \in Waiting
  BY <1>2 DEF Inv, TypeOK, RegistryOK, Listed, Joined
<1>4. Ages # {}
  BY <1>3
<1>5. PICK n \in Ages : \A m \in Ages : ~(<<m, n>> \in Less)
  <2> HIDE DEF Ages, Less
  <2>1. IsWellFoundedOn(Less, Nat)
    BY NatLessThanWellFounded DEF Less
  <2>2. QED
    BY <1>1, <1>4, <2>1, WFMin
<1>6. \A m \in Ages : ~(m < n)
  BY <1>1, <1>5 DEF OpToRel
<1>7. PICK c \in Waiting : number[c] = n
  OBVIOUS
<1>8. CASE parent[c] = Main
  BY <1>7, <1>8
<1>9. CASE parent[c] # Main
  <2>1. parent[c] \in Threads /\ Created(parent[c]) /\ number[parent[c]] < n
    BY <1>7, <1>9 DEF Younger, Inv, TypeOK, HistoryOK
  <2>2. parent[c] \notin Waiting
    BY <1>6, <2>1
  <2>3. pc[parent[c]] = "ended"
    BY <2>1, <2>2 DEF Inv, JoinedEnded
  <2>4. QED
    BY <1>7, <2>3
<1>10. QED
  BY <1>8, <1>9

LEMMA AbortStep ==
  ASSUME Inv, Younger, AbortExplained, [Next]_vars PROVE AbortExplained'
<1> USE RegistryAssumption DEF AbortExplained, Goto
<1>1. ASSUME NEW self \in Threads, NEW i \in Ids, Extract(self, i),
             process = "running", process' = "aborted"
      PROVE  AbortExplained'
  <2>1. threads[i] = self /\ pc'[self] = "joining" /\ t'[self] = self
    BY <1>1 DEF Extract, Inv, TypeOK, LocalsOK
  <2>2. QED
    BY <2>1 DEF JoinsItself
<1>2. ASSUME NEW self \in Threads, Crash(self) PROVE AbortExplained'
  <2>1. pc[self] \in ReadsEnv /\ pc[parent[self]] = "ended"
    BY <1>2 DEF Crash
  <2>2. Created(self)
    BY <2>1 DEF Created, ReadsEnv, Inv, MainRuns
  <2>3. ~Joined(self)
    BY <2>1, <2>2 DEF Inv, JoinedEnded, ReadsEnv
  <2>4. QED
    BY <1>2, <2>1, <2>2, <2>3 DEF Crash, Abandoned, Created, Joined, history
<1>3. ASSUME Exit, process' = "aborted" PROVE AbortExplained'
  <2>1. DOMAIN threads # {}
    BY <1>3 DEF Exit
  <2>2. PICK c \in Threads :
          Created(c) /\ ~Joined(c) /\ (parent[c] = Main \/ pc[parent[c]] = "ended")
    BY <2>1, OldestAbandoned
  <2>3. pc' = [pc EXCEPT ![Main] = "ended"] /\ UNCHANGED <<parent, number, joined>>
    BY <1>3 DEF Exit, history
  <2>4. Abandoned(c)'
    BY <2>2, <2>3 DEF Abandoned, Created, Joined, Inv, TypeOK, LocalsOK
  <2>5. QED
    BY <2>4
<1>4. ASSUME NEW self \in Threads, process = "running",
             \/ TakeId(self) \/ Make(self) \/ Insert(self) \/ Join(self)
             \/ Enter(self) \/ Trap(self) \/ Return(self)
      PROVE  AbortExplained'
  BY <1>4 DEF TakeId, Make, Insert, Join, Enter, Trap, Return
<1>5. CASE UNCHANGED vars
  BY <1>5 DEF vars, locals, history, JoinsItself, Abandoned, Created, Joined
<1>6. QED
  BY <1>1, <1>2, <1>3, <1>4, <1>5 DEF Next, Thread

(* The process is aborted only if the guest had a thread join itself, or    *)
(* end before all it created were joined.                                   *)
THEOREM AbortExplainedHolds == Spec => []AbortExplained
<1>1. Init => Younger /\ AbortExplained
  BY DEF Init, Younger, Created, AbortExplained
<1>2. Inv /\ Younger /\ AbortExplained /\ [Next]_vars => Younger' /\ AbortExplained'
  BY YoungerStep, AbortStep
<1>3. QED
  BY <1>1, <1>2, InvHolds, PTL DEF Spec
============================================================================

-------------------------- MODULE ThreadRegistry --------------------------
(***************************************************************************)
(* The host's thread functions (host/stl/thread.cpp): create_thread and    *)
(* join_thread, called by any number of guest threads at once.             *)
(*                                                                         *)
(* The registry is touched only under its mutex, for a single lookup or    *)
(* insertion, so each critical section is one step.  What lies between the *)
(* sections is not covered by the mutex: a number is taken before its      *)
(* thread exists, a thread runs before it is registered, and a joiner      *)
(* waits after it has taken the thread out of the registry.                *)
(*                                                                         *)
(* The guest is unconstrained: it creates and joins when it likes, from    *)
(* any thread, with any number, also its own.  exec_env is never null: the *)
(* WASM runtime passes the caller's.                                       *)
(***************************************************************************)
EXTENDS Integers, Functions

CONSTANTS
  Threads,    (* the operating system's threads, running or still to come  *)
  Main,       (* the one that runs the guest's main function               *)
  NoThread,   (* an empty std::thread                                      *)
  LastId      (* bound: the numbers given out, far below the range of int  *)

ASSUME RegistryAssumption ==
  /\ Main \in Threads
  /\ NoThread \notin Threads
  /\ LastId \in Nat

VARIABLES
  pc,           (* what each thread does next                              *)
  id_counter,
  threads,      (* the registry: a function from numbers to threads        *)
  thread_id,    (* the number a thread is creating or joining              *)
  t,            (* the std::thread each thread has as a local variable     *)
  process,      (* "running", "exited" or "aborted"                        *)
  parent,       (* whose exec_env a thread reads                           *)
  number,       (* history: the number a thread was created under          *)
  joined        (* history: the numbers join_thread has returned 0 for     *)

locals  == <<thread_id, t>>
history == <<parent, number, joined>>
vars    == <<pc, id_counter, threads, locals, process, history>>

Ids == 1..LastId

(* "none": not created yet; "guest": in the guest's code.                   *)
Steps == {"none", "born", "guest", "numbered", "made", "joining", "report", "ended"}

(* The steps of a new thread that use its creator's exec_env.               *)
ReadsEnv == {"born", "report"}

Goto(self, step) == pc' = [pc EXCEPT ![self] = step]

Init ==
  /\ pc = [u \in Threads |-> IF u = Main THEN "guest" ELSE "none"]
  /\ id_counter = 1
  /\ threads = [i \in {} |-> NoThread]
  /\ thread_id = [u \in Threads |-> 0]
  /\ t = [u \in Threads |-> NoThread]
  /\ process = "running"
  /\ parent = [u \in Threads |-> Main]
  /\ number = [u \in Threads |-> 0]
  /\ joined = {}

\* Mutant: the number is read after the increment.
TakeIdTwice(self) ==
  /\ pc[self] = "guest" /\ id_counter <= LastId
  /\ thread_id' = [thread_id EXCEPT ![self] = id_counter + 1]
  /\ id_counter' = id_counter + 1
  /\ Goto(self, "numbered")
  /\ UNCHANGED <<threads, t, process, history>>

\* Mutant: a plain int, whose increment may be lost.
TakeIdLost(self) ==
  /\ pc[self] = "guest" /\ id_counter <= LastId
  /\ thread_id' = [thread_id EXCEPT ![self] = id_counter]
  /\ id_counter' \in {id_counter, id_counter + 1}
  /\ Goto(self, "numbered")
  /\ UNCHANGED <<threads, t, process, history>>

(* create_thread.  id_counter++ is atomic; the new thread runs from the     *)
(* moment it is constructed, whether or not it is registered.               *)
TakeId(self) ==
  /\ pc[self] = "guest" /\ id_counter <= LastId
  /\ thread_id' = [thread_id EXCEPT ![self] = id_counter]
  /\ id_counter' = id_counter + 1
  /\ Goto(self, "numbered")
  /\ UNCHANGED <<threads, t, process, history>>

Make(self) ==
  /\ pc[self] = "numbered"
  /\ \E u \in Threads :
       /\ pc[u] = "none"
       /\ pc' = [pc EXCEPT ![self] = "made", ![u] = "born"]
       /\ t' = [t EXCEPT ![self] = u]
       /\ parent' = [parent EXCEPT ![u] = self]
       /\ number' = [number EXCEPT ![u] = thread_id[self]]
  /\ UNCHANGED <<id_counter, threads, thread_id, process, joined>>

\* Mutant: join_thread waits with the mutex held.
InsertBehindJoin(self) ==
  /\ pc[self] = "made" /\ \A u \in Threads : pc[u] # "joining"
  /\ threads' = [i \in DOMAIN threads \cup {thread_id[self]} |->
                   IF i = thread_id[self] THEN t[self] ELSE threads[i]]
  /\ t' = [t EXCEPT ![self] = NoThread]
  /\ Goto(self, "guest")
  /\ UNCHANGED <<id_counter, thread_id, process, history>>

Insert(self) ==
  /\ pc[self] = "made"
  /\ threads' = [i \in DOMAIN threads \cup {thread_id[self]} |->
                   IF i = thread_id[self] THEN t[self] ELSE threads[i]]
  /\ t' = [t EXCEPT ![self] = NoThread]
  /\ Goto(self, "guest")
  /\ UNCHANGED <<id_counter, thread_id, process, history>>

\* Mutant: the moved-from entry is not erased.
ExtractKeeps(self, i) ==
  /\ pc[self] = "guest" /\ i \in DOMAIN threads
  /\ threads' = [threads EXCEPT ![i] = NoThread]
  /\ t' = [t EXCEPT ![self] = threads[i]]
  /\ thread_id' = [thread_id EXCEPT ![self] = i]
  /\ Goto(self, "joining")
  /\ process' = IF threads[i] = self THEN "aborted" ELSE process
  /\ UNCHANGED <<id_counter, history>>

(* join_thread.  A number that is not registered is answered with -1 and    *)
(* changes nothing.  A thread that joins itself has std::thread::join throw *)
(* through the WASM runtime, which ends the process.                        *)
Extract(self, i) ==
  /\ pc[self] = "guest" /\ i \in DOMAIN threads
  /\ threads' = Restrict(threads, DOMAIN threads \ {i})
  /\ t' = [t EXCEPT ![self] = threads[i]]
  /\ thread_id' = [thread_id EXCEPT ![self] = i]
  /\ Goto(self, "joining")
  /\ process' = IF threads[i] = self THEN "aborted" ELSE process
  /\ UNCHANGED <<id_counter, history>>

\* Mutant: the test is inverted.
JoinableNot(u) == u = NoThread

(* t.joinable() is false of an empty std::thread.                           *)
Joinable(u) == u # NoThread

Join(self) ==
  /\ pc[self] = "joining"
  /\ Joinable(t[self]) => pc[t[self]] = "ended"
  /\ joined' = joined \cup {thread_id[self]}
  /\ t' = [t EXCEPT ![self] = NoThread]
  /\ Goto(self, "guest")
  /\ UNCHANGED <<id_counter, threads, thread_id, process, parent, number>>

(* The new thread: an environment of its own, the guest's function, the     *)
(* report of a trap, and the end of the environment.                        *)
Enter(self) ==
  /\ pc[self] = "born"
  /\ \E step \in {"guest", "ended"} : Goto(self, step)
  /\ UNCHANGED <<id_counter, threads, locals, process, history>>

Trap(self) ==
  /\ pc[self] = "guest" /\ self # Main
  /\ Goto(self, "report")
  /\ UNCHANGED <<id_counter, threads, locals, process, history>>

Return(self) ==
  /\ self # Main /\ pc[self] \in {"guest", "report"}
  /\ Goto(self, "ended")
  /\ UNCHANGED <<id_counter, threads, locals, process, history>>

(* An exec_env used after its owner destroyed it: undefined, so the step    *)
(* above or the end of the process.                                         *)
Crash(self) ==
  /\ pc[self] \in ReadsEnv /\ pc[parent[self]] = "ended"
  /\ process' = "aborted"
  /\ UNCHANGED <<pc, id_counter, threads, locals, history>>

(* main returns and the static registry is destroyed: a std::thread that is *)
(* still joinable ends the process with std::terminate.                     *)
Exit ==
  /\ pc[Main] = "guest"
  /\ process' = IF DOMAIN threads = {} THEN "exited" ELSE "aborted"
  /\ Goto(Main, "ended")
  /\ UNCHANGED <<id_counter, threads, locals, history>>

Thread(self) ==
  \/ TakeId(self) \/ Make(self) \/ Insert(self)
  \/ \E i \in Ids : Extract(self, i)
  \/ Join(self)
  \/ Enter(self) \/ Trap(self) \/ Return(self) \/ Crash(self)

Next ==
  /\ process = "running"
  /\ Exit \/ \E self \in Threads : Thread(self)

Spec == Init /\ [][Next]_vars

(* Every thread is scheduled and the guest's functions return, apart from   *)
(* main, which may run its windows for ever.                                *)
Fairness == \A self \in Threads :
  WF_vars(process = "running"
            /\ (Make(self) \/ Insert(self) \/ Join(self) \/ Enter(self) \/ Return(self)))

FairSpec == Spec /\ Fairness

-----------------------------------------------------------------------------
CountersOK ==
  /\ id_counter \in 1..(LastId + 1)
  /\ process \in {"running", "exited", "aborted"}
  /\ joined \subseteq 1..(id_counter - 1)
LocalsOK ==
  /\ pc \in [Threads -> Steps]
  /\ thread_id \in [Threads -> 0..(id_counter - 1)]
  /\ t \in [Threads -> Threads \cup {NoThread}]
HistoryOK ==
  /\ parent \in [Threads -> Threads]
  /\ number \in [Threads -> 0..(id_counter - 1)]
RegistryOK ==
  /\ DOMAIN threads \subseteq 1..(id_counter - 1)
  /\ \A i \in DOMAIN threads : threads[i] \in Threads

(* Every field has its type, and no number has been used that was not given *)
(* out (create_thread, join_thread).                                        *)
TypeOK == CountersOK /\ LocalsOK /\ HistoryOK /\ RegistryOK

Holds(u, c)   == pc[u] \in {"made", "joining"} /\ t[u] = c
Registered(c) == \E i \in DOMAIN threads : threads[i] = c
Joined(c)     == number[c] \in joined
Created(c)    == c # Main /\ pc[c] # "none"

(* A created thread is at any time in one place: with the thread that       *)
(* creates it, in the registry, with one joiner, or joined.  A std::thread  *)
(* that were dropped or overwritten while joinable would end the process,   *)
(* and one that two joiners had would be joined twice.                      *)
OneOwner ==
  \A c \in Threads : Created(c) =>
    /\ Registered(c) \/ Joined(c) \/ \E u \in Threads : Holds(u, c)
    /\ \A u \in Threads : Holds(u, c) =>
         /\ ~Registered(c) /\ ~Joined(c)
         /\ \A v \in Threads : Holds(v, c) => v = u
    /\ \A i \in DOMAIN threads : threads[i] = c => i = number[c] /\ ~Joined(c)

(* join_thread(n) returns 0 only after the thread that create_thread        *)
(* numbered n has ended, whichever threads create and join meanwhile.       *)
JoinedEnded == \A c \in Threads : Created(c) /\ Joined(c) => pc[c] = "ended"

(* The host keeps no exec_env alive for the threads that were given it, and  *)
(* leaves the registry to its destructor.  What that asks of the guest: where *)
(* no thread joins itself, and each has had all it created joined by the time *)
(* it ends, main included, the process is never aborted.                     *)
JoinsItself(u) == pc[u] = "joining" /\ t[u] = u
Abandoned(c)   == Created(c) /\ ~Joined(c) /\ pc[parent[c]] = "ended"
AbortExplained ==
  process = "aborted" => \E u \in Threads : JoinsItself(u) \/ Abandoned(u)

(* Threads that wait for each other.                                        *)
Deadlocked(u) ==
  \E S \in SUBSET Threads :
    u \in S /\ \A v \in S : pc[v] = "joining" /\ t[v] \in S

(* A join returns unless threads join each other in a ring: a thread that   *)
(* is being joined can still create, register and join others, because      *)
(* join_thread waits with the mutex released.                               *)
JoinReturns ==
  \A u \in Threads :
    pc[u] = "joining" ~> \/ pc[u] # "joining"
                         \/ Deadlocked(u)
                         \/ process # "running"
============================================================================

-------------------------- MODULE CompileAgreement --------------------------
(***************************************************************************)
(* common.jax_compile_cache: the agreement of the ranks before a real XLA  *)
(* compile, and compile_ahead.                                             *)
(*                                                                         *)
(* Every compile request of a process has a number.  The rank publishes    *)
(* what it is about to compile under that number; a rank whose persistent  *)
(* cache misses reads the others' records before XLA starts.  compile_ahead*)
(* reserves the number on the caller's thread and compiles on a helper.    *)
(* JAX's own part is external: one thread at a time compiles a lowering,   *)
(* the others wait and find its executable; nothing is kept of a failure.  *)
(***************************************************************************)
EXTENDS Integers, Sequences, FiniteSets, FiniteSetsExt

CONSTANTS
    N,           \* number of processes
    Helpers,     \* helper threads of a process (max_workers of the pool)
    Module,      \* programs that can be lowered
    Programs,    \* the common programs to choose from: sequences of calls
    Divergent,   \* modules a rank may lower differently from the others
    Deadlines,   \* may the wait for another rank's record have a deadline: a set of BOOLEANs
    MaxNumber    \* bound: request numbers of a process

ASSUME NAssumption == N \in Nat \ {0, 1}
ASSUME HelpersAssumption == Helpers # {} /\ "main" \notin Helpers
ASSUME DivergentAssumption == Divergent \subseteq Module
ASSUME DeadlineAssumption == Deadlines \subseteq BOOLEAN
ASSUME MaxNumberAssumption == MaxNumber \in Nat

Rank == 0 .. N - 1
Thread == Helpers \cup {"main"}
Number == 0 .. MaxNumber - 1
None == -1
Call == [kind : {"ahead", "result", "call"}, mod : Module]
ASSUME ProgramsAssumption == Programs \subseteq Seq(Call)
\* None is not a program.
ASSUME NoneAssumption == None \notin Module

\* What a rank publishes: the module and the key of its text.
Record == [mod : Module, key : {"common", "own"}]
NoRecord == [mod |-> None, key |-> None]

VARIABLES
    program,     \* the program of every main thread
    key,         \* the key of each module, per rank
    deadline,    \* the wait for another rank's record has a deadline
    warm,        \* modules the rank's persistent cache holds
    ip,          \* the call the main thread is at
    number,      \* _compile_sequence
    ahead,       \* _ahead: the number of the registered entry of a module
    claimed,     \* numbers of the entries whose compile a thread has claimed
    queue,       \* the pool's queue of [mod, slot]
    future,      \* the pool's future of each number
    at,          \* what each thread does
    memo,        \* modules whose lowering holds an executable
    record,      \* published records, per rank and number
    built        \* numbers under which the rank really compiled

vars == <<program, key, deadline, warm, ip, number, ahead, claimed, queue, future, at,
          memo, record, built>>
given == <<program, key, deadline>>

Stage == {"idle", "wants", "claimed", "published", "running", "dead"}
Idle == [stage |-> "idle", mod |-> None, slot |-> None, occurrence |-> None]

TypeOK ==
    /\ program \in Programs
    /\ key \in [Rank -> [Module -> {"common", "own"}]]
    /\ deadline \in Deadlines
    /\ warm \in [Rank -> SUBSET Module]
    /\ ip \in [Rank -> 1 .. Len(program) + 1]
    /\ number \in [Rank -> 0 .. MaxNumber]
    /\ ahead \in [Rank -> [Module -> Number \cup {None}]]
    /\ claimed \in [Rank -> SUBSET Number]
    /\ queue \in [Rank -> Seq([mod : Module, slot : Number])]
    /\ future \in [Rank -> [Number -> {"none", "pending", "done", "failed"}]]
    /\ at \in [Rank -> [Thread -> [stage : Stage, mod : Module \cup {None},
                                   slot : Number \cup {None},
                                   occurrence : Number \cup {None}]]]
    /\ memo \in [Rank -> SUBSET Module]
    /\ record \in [Rank -> [Number -> Record \cup {NoRecord}]]
    /\ built \in [Rank -> SUBSET Number]

Init ==
    /\ program \in Programs
    /\ key \in [Rank -> [Module -> {"common", "own"}]]
    /\ \A r \in Rank, m \in Module : key[r][m] = "own" => r # 0 /\ m \in Divergent
    /\ deadline \in Deadlines
    /\ warm \in [Rank -> SUBSET Module]
    /\ ip = [r \in Rank |-> 1]
    /\ number = [r \in Rank |-> 0]
    /\ ahead = [r \in Rank |-> [m \in Module |-> None]]
    /\ claimed = [r \in Rank |-> {}]
    /\ queue = [r \in Rank |-> <<>>]
    /\ future = [r \in Rank |-> [n \in Number |-> "none"]]
    /\ at = [r \in Rank |-> [t \in Thread |-> Idle]]
    /\ memo = [r \in Rank |-> {}]
    /\ record = [r \in Rank |-> [n \in Number |-> NoRecord]]
    /\ built = [r \in Rank |-> {}]

-----------------------------------------------------------------------------
(* The main thread between compiles *)

Next_(r) == program[ip[r]]
MainFree(r) == at[r]["main"].stage = "idle" /\ ip[r] <= Len(program)

\* compile_ahead: reserve a number, register the module unless it is, submit.
CompileAhead(r) ==
    LET m == Next_(r).mod  n == number[r] IN
    /\ MainFree(r) /\ Next_(r).kind = "ahead" /\ n < MaxNumber
    /\ ip' = [ip EXCEPT ![r] = @ + 1]
    /\ number' = [number EXCEPT ![r] = @ + 1]
    /\ ahead' = [ahead EXCEPT ![r][m] = IF @ = None THEN n ELSE @]
    /\ queue' = [queue EXCEPT ![r] = Append(@, [mod |-> m, slot |-> n])]
    /\ future' = [future EXCEPT ![r][n] = "pending"]
    /\ UNCHANGED <<given, warm, claimed, at, memo, record, built>>

Submitted(r) == {n \in Number : future[r][n] # "none"}

\* Mutant of TakeResult: the caller does not look at how the compile ended.
TakeResult_Blind(r) ==
    /\ MainFree(r) /\ Next_(r).kind = "result"
    /\ Submitted(r) # {} /\ future[r][Max(Submitted(r))] # "pending"
    /\ at' = [at EXCEPT ![r]["main"] = [Idle EXCEPT !.stage = "running", !.mod = Next_(r).mod]]
    /\ UNCHANGED <<given, warm, ip, number, ahead, claimed, queue, future, memo, record, built>>

\* result() on the future of the last compile_ahead, and the call of what it
\* returns; an exception surfaces here.
TakeResult(r) ==
    /\ MainFree(r) /\ Next_(r).kind = "result"
    /\ Submitted(r) # {}
    /\ LET end == future[r][Max(Submitted(r))] IN
         /\ end # "pending"
         /\ at' = [at EXCEPT ![r]["main"] =
                    [Idle EXCEPT !.stage = IF end = "done" THEN "running" ELSE "dead",
                                 !.mod = Next_(r).mod]]
    /\ UNCHANGED <<given, warm, ip, number, ahead, claimed, queue, future, memo, record, built>>

\* A call through jit asks its lowering for the executable.
LiveCall(r) ==
    /\ MainFree(r) /\ Next_(r).kind = "call"
    /\ at' = [at EXCEPT ![r]["main"] = [Idle EXCEPT !.stage = "wants", !.mod = Next_(r).mod]]
    /\ UNCHANGED <<given, warm, ip, number, ahead, claimed, queue, future, memo, record, built>>

FindExecutable(r) ==
    /\ at[r]["main"].stage = "wants" /\ at[r]["main"].mod \in memo[r]
    /\ at' = [at EXCEPT ![r]["main"].stage = "running"]
    /\ UNCHANGED <<given, warm, ip, number, ahead, claimed, queue, future, memo, record, built>>

AfterCall(r) ==
    /\ at' = [at EXCEPT ![r]["main"] = Idle]
    /\ ip' = [ip EXCEPT ![r] = @ + 1]
    /\ UNCHANGED <<given, warm, number, ahead, claimed, queue, future, memo, record, built>>

\* The call may return when the program is dispatched ...
Dispatch(r) == at[r]["main"].stage = "running" /\ AfterCall(r)

\* ... or when every rank runs the same program, whose collectives then end.
Synchronise(r) ==
    /\ at[r]["main"].stage = "running"
    /\ \A q \in Rank : \/ ip[q] > ip[r]
                       \/ ip[q] = ip[r] /\ at[q]["main"].stage = "running"
    /\ \A q \in Rank : key[q][at[r]["main"].mod] = key[r][at[r]["main"].mod]
    /\ AfterCall(r)

-----------------------------------------------------------------------------
(* A compile request, on the main thread or on a helper *)

\* An idle helper (they are alike: any one of them) takes the next submission,
\* first in first out (_compile_in_slot).
Take(r) == LET free == {t \in Helpers : at[r][t].stage = "idle"}
               t == CHOOSE h \in free : TRUE IN
    /\ free # {} /\ queue[r] # <<>>
    /\ at' = [at EXCEPT ![r][t] = [stage |-> "wants", mod |-> Head(queue[r]).mod,
                                   slot |-> Head(queue[r]).slot, occurrence |-> None]]
    /\ queue' = [queue EXCEPT ![r] = Tail(@)]
    /\ UNCHANGED <<given, warm, ip, number, ahead, claimed, future, memo, record, built>>

\* The finally clause of _compile_in_slot: the entry goes, if it is still ours.
Forget(r, t) ==
    ahead' = [ahead EXCEPT ![r][at[r][t].mod] = IF @ = at[r][t].slot THEN None ELSE @]

Leave(r, t) ==
    /\ t # "main" /\ at[r][t].stage = "wants" /\ at[r][t].mod \in memo[r]
    /\ Forget(r, t)
    /\ future' = [future EXCEPT ![r][at[r][t].slot] = "done"]
    /\ at' = [at EXCEPT ![r][t] = Idle]
    /\ UNCHANGED <<given, warm, ip, number, claimed, queue, memo, record, built>>

\* The request raises: on the main thread into the program, on a helper into
\* the future.
Raise(r, t) ==
    IF t = "main"
      THEN /\ at' = [at EXCEPT ![r][t].stage = "dead"]
           /\ UNCHANGED <<ahead, future>>
      ELSE /\ at' = [at EXCEPT ![r][t] = Idle]
           /\ Forget(r, t)
           /\ future' = [future EXCEPT ![r][at[r][t].slot] = "failed"]

\* JAX lets one thread at a time compile a lowering that has no executable.
MayCompile(r, t) ==
    /\ at[r][t].stage = "wants" /\ at[r][t].mod \notin memo[r]
    /\ \A u \in Thread : at[r][u].mod = at[r][t].mod
                           => at[r][u].stage \notin {"claimed", "published"}

\* _requested claims the registered entry; one already claimed has failed by
\* now (or its executable would be found), and its exception is raised.
Claim(r, t) ==
    LET entry == ahead[r][at[r][t].mod] IN
    /\ MayCompile(r, t)
    /\ IF entry \in claimed[r]
         THEN Raise(r, t) /\ UNCHANGED claimed
         ELSE /\ claimed' = [claimed EXCEPT ![r] = @ \cup ({entry} \ {None})]
              /\ at' = [at EXCEPT ![r][t].stage = "claimed", ![r][t].occurrence = entry]
              /\ UNCHANGED <<ahead, future>>
    /\ UNCHANGED <<given, warm, ip, number, queue, memo, record, built>>

Own(r, m) == [mod |-> m, key |-> key[r][m]]

\* Mutant of Publish: a fresh number for every request, the reserved one unused.
Publish_Fresh(r, t) ==
    LET n == number[r] IN
    /\ at[r][t].stage = "claimed" /\ n < MaxNumber
    /\ number' = [number EXCEPT ![r] = n + 1]
    /\ record' = [record EXCEPT ![r][n] = Own(r, at[r][t].mod)]
    /\ at' = [at EXCEPT ![r][t].stage = "published", ![r][t].occurrence = n]
    /\ UNCHANGED <<given, warm, ip, ahead, claimed, queue, future, memo, built>>

\* Mutant of Publish: a rank whose cache will serve the request stays silent.
Publish_OnMiss(r, t) ==
    LET reserved == at[r][t].occurrence
        n == IF reserved = None THEN number[r] ELSE reserved IN
    /\ at[r][t].stage = "claimed" /\ n < MaxNumber
    /\ number' = [number EXCEPT ![r] = IF reserved = None THEN n + 1 ELSE @]
    /\ record' = IF at[r][t].mod \in warm[r] THEN record
                 ELSE [record EXCEPT ![r][n] = Own(r, at[r][t].mod)]
    /\ at' = [at EXCEPT ![r][t].stage = "published", ![r][t].occurrence = n]
    /\ UNCHANGED <<given, warm, ip, ahead, claimed, queue, future, memo, built>>

\* The number reserved for the entry, or the next one; publish under it.
Publish(r, t) ==
    LET reserved == at[r][t].occurrence
        n == IF reserved = None THEN number[r] ELSE reserved IN
    /\ at[r][t].stage = "claimed" /\ n < MaxNumber
    /\ number' = [number EXCEPT ![r] = IF reserved = None THEN n + 1 ELSE @]
    /\ record' = [record EXCEPT ![r][n] = Own(r, at[r][t].mod)]
    /\ at' = [at EXCEPT ![r][t].stage = "published", ![r][t].occurrence = n]
    /\ UNCHANGED <<given, warm, ip, ahead, claimed, queue, future, memo, built>>

\* The executable is on the lowering; the thread finds it there (FindExecutable, Leave).
Compiled(r, t) ==
    /\ memo' = [memo EXCEPT ![r] = @ \cup {at[r][t].mod}]
    /\ at' = [at EXCEPT ![r][t].stage = "wants"]

Hit(r, t) ==
    /\ at[r][t].stage = "published" /\ at[r][t].mod \in warm[r]
    /\ Compiled(r, t)
    /\ UNCHANGED <<given, warm, ip, number, ahead, claimed, queue, future, record, built>>

\* Whose records a compiling rank waits for: rank 0 everyone's, a peer rank 0's.
Awaited(r) == IF r = 0 THEN Rank ELSE {0}

Waiting(r, t) == at[r][t].stage = "published" /\ at[r][t].mod \notin warm[r]

Agrees(r, t) ==
    \A q \in Awaited(r) : record[q][at[r][t].occurrence] = Own(r, at[r][t].mod)

\* _check_compile_record, then XLA, or the refusal.
CheckAndCompile(r, t) ==
    /\ Waiting(r, t)
    /\ \A q \in Awaited(r) : record[q][at[r][t].occurrence] # NoRecord
    /\ IF Agrees(r, t)
         THEN /\ Compiled(r, t)
              /\ warm' = [warm EXCEPT ![r] = @ \cup {at[r][t].mod}]
              /\ built' = [built EXCEPT ![r] = @ \cup {at[r][t].occurrence}]
              /\ UNCHANGED <<ahead, future>>
         ELSE Raise(r, t) /\ UNCHANGED <<warm, built, memo>>
    /\ UNCHANGED <<given, ip, number, claimed, queue, record>>

\* A record that has not come within the deadline is a refusal too.
TimeOut(r, t) ==
    /\ deadline /\ Waiting(r, t)
    /\ \E q \in Awaited(r) : record[q][at[r][t].occurrence] = NoRecord
    /\ Raise(r, t)
    /\ UNCHANGED <<given, warm, ip, number, claimed, queue, memo, record, built>>

-----------------------------------------------------------------------------
Main(r) == CompileAhead(r) \/ TakeResult(r) \/ LiveCall(r) \/ FindExecutable(r) \/ Synchronise(r)
Request(r, t) == Leave(r, t) \/ Claim(r, t) \/ Publish(r, t) \/ Hit(r, t) \/ CheckAndCompile(r, t)

Next == \E r \in Rank :
          \/ Main(r) \/ Dispatch(r) \/ Take(r)
          \/ \E t \in Thread : Request(r, t) \/ TimeOut(r, t)

Spec == Init /\ [][Next]_vars

\* A live thread runs, a submitted task finds a free helper, and a program all
\* ranks have started ends.  That a call returns before is not assumed.  A wait
\* that has a deadline ends.
Fairness ==
    /\ \A r \in Rank : WF_vars(Main(r))
    /\ \A r \in Rank : WF_vars(Take(r))
    /\ \A r \in Rank, t \in Thread : WF_vars(Request(r, t)) /\ WF_vars(TimeOut(r, t))

FairSpec == Spec /\ Fairness

-----------------------------------------------------------------------------
Failed(r) ==
    \/ at[r]["main"].stage = "dead"
    \/ \E n \in Number : future[r][n] = "failed"
NobodyFailed == \A r \in Rank : ~Failed(r)

\* A request number stands for the same program on every rank, whichever
\* thread of a rank came first, as long as nothing was refused: otherwise ranks
\* would compare different programs, or run their collectives crosswise
\* (_compile_event_prefix).
SameNumberSameProgram ==
    NobodyFailed =>
      \A r, q \in Rank, n \in Number :
        record[r][n] # NoRecord /\ record[q][n] # NoRecord
          => record[r][n].mod = record[q][n].mod

\* The count of a rank depends on how far its program is and on nothing a
\* helper does: ranks that stand at the same call have used the same numbers
\* (compile_ahead: the count must not depend on whether an earlier ahead compile
\* has finished).
CountFollowsProgram ==
    NobodyFailed =>
      \A r, q \in Rank :
        (/\ ip[r] = ip[q]
         /\ at[r]["main"].stage = at[q]["main"].stage
         /\ at[r]["main"].stage \in {"idle", "running"})
          => number[r] = number[q]

\* What ranks really compiled under one number is the same program text, and
\* rank 0 compiles only what every rank has asked for.
CompiledAlike ==
    /\ \A r, q \in Rank : \A n \in built[r] \cap built[q] : record[r][n] = record[q][n]
    /\ \A n \in built[0] : \A q \in Rank : record[q][n] = record[0][n]

\* With identical modules and no deadline every rank gets through its program,
\* though any rank's cache may serve any request: no rank waits for a record
\* that a hit, a late helper or a busy pool withholds.
EveryProgramRuns ==
    (~deadline /\ \A r \in Rank : key[r] = key[0])
        ~> (\A r \in Rank : ip[r] > Len(program))

\* A refusal on a helper thread reaches a main thread, so the job ends instead
\* of hanging (compile_ahead: it surfaces at result() or at the live call).
RefusalSurfaces ==
    (deadline /\ \E r \in Rank : Failed(r)) ~> (\E r \in Rank : at[r]["main"].stage = "dead")

\* The numbers and what is built under them, together: they name one program on
\* all ranks, follow the program's own order, and one text is compiled.
NumbersInv == TypeOK /\ SameNumberSameProgram /\ CountFollowsProgram /\ CompiledAlike
=============================================================================

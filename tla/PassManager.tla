----------------------------- MODULE PassManager -----------------------------
(***************************************************************************)
(* LLVM's legacy pass manager, as far as the passes of this repository can *)
(* tell: it schedules each pass behind the passes it requires, remembers   *)
(* the last user of each, runs the schedule on one function after another  *)
(* and calls releaseMemory() of a pass when its last user has run.         *)
(* (PMTopLevelManager::schedulePass and setLastUser, PMDataManager::add    *)
(* and removeDeadPasses, FPPassManager::runOnFunction.)  No pass is asked  *)
(* for with addRequiredTransitive, and all passes preserve everything.     *)
(***************************************************************************)
EXTENDS Naturals, Sequences, SequencesExt

CONSTANTS Passes,
          Requires,    \* what getAnalysisUsage() of a pass adds as required
          Wanted,      \* the command lines: the passes named, in order
          Functions    \* the functions of the module, in order

ASSUME RequiresAssumption == Requires \in [Passes -> SUBSET Passes]
ASSUME WantedAssumption == Wanted \subseteq Seq(Passes)
ASSUME FunctionsAssumption == Functions \in Seq(ToSet(Functions)) /\ IsInjective(Functions)

VARIABLES wanted,    \* what is left of the command line
          stack,     \* the calls of schedulePass()
          schedule,  \* the passes in the order they run
          lastUser,  \* of each pass in the schedule
          fn, ip,    \* the function and the pass to run next; fn = 0: scheduling
          ran,       \* that pass has run and nothing has been released yet
          holds      \* the functions whose results a pass has in memory

planVars == <<wanted, stack, schedule, lastUser>>
pmvars == <<wanted, stack, schedule, lastUser, fn, ip, ran, holds>>

PMInit == /\ wanted \in Wanted
          /\ stack = <<>> /\ schedule = <<>> /\ lastUser = <<>>
          /\ fn = 0 /\ ip = 1 /\ ran = FALSE
          /\ holds = [p \in Passes |-> {}]

-------------------------------------------------------------------------------
(* Scheduling.                                                              *)

Missing(p) == Requires[p] \ ToSet(schedule)

\* A pass of the command line.  One that is in the schedule already would
\* get a second instance, which is not modelled.
Ask == /\ fn = 0 /\ stack = <<>> /\ wanted # <<>>
       /\ Head(wanted) \notin ToSet(schedule)
       /\ stack' = <<Head(wanted)>>
       /\ wanted' = Tail(wanted)
       /\ UNCHANGED <<schedule, lastUser, fn, ip, ran, holds>>

Require == /\ stack # <<>>
           /\ \E q \in Missing(Head(stack)) : stack' = <<q>> \o stack
           /\ UNCHANGED <<wanted, schedule, lastUser, fn, ip, ran, holds>>

\* Mutant: a pass does not become the last user of what it requires.
FirstUsers(p) == [q \in ToSet(schedule) \cup {p} |-> IF q = p THEN p ELSE lastUser[q]]

\* p is the last user of itself, of what it requires, and of whatever had
\* one of these for its last user.
Users(p) == [q \in ToSet(schedule) \cup {p} |->
               IF q = p \/ q \in Requires[p] \/ lastUser[q] \in Requires[p] THEN p ELSE lastUser[q]]

Add == /\ stack # <<>>
       /\ Missing(Head(stack)) = {}
       /\ schedule' = Append(schedule, Head(stack))
       /\ lastUser' = Users(Head(stack))
       /\ stack' = Tail(stack)
       /\ UNCHANGED <<wanted, fn, ip, ran, holds>>

Start == /\ fn = 0 /\ stack = <<>> /\ wanted = <<>>
         /\ fn' = 1
         /\ UNCHANGED <<planVars, ip, ran, holds>>

-------------------------------------------------------------------------------
(* Running.                                                                 *)

Due == fn \in DOMAIN Functions /\ ip \in DOMAIN schedule /\ ~ran

\* runOnFunction() adds to what the pass has in memory.
Run(p) == /\ Due
          /\ p = schedule[ip]
          /\ holds' = [holds EXCEPT ![p] = @ \cup {Functions[fn]}]
          /\ ran' = TRUE
          /\ UNCHANGED <<planVars, fn, ip>>

Dead == {q \in ToSet(schedule) : lastUser[q] = schedule[ip]}

\* removeDeadPasses(), and on to the next pass or the next function.
Release == /\ ran
           /\ holds' = [p \in Passes |-> IF p \in Dead THEN {} ELSE holds[p]]
           /\ ran' = FALSE
           /\ IF ip = Len(schedule) THEN ip' = 1 /\ fn' = fn + 1
                                    ELSE ip' = ip + 1 /\ UNCHANGED fn
           /\ UNCHANGED planVars

Plan == Ask \/ Require \/ Add \/ Start

PMNext == Plan \/ Release \/ \E p \in Passes : Run(p)

PMSpec == PMInit /\ [][PMNext]_pmvars

-------------------------------------------------------------------------------

\* Whatever passes are asked for and in whatever order, a pass finds in those it
\* requires the results for the function it runs on and no others: nothing of
\* theirs was released before, nor left over from another function.
RequiredAreCurrent == Due => \A q \in Requires[schedule[ip]] : holds[q] = {Functions[fn]}

\* When the next function's turn comes, no pass has anything in memory.
CleanBetweenFunctions == ip = 1 /\ ~ran => \A p \in Passes : holds[p] = {}

==============================================================================

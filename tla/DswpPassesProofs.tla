--------------------------- MODULE DswpPassesProofs ---------------------------
(***************************************************************************)
(* Proofs about the schedule and what the passes hold in memory, for any   *)
(* passes, requirements, command lines and functions: a pass finds the     *)
(* results it requires, no function leaves anything to the next, and what  *)
(* DecoupleLoops tells through addresses is about the function asked for.  *)
(***************************************************************************)
EXTENDS DswpPasses, TLAPS

Scheduled == {schedule[k] : k \in DOMAIN schedule}

PMTypeOK == /\ wanted \in Seq(Passes) /\ stack \in Seq(Passes) /\ schedule \in Seq(Passes)
            /\ lastUser \in [Scheduled -> Scheduled]
            /\ fn \in Nat /\ ip \in Nat /\ ran \in BOOLEAN
            /\ ip = 1 \/ ip \in DOMAIN schedule
            /\ ran => fn \in DOMAIN Functions /\ ip \in DOMAIN schedule
            /\ fn = 0 => ip = 1 /\ ~ran
            /\ fn > 0 => stack = <<>>

\* Each pass is scheduled once, behind those it requires.
Ordered == /\ \A i, j \in DOMAIN schedule : schedule[i] = schedule[j] => i = j
           /\ \A j \in DOMAIN schedule : \A q \in Requires[schedule[j]] :
                \E i \in DOMAIN schedule : i < j /\ schedule[i] = q

\* The passes being scheduled require each other and are not scheduled yet.
Waiting == /\ \A k \in 1 .. Len(stack) : stack[k] \notin Scheduled
           /\ \A k \in 1 .. Len(stack) - 1 : stack[k] \in Requires[stack[k + 1]]

\* No use of q comes after the place m of its last user.
LastAt(q, m) == /\ schedule[m] = lastUser[q]
                /\ \A k \in DOMAIN schedule :
                     schedule[k] = q \/ q \in Requires[schedule[k]] => k <= m

LastUsers == \A q \in Scheduled : \E m \in DOMAIN schedule : LastAt(q, m)

\* q has run on the function, and its last user has not.
Needed(q) == /\ fn \in DOMAIN Functions
             /\ \E j, m \in DOMAIN schedule :
                  /\ schedule[j] = q /\ schedule[m] = lastUser[q]
                  /\ (j < ip \/ (j = ip /\ ran)) /\ ip <= m

HoldsNeeded == holds = [q \in Passes |-> IF Needed(q) THEN {Functions[fn]} ELSE {}]

IInv == PMTypeOK /\ Ordered /\ Waiting /\ LastUsers /\ HoldsNeeded

-------------------------------------------------------------------------------

\* Appending to a sequence: the old places and one more.
LEMMA AppendPlaces ==
    ASSUME NEW S, NEW s \in Seq(S), NEW e \in S
    PROVE  /\ Append(s, e) \in Seq(S)
           /\ DOMAIN s = 1 .. Len(s) /\ Len(s) \in Nat
           /\ DOMAIN Append(s, e) = 1 .. (Len(s) + 1)
           /\ \A k \in DOMAIN s : k \in DOMAIN Append(s, e) /\ Append(s, e)[k] = s[k]
           /\ Append(s, e)[Len(s) + 1] = e
           /\ \A k \in DOMAIN Append(s, e) : k \in DOMAIN s \/ k = Len(s) + 1
OBVIOUS

\* The scheduler begins with nothing scheduled and nothing in memory.
LEMMA InitIInv == PMInit => IInv
<1> SUFFICES ASSUME PMInit PROVE IInv
  OBVIOUS
<1> USE DEF PMInit
<1>1. schedule = <<>> /\ stack = <<>> /\ DOMAIN schedule = {} /\ Scheduled = {}
  BY DEF Scheduled
<1>2. wanted \in Seq(Passes)
  BY WantedAssumption
<1>3. lastUser \in [{} -> {}]
  OBVIOUS
<1>4. stack \in Seq(Passes) /\ schedule \in Seq(Passes)
  OBVIOUS
<1>5. lastUser \in [Scheduled -> Scheduled]
  BY <1>1, <1>3
<1>6. PMTypeOK
  BY <1>2, <1>4, <1>5 DEF PMTypeOK
<1>7. Ordered /\ Waiting /\ LastUsers
  BY <1>1 DEF Ordered, Waiting, LastUsers
<1>8. HoldsNeeded
  BY <1>1 DEF HoldsNeeded, Needed
<1> QED BY <1>6, <1>7, <1>8 DEF IInv

\* While passes are scheduled nothing runs, and nothing is in memory.
LEMMA Idle == IInv /\ fn = 0 => Due = FALSE /\ holds = [q \in Passes |-> {}] /\ 0 \notin DOMAIN Functions
<1>1. 0 \notin DOMAIN Functions
  BY FunctionsAssumption
<1> QED BY <1>1 DEF IInv, HoldsNeeded, Needed, Due

\* What the command line asks for waits to be scheduled.
LEMMA AskStep == IInv /\ Ask => IInv'
<1> SUFFICES ASSUME IInv, Ask PROVE IInv'
  OBVIOUS
<1> USE DEF IInv
<1>1. /\ Head(wanted) \in Passes /\ Tail(wanted) \in Seq(Passes)
      /\ Head(wanted) \notin Scheduled
  BY DEF Ask, PMTypeOK, ToSet, Scheduled
<1>2. UNCHANGED <<schedule, lastUser, fn, ip, ran, holds, Scheduled>>
  BY DEF Ask, Scheduled
<1>3. PMTypeOK'
  BY <1>1, <1>2 DEF Ask, PMTypeOK
<1>4. Ordered' /\ LastUsers' /\ HoldsNeeded'
  BY <1>2 DEF Ordered, LastUsers, LastAt, HoldsNeeded, Needed
<1>5. Len(stack') = 1 /\ stack'[1] = Head(wanted)
  BY <1>1 DEF Ask
<1>6. Waiting'
  BY <1>1, <1>2, <1>5 DEF Waiting
<1> QED BY <1>3, <1>4, <1>6

\* A pass on top of the stack makes one wait that it requires.
LEMMA RequireStep == IInv /\ Require => IInv'
<1> SUFFICES ASSUME IInv, stack # <<>>, NEW q \in Missing(Head(stack)),
                    stack' = <<q>> \o stack,
                    UNCHANGED <<wanted, schedule, lastUser, fn, ip, ran, holds>>
             PROVE  IInv'
  BY DEF Require
<1> USE DEF IInv
<1>1. /\ stack \in Seq(Passes) /\ Len(stack) \in Nat /\ Len(stack) > 0
      /\ Head(stack) = stack[1] /\ stack[1] \in Passes
  BY DEF PMTypeOK
<1>2. q \in Passes /\ q \in Requires[stack[1]] /\ q \notin Scheduled
  BY <1>1, RequiresAssumption DEF Missing, ToSet, Scheduled
<1>3. UNCHANGED Scheduled
  BY DEF Scheduled
<1>4. PMTypeOK'
  BY <1>1, <1>2, <1>3 DEF PMTypeOK
<1>5. Ordered' /\ LastUsers' /\ HoldsNeeded'
  BY <1>3 DEF Ordered, LastUsers, LastAt, HoldsNeeded, Needed
<1>6. /\ Len(stack') = Len(stack) + 1 /\ stack'[1] = q
      /\ \A k \in 1 .. Len(stack) : stack'[k + 1] = stack[k]
  BY <1>1, <1>2
<1>7. Waiting'
  <2>1. ASSUME NEW k \in 1 .. Len(stack') PROVE stack'[k] \notin Scheduled
    <3>1. CASE k = 1
      BY <3>1, <1>2, <1>6
    <3>2. CASE k # 1
      <4>1. k - 1 \in 1 .. Len(stack) /\ stack'[(k - 1) + 1] = stack[k - 1] /\ (k - 1) + 1 = k
        BY <3>2, <1>1, <1>6
      <4> QED BY <4>1 DEF Waiting
    <3> QED BY <3>1, <3>2
  <2>2. ASSUME NEW k \in 1 .. Len(stack') - 1 PROVE stack'[k] \in Requires[stack'[k + 1]]
    <3>1. k \in 1 .. Len(stack) /\ stack'[k + 1] = stack[k]
      BY <1>1, <1>6
    <3>2. CASE k = 1
      BY <3>1, <3>2, <1>2, <1>6
    <3>3. CASE k # 1
      <4>1. k - 1 \in 1 .. Len(stack) - 1 /\ stack'[(k - 1) + 1] = stack[k - 1] /\ (k - 1) + 1 = k
        BY <3>1, <3>3, <1>1, <1>6
      <4>2. stack[k - 1] \in Requires[stack[(k - 1) + 1]]
        BY <4>1 DEF Waiting
      <4> QED BY <3>1, <4>1, <4>2
    <3> QED BY <3>2, <3>3
  <2> QED BY <2>1, <2>2, <1>3 DEF Waiting
<1> QED BY <1>4, <1>5, <1>7

\* A pass all of whose requirements are scheduled comes behind them and becomes
\* the last user of them, and of whatever was used last by one of them.
LEMMA AddStep == IInv /\ Add => IInv'
<1> SUFFICES ASSUME IInv, Add PROVE IInv'
  OBVIOUS
<1> DEFINE p == Head(stack)
           n == Len(schedule)
<1> USE DEF IInv
<1>1. /\ stack \in Seq(Passes) /\ stack # <<>> /\ Len(stack) \in Nat /\ Len(stack) > 0
      /\ p = stack[1] /\ p \in Passes
  BY DEF Add, PMTypeOK
<1>2. schedule \in Seq(Passes) /\ schedule' = Append(schedule, p)
  BY DEF Add, PMTypeOK
<1>3. /\ n \in Nat /\ DOMAIN schedule = 1 .. n /\ DOMAIN schedule' = 1 .. (n + 1)
      /\ schedule' \in Seq(Passes) /\ schedule'[n + 1] = p
      /\ \A k \in 1 .. n : schedule'[k] = schedule[k]
      /\ \A k \in 1 .. (n + 1) : k \in 1 .. n \/ k = n + 1
  BY <1>1, <1>2, AppendPlaces
<1>4. Scheduled' = Scheduled \cup {p} /\ p \notin Scheduled
  <2>1. Scheduled' = {schedule'[k] : k \in DOMAIN schedule'}
    BY DEF Scheduled
  <2>2. p \notin Scheduled
    BY <1>1 DEF Waiting
  <2> QED BY <2>1, <2>2, <1>3 DEF Scheduled
<1>5. Requires[p] \subseteq Scheduled
  BY <1>1 DEF Add, Missing, ToSet, Scheduled
<1>6. /\ lastUser' = [q \in Scheduled' |-> IF q = p \/ q \in Requires[p] \/ lastUser[q] \in Requires[p]
                                             THEN p ELSE lastUser[q]]
      /\ lastUser \in [Scheduled -> Scheduled]
  BY <1>4 DEF Add, Users, PMTypeOK, ToSet, Scheduled
<1>7. UNCHANGED <<wanted, fn, ip, ran, holds>> /\ stack' = Tail(stack)
  BY DEF Add
<1>8. fn = 0 /\ ip = 1 /\ ~ran
  BY <1>1 DEF PMTypeOK
<1>9. PMTypeOK'
  <2>1. lastUser' \in [Scheduled' -> Scheduled']
    BY <1>4, <1>6
  <2>2. stack' \in Seq(Passes)
    BY <1>1, <1>7
  <2> QED BY <2>1, <2>2, <1>3, <1>7, <1>8 DEF PMTypeOK
<1>10. Ordered'
  <2>1. \A i, j \in DOMAIN schedule' : schedule'[i] = schedule'[j] => i = j
    BY <1>3, <1>4 DEF Ordered, Scheduled
  <2>2. ASSUME NEW j \in DOMAIN schedule', NEW q \in Requires[schedule'[j]]
        PROVE  \E i \in DOMAIN schedule' : i < j /\ schedule'[i] = q
    <3>1. CASE j \in 1 .. n
      <4>1. PICK i \in 1 .. n : i < j /\ schedule[i] = q
        BY <3>1, <1>3, <2>2 DEF Ordered
      <4> QED BY <4>1, <1>3
    <3>2. CASE j = n + 1
      <4>1. PICK i \in 1 .. n : schedule[i] = q
        BY <3>2, <1>3, <1>5, <2>2 DEF Scheduled
      <4> QED BY <4>1, <3>2, <1>3
    <3> QED BY <3>1, <3>2, <1>3
  <2> QED BY <2>1, <2>2 DEF Ordered
<1>11. Waiting'
  <2>1. /\ Len(stack') = Len(stack) - 1
        /\ \A k \in 1 .. Len(stack') : stack'[k] = stack[k + 1] /\ k + 1 \in 1 .. Len(stack)
    BY <1>1, <1>7
  <2>2. ASSUME NEW k \in 1 .. Len(stack') PROVE stack'[k] \notin Scheduled'
    <3>1. stack[k + 1] \notin Scheduled
      BY <2>1 DEF Waiting
    <3>2. ASSUME stack[k + 1] = p PROVE FALSE
      <4>1. k \in 1 .. Len(stack) - 1
        BY <2>1, <1>1
      <4>2. stack[k] \in Requires[p] /\ stack[k] \notin Scheduled
        BY <4>1, <3>2, <1>1 DEF Waiting
      <4> QED BY <4>2, <1>5
    <3> QED BY <3>1, <3>2, <2>1, <1>4
  <2>3. \A k \in 1 .. Len(stack') - 1 : stack'[k] \in Requires[stack'[k + 1]]
    <3>1. ASSUME NEW k \in 1 .. Len(stack') - 1
          PROVE  /\ stack'[k] = stack[k + 1] /\ stack'[k + 1] = stack[(k + 1) + 1]
                 /\ k + 1 \in 1 .. Len(stack) - 1
      BY <2>1, <1>1
    <3> QED BY <3>1 DEF Waiting
  <2> QED BY <2>2, <2>3 DEF Waiting
<1>12. LastUsers'
  <2>1. ASSUME NEW q \in Scheduled' PROVE \E m \in DOMAIN schedule' : LastAt(q, m)'
    <3>1. CASE q = p \/ q \in Requires[p] \/ lastUser[q] \in Requires[p]
      <4>1. lastUser'[q] = p /\ n + 1 \in DOMAIN schedule'
        BY <3>1, <1>3, <1>6
      <4>2. PICK m \in DOMAIN schedule' : m = n + 1
        BY <4>1
      <4>3. schedule'[m] = lastUser'[q] /\ \A k \in DOMAIN schedule' : k <= m
        BY <4>1, <4>2, <1>3
      <4>4. LastAt(q, m)'
        BY <4>3 DEF LastAt
      <4> QED BY <4>4
    <3>2. CASE ~(q = p \/ q \in Requires[p] \/ lastUser[q] \in Requires[p])
      <4>1. q \in Scheduled /\ lastUser'[q] = lastUser[q]
        BY <3>2, <1>4, <1>6
      <4>2. PICK m \in DOMAIN schedule : LastAt(q, m)
        BY <4>1 DEF LastUsers
      <4>3. LastAt(q, m)'
        BY <4>1, <4>2, <3>2, <1>3 DEF LastAt
      <4> QED BY <4>2, <4>3, <1>3
    <3> QED BY <3>1, <3>2
  <2> QED BY <2>1 DEF LastUsers
<1>13. HoldsNeeded'
  <2>1. holds' = [q \in Passes |-> {}] /\ fn' \notin DOMAIN Functions
    BY <1>7, <1>8, Idle
  <2> QED BY <2>1 DEF HoldsNeeded, Needed
<1> QED BY <1>9, <1>10, <1>11, <1>12, <1>13

\* When scheduling is over, the first pass is due on the first function.
LEMMA StartStep == IInv /\ Start => IInv'
<1> SUFFICES ASSUME IInv, Start PROVE IInv'
  OBVIOUS
<1> USE DEF IInv
<1>1. /\ UNCHANGED <<wanted, stack, schedule, lastUser, ip, ran, holds, Scheduled>>
      /\ fn = 0 /\ fn' = 1 /\ stack = <<>> /\ ip = 1 /\ ~ran
  BY DEF Start, planVars, PMTypeOK, Scheduled
<1>2. PMTypeOK' /\ Ordered' /\ Waiting' /\ LastUsers'
  BY <1>1 DEF PMTypeOK, Ordered, Waiting, LastUsers, LastAt
<1>3. DOMAIN schedule = 1 .. Len(schedule) /\ Len(schedule) \in Nat
  BY DEF PMTypeOK
<1>4. holds' = [q \in Passes |-> {}] /\ \A q \in Passes : ~Needed(q)'
  BY <1>1, <1>3, Idle DEF Needed
<1> QED BY <1>2, <1>4 DEF HoldsNeeded

\* A pass that runs holds this function's results, which its last user still needs.
LEMMA RunStep == \A p \in Passes : IInv /\ Run(p) => IInv'
<1> SUFFICES ASSUME NEW p \in Passes, IInv, Run(p) PROVE IInv'
  OBVIOUS
<1> USE DEF IInv
<1>1. /\ UNCHANGED <<wanted, stack, schedule, lastUser, fn, ip, Scheduled>>
      /\ fn \in DOMAIN Functions /\ ip \in DOMAIN schedule /\ ~ran /\ ran' = TRUE
      /\ p = schedule[ip]
      /\ holds' = [holds EXCEPT ![p] = @ \cup {Functions[fn]}]
  BY DEF Run, Due, planVars, Scheduled
<1>2. fn # 0
  BY <1>1, Idle
<1>3. PMTypeOK' /\ Ordered' /\ Waiting' /\ LastUsers'
  BY <1>1, <1>2 DEF PMTypeOK, Ordered, Waiting, LastUsers, LastAt
<1>4. DOMAIN schedule \subseteq Nat /\ ip \in Nat
  BY DEF PMTypeOK
<1>5. ~Needed(p) /\ Needed(p)'
  <2>1. p \in Scheduled
    BY <1>1 DEF Scheduled
  <2>2. PICK m \in DOMAIN schedule : LastAt(p, m)
    BY <2>1 DEF LastUsers
  <2>3. ip <= m /\ schedule[m] = lastUser[p]
    BY <1>1, <2>2 DEF LastAt
  <2>4. Needed(p)'
    BY <1>1, <2>3 DEF Needed
  <2>5. \A j \in DOMAIN schedule : schedule[j] = p => j = ip
    BY <1>1 DEF Ordered
  <2>6. ~Needed(p)
    BY <1>1, <1>4, <2>5 DEF Needed
  <2> QED BY <2>4, <2>6
<1>6. \A q \in Passes : q # p => (Needed(q)' <=> Needed(q))
  BY <1>1 DEF Needed
<1>7. HoldsNeeded'
  BY <1>1, <1>5, <1>6 DEF HoldsNeeded
<1> QED BY <1>3, <1>7

\* What the pass was the last user of is freed, and the rest is needed still.
LEMMA ReleaseStep == IInv /\ Release => IInv'
<1> SUFFICES ASSUME IInv, Release PROVE IInv'
  OBVIOUS
<1> USE DEF IInv
<1>1. /\ UNCHANGED <<wanted, stack, schedule, lastUser, Scheduled>>
      /\ ran /\ ran' = FALSE /\ fn \in DOMAIN Functions /\ ip \in DOMAIN schedule
      /\ holds' = [p \in Passes |-> IF p \in Dead THEN {} ELSE holds[p]]
  BY DEF Release, planVars, PMTypeOK, Scheduled
<1>2. fn # 0 /\ fn \in Nat
  BY <1>1, Idle DEF PMTypeOK
<1>3. DOMAIN schedule = 1 .. Len(schedule) /\ Len(schedule) \in Nat /\ ip \in Nat
  BY DEF PMTypeOK
<1>4. Ordered' /\ Waiting' /\ LastUsers'
  BY <1>1 DEF Ordered, Waiting, LastUsers, LastAt
<1>5. Dead = {q \in Scheduled : lastUser[q] = schedule[ip]}
  BY DEF Dead, ToSet, Scheduled
<1>6. ASSUME NEW q \in Passes
      PROVE  Needed(q) /\ q \notin Dead <=>
               \E j, m \in DOMAIN schedule :
                  schedule[j] = q /\ schedule[m] = lastUser[q] /\ j <= ip /\ ip < m
  BY <1>1, <1>3, <1>5 DEF Needed, Scheduled, Ordered
<1>7. CASE ip = Len(schedule)
  <2>1. ip' = 1 /\ fn' = fn + 1
    BY <1>7 DEF Release
  <2>2. PMTypeOK'
    <3>1. fn' \in Nat /\ fn' # 0 /\ ip' = 1 /\ stack = <<>>
      BY <1>2, <2>1 DEF PMTypeOK
    <3> QED BY <1>1, <3>1 DEF PMTypeOK
  <2>3. \A q \in Passes : ~Needed(q)' /\ (Needed(q) => q \in Dead)
    BY <1>1, <1>3, <1>6, <1>7, <2>1 DEF Needed
  <2>4. HoldsNeeded'
    BY <1>1, <2>3 DEF HoldsNeeded
  <2> QED BY <1>4, <2>2, <2>4
<1>8. CASE ip # Len(schedule)
  <2>1. ip' = ip + 1 /\ fn' = fn /\ ip + 1 \in DOMAIN schedule
    BY <1>8, <1>1, <1>3 DEF Release
  <2>2. PMTypeOK'
    <3>1. ip' \in Nat /\ ip' \in DOMAIN schedule /\ fn' = fn /\ fn # 0 /\ stack = <<>>
      BY <1>2, <1>3, <2>1 DEF PMTypeOK
    <3> QED BY <1>1, <3>1 DEF PMTypeOK
  <2>3. ASSUME NEW q \in Passes PROVE Needed(q)' <=> Needed(q) /\ q \notin Dead
    <3>1. Needed(q)' <=> \E j, m \in DOMAIN schedule :
             schedule[j] = q /\ schedule[m] = lastUser[q] /\ j < ip + 1 /\ ip + 1 <= m
      BY <1>1, <2>1 DEF Needed
    <3> QED BY <3>1, <1>3, <1>6
  <2>4. HoldsNeeded'
    BY <1>1, <2>1, <2>3 DEF HoldsNeeded
  <2> QED BY <1>4, <2>2, <2>4
<1> QED BY <1>7, <1>8

\* The pass manager's inductive invariant survives each of its steps.
LEMMA NextIInv == IInv /\ [PMNext]_pmvars => IInv'
<1> SUFFICES ASSUME IInv, [PMNext]_pmvars PROVE IInv'
  OBVIOUS
<1>1. CASE Plan
  BY <1>1, AskStep, RequireStep, AddStep, StartStep DEF Plan
<1>2. CASE Release
  BY <1>2, ReleaseStep
<1>3. CASE \E p \in Passes : Run(p)
  BY <1>3, RunStep
<1>4. CASE UNCHANGED pmvars
  <2> USE <1>4 DEF pmvars
  <2>1. PMTypeOK' /\ Ordered' /\ Waiting'
    BY DEF IInv, PMTypeOK, Ordered, Waiting, Scheduled
  <2>2. LastUsers'
    BY DEF IInv, LastUsers, LastAt, Scheduled
  <2>3. HoldsNeeded'
    BY DEF IInv, HoldsNeeded, Needed
  <2> QED BY <2>1, <2>2, <2>3 DEF IInv
<1> QED BY <1>1, <1>2, <1>3, <1>4 DEF PMNext

\* In the inductive invariant, what a pass requires has run on the function and
\* is needed still, so it holds this function's results and no others.
LEMMA IInvIsCurrent == IInv => RequiredAreCurrent
<1> SUFFICES ASSUME IInv, Due, NEW q \in Requires[schedule[ip]]
             PROVE  holds[q] = {Functions[fn]}
  BY DEF RequiredAreCurrent
<1> USE DEF IInv
<1>1. fn \in DOMAIN Functions /\ ip \in DOMAIN schedule /\ ip \in Nat /\ schedule[ip] \in Passes
  BY DEF Due, PMTypeOK
<1>2. q \in Passes
  BY <1>1, RequiresAssumption
<1>3. PICK j \in DOMAIN schedule : j < ip /\ schedule[j] = q
  BY <1>1 DEF Ordered
<1>4. PICK m \in DOMAIN schedule : LastAt(q, m)
  BY <1>3 DEF LastUsers, Scheduled
<1>5. ip <= m /\ schedule[m] = lastUser[q]
  BY <1>1, <1>4 DEF LastAt
<1>6. Needed(q)
  BY <1>1, <1>3, <1>5 DEF Needed
<1> QED BY <1>2, <1>6 DEF HoldsNeeded

\* In the inductive invariant nothing is needed before the first pass has run.
LEMMA IInvIsClean == IInv => CleanBetweenFunctions
<1> SUFFICES ASSUME IInv, ip = 1, ~ran, NEW p \in Passes PROVE holds[p] = {}
  BY DEF CleanBetweenFunctions
<1>1. DOMAIN schedule = 1 .. Len(schedule) /\ Len(schedule) \in Nat
  BY DEF IInv, PMTypeOK
<1>2. ~Needed(p)
  BY <1>1 DEF Needed
<1> QED BY <1>2 DEF IInv, HoldsNeeded

\* The pass manager keeps its inductive invariant, whatever the passes.
THEOREM Inductive == PMSpec => []IInv
BY InitIInv, NextIInv, PTL DEF PMSpec

-------------------------------------------------------------------------------

\* The passes of the repository, with their memory, are passes of that manager:
\* each step is one of the pass manager's.
THEOREM RunsUnderThePassManager == Spec => PMSpec
<1>1. Init => PMInit
  BY DEF Init
<1>2. [Next]_vars => [PMNext]_pmvars
  <2> SUFFICES ASSUME [Next]_vars PROVE [PMNext]_pmvars
    OBVIOUS
  <2>1. CASE UNCHANGED vars
    BY <2>1 DEF vars
  <2>2. CASE Plan \/ ReleaseMemory
    BY <2>2 DEF PMNext, ReleaseMemory
  <2>3. CASE RunLoopInfo \/ RunPSG \/ RunDecoupleLoops
    BY <2>3, OwnersAssumption DEF PMNext, RunLoopInfo, RunPSG, RunDecoupleLoops
  <2>4. CASE RunReader \/ RunAsker
    BY <2>4 DEF PMNext, RunReader, RunAsker, Readers, Askers
  <2> QED BY <2>1, <2>2, <2>3, <2>4 DEF Next
<1> QED BY <1>1, <1>2, PTL DEF Spec, PMSpec

\* Whatever the command line, a pass of the repository finds the results it
\* requires, of the function it runs on: the last user of each is computed right.
THEOREM ResultsAreThere == Spec => []RequiredAreCurrent
BY RunsUnderThePassManager, Inductive, IInvIsCurrent, PTL

\* The owners of memory have freed it all when they hold no function's results.
MemInv == /\ holds["psg"] = {} => sccAt = [a \in SccAddrs |-> Null]
          /\ holds["loops"] = {} => loopAt = [a \in LoopAddrs |-> Null]
          /\ holds["decouple-loops"] = {} => DOMAIN LoopToIterScc = {} /\ DOMAIN LoopToWorkScc = {}

\* Each releaseMemory() frees what its pass has, and no other pass gets hold of it.
LEMMA NextMemInv == IInv /\ MemInv /\ [Next]_vars => MemInv'
<1> SUFFICES ASSUME IInv, MemInv, [Next]_vars PROVE MemInv'
  OBVIOUS
<1> USE DEF MemInv
<1>1. "loops" \in Passes /\ "psg" \in Passes /\ "decouple-loops" \in Passes
  BY OwnersAssumption
<1>2. DOMAIN holds = Passes
  BY DEF IInv, HoldsNeeded
<1>3. ASSUME NEW p \in Passes, NEW q \in Passes, Run(p)
      PROVE  holds'[q] = IF q = p THEN holds[q] \cup {F} ELSE holds[q]
  <2>1. holds' = [holds EXCEPT ![p] = holds[p] \cup {F}]
    BY <1>3 DEF Run, F
  <2> QED BY <1>2, <2>1
<1>4. CASE Plan /\ UNCHANGED memory
  <2>1. UNCHANGED holds
    BY <1>4 DEF Plan, Ask, Require, Add, Start
  <2> QED BY <1>4, <2>1 DEF memory
<1>5. CASE RunLoopInfo
  <2>1. /\ holds'["loops"] # {} /\ holds'["psg"] = holds["psg"]
        /\ holds'["decouple-loops"] = holds["decouple-loops"]
    BY <1>5, <1>1, <1>3 DEF RunLoopInfo
  <2> QED BY <1>5, <2>1 DEF RunLoopInfo
<1>6. CASE RunPSG
  <2>1. /\ holds'["psg"] # {} /\ holds'["loops"] = holds["loops"]
        /\ holds'["decouple-loops"] = holds["decouple-loops"]
    BY <1>6, <1>1, <1>3 DEF RunPSG
  <2> QED BY <1>6, <2>1 DEF RunPSG
<1>7. CASE RunDecoupleLoops
  <2>1. /\ holds'["decouple-loops"] # {} /\ holds'["loops"] = holds["loops"]
        /\ holds'["psg"] = holds["psg"]
    BY <1>7, <1>1, <1>3 DEF RunDecoupleLoops
  <2> QED BY <1>7, <2>1 DEF RunDecoupleLoops
<1>8. CASE RunReader \/ RunAsker
  <2>1. PICK p \in Passes : Run(p) /\ UNCHANGED memory
    BY <1>8 DEF RunReader, RunAsker, Readers, Askers
  <2>2. \A q \in Passes : holds'[q] = {} => holds[q] = {}
    BY <2>1, <1>3
  <2> QED BY <2>1, <2>2, <1>1 DEF memory
<1>9. CASE ReleaseMemory
  <2>1. \A q \in Passes : holds'[q] = IF q \in Dead THEN {} ELSE holds[q]
    BY <1>9 DEF ReleaseMemory, Release
  <2>2. holds'["psg"] = {} => sccAt' = [a \in SccAddrs |-> Null]
    BY <1>9, <1>1, <2>1 DEF ReleaseMemory, releasePSG
  <2>3. holds'["loops"] = {} => loopAt' = [a \in LoopAddrs |-> Null]
    BY <1>9, <1>1, <2>1 DEF ReleaseMemory, releaseLoopInfo
  <2>4. holds'["decouple-loops"] = {} => DOMAIN LoopToIterScc' = {} /\ DOMAIN LoopToWorkScc' = {}
    <3>1. CASE "decouple-loops" \in Dead
      BY <1>9, <3>1 DEF ReleaseMemory, releaseDecoupleLoops
    <3>2. CASE "decouple-loops" \notin Dead
      BY <1>9, <1>1, <2>1, <3>2 DEF ReleaseMemory, releaseDecoupleLoops
    <3> QED BY <3>1, <3>2
  <2> QED BY <2>2, <2>3, <2>4
<1>10. CASE UNCHANGED vars
  BY <1>10 DEF vars, pmvars, memory
<1> QED BY <1>4, <1>5, <1>6, <1>7, <1>8, <1>9, <1>10 DEF Next

\* Whatever the functions and the command line, a function leaves the next one
\* no set, no loop and no entry of a map that could be taken for its own.
THEOREM NothingIsLeft == Spec => []NothingOutlivesFunction
<1>1. Init => MemInv
  BY DEF Init, MemInv
<1>2. IInv /\ MemInv => NothingOutlivesFunction
  <2> SUFFICES ASSUME IInv, MemInv, ip = 1, ~ran
               PROVE  /\ CleanBetweenFunctions
                      /\ \A a \in SccAddrs : sccAt[a] = Null
                      /\ Live = {}
                      /\ DOMAIN LoopToIterScc = {} /\ DOMAIN LoopToWorkScc = {}
    BY DEF NothingOutlivesFunction
  <2>1. CleanBetweenFunctions
    BY IInvIsClean
  <2>2. holds["psg"] = {} /\ holds["loops"] = {} /\ holds["decouple-loops"] = {}
    BY <2>1, OwnersAssumption DEF CleanBetweenFunctions
  <2> QED BY <2>1, <2>2 DEF MemInv, Live
<1>3. Spec => []IInv
  BY RunsUnderThePassManager, Inductive, PTL
<1>4. Spec => []MemInv
  BY <1>1, <1>3, NextMemInv, PTL DEF Spec
<1> QED BY <1>2, <1>3, <1>4, PTL

-------------------------------------------------------------------------------
(* What an asker is told.                                                  *)

\* The last user of LoopInfo is DecoupleLoops only while nobody asks it, and then
\* comes no sooner than the first who does.
LoopsLast ==
    \A m \in DOMAIN schedule :
        "loops" \in Scheduled /\ schedule[m] = lastUser["loops"] =>
           \/ schedule[m] = "loops" /\ "decouple-loops" \notin Scheduled
           \/ schedule[m] = "decouple-loops" /\ Askers \cap Scheduled = {}
           \/ \E k \in DOMAIN schedule : k <= m /\ schedule[k] \in Askers

\* q has run on the function.
HasRun(q) == /\ fn \in DOMAIN Functions
             /\ \E j \in DOMAIN schedule : schedule[j] = q /\ (j < ip \/ (j = ip /\ ran))

\* LoopInfo has the loops of the function, while it holds any.
LoopsAreThere == /\ DOMAIN loopAt = LoopAddrs
                 /\ holds["loops"] # {} => {loopAt[a] : a \in Live} = Code[F].loops

\* Two instructions of the function have one address if they are of one
\* component, also after the sets at these addresses were released.
AddressesTell ==
    HasRun("psg") =>
        \A S, T \in Components(F) : \A i \in S : \A j \in T : InstToSCC[i] = InstToSCC[j] <=> S = T

\* The maps have the addresses of the components of each loop that is there.
MapsPoint ==
    holds["decouple-loops"] # {} =>
        /\ F \in LI
        /\ \A a \in Live : /\ Slot(LoopToWorkScc, a) = getSCCs(loopAt[a].work)
                           /\ Slot(LoopToIterScc, a) = getSCCs(loopAt[a].iter) \ getSCCs(loopAt[a].work)

AskInv == LoopsLast /\ LoopsAreThere /\ AddressesTell /\ MapsPoint

\* Whom DecoupleLoops requires runs before it, and who asks it is another.
LEMMA OwnersRunFirst ==
  ASSUME IInv, NEW k \in DOMAIN schedule
  PROVE  /\ schedule[k] \in {"loops", "psg"} => \A j \in DOMAIN schedule : schedule[j] = "decouple-loops" => k < j
         /\ schedule[k] \in Askers => /\ schedule[k] \notin {"loops", "psg", "decouple-loops"}
                                      /\ \E j \in DOMAIN schedule : j < k /\ schedule[j] = "decouple-loops"
<1>1. /\ \A i, j \in DOMAIN schedule : schedule[i] = schedule[j] => i = j
      /\ \A j \in DOMAIN schedule : \A q \in Requires[schedule[j]] :
           \E i \in DOMAIN schedule : i < j /\ schedule[i] = q
      /\ DOMAIN schedule \subseteq Nat
  BY DEF IInv, Ordered, PMTypeOK
<1>2. ASSUME NEW i \in DOMAIN schedule, schedule[i] \in {"loops", "psg"},
             NEW j \in DOMAIN schedule, schedule[j] = "decouple-loops"
      PROVE  i < j
  BY <1>1, <1>2, OwnersAssumption
<1>3. ASSUME schedule[k] \in Askers
      PROVE  \E j \in DOMAIN schedule : j < k /\ schedule[j] = "decouple-loops"
  BY <1>1, <1>3 DEF Askers
<1>4. ASSUME schedule[k] \in Askers PROVE schedule[k] \notin {"loops", "psg", "decouple-loops"}
  <2>1. PICK j \in DOMAIN schedule : j < k /\ schedule[j] = "decouple-loops"
    BY <1>3, <1>4
  <2>2. schedule[k] # "decouple-loops"
    BY <1>1, <2>1
  <2>3. schedule[k] \notin {"loops", "psg"}
    BY <1>1, <1>2, <2>1
  <2> QED
    BY <2>2, <2>3
<1> QED
  BY <1>2, <1>3, <1>4

\* Adding a pass keeps what is said of the last user of LoopInfo.
LEMMA AddLoopsLast == IInv /\ LoopsLast /\ Add => LoopsLast'
<1> SUFFICES ASSUME IInv, LoopsLast, Add, NEW m \in DOMAIN schedule',
                    "loops" \in Scheduled', schedule'[m] = lastUser'["loops"]
             PROVE  \/ schedule'[m] = "loops" /\ "decouple-loops" \notin Scheduled'
                    \/ schedule'[m] = "decouple-loops" /\ Askers \cap Scheduled' = {}
                    \/ \E k \in DOMAIN schedule' : k <= m /\ schedule'[k] \in Askers
  BY DEF LoopsLast
<1>1. PICK p \in Passes : p = Head(stack)
  BY DEF Add, IInv, PMTypeOK
<1>2. PICK n \in Nat : n = Len(schedule)
  BY DEF IInv, PMTypeOK
<1>3. /\ DOMAIN schedule = 1 .. n /\ DOMAIN schedule' = 1 .. (n + 1) /\ schedule'[n + 1] = p
      /\ \A k \in 1 .. n : schedule'[k] = schedule[k]
      /\ \A k \in 1 .. (n + 1) : k \in 1 .. n \/ k = n + 1
  <2>1. schedule \in Seq(Passes) /\ schedule' = Append(schedule, p)
    BY <1>1 DEF Add, IInv, PMTypeOK
  <2> QED
    BY <1>1, <1>2, <2>1, AppendPlaces
<1>4. Requires[p] \subseteq Scheduled /\ p \notin Scheduled
  <2>1. stack \in Seq(Passes) /\ stack # <<>> /\ p = stack[1] /\ Len(stack) \in Nat /\ Len(stack) > 0
    BY <1>1 DEF Add, IInv, PMTypeOK
  <2> QED
    BY <1>1, <2>1 DEF Add, Missing, ToSet, Scheduled, IInv, Waiting
<1>5. Scheduled' = Scheduled \cup {p}
  <2>1. Scheduled' = {schedule'[k] : k \in DOMAIN schedule'}
    BY DEF Scheduled
  <2> QED
    BY <2>1, <1>3 DEF Scheduled
<1>6. lastUser' = [q \in Scheduled' |-> IF q = p \/ q \in Requires[p] \/ lastUser[q] \in Requires[p]
                                          THEN p ELSE lastUser[q]]
  BY <1>1, <1>5 DEF Add, Users, ToSet, Scheduled
<1>7. ASSUME NEW q \in Scheduled, q \in {"decouple-loops"} \cup Askers
      PROVE  "loops" \in Scheduled /\ "decouple-loops" \in Scheduled
  <2>1. PICK k \in DOMAIN schedule : schedule[k] = q
    BY DEF Scheduled
  <2>2. PICK j \in DOMAIN schedule : schedule[j] = "decouple-loops"
    BY <1>7, <2>1, OwnersRunFirst
  <2>3. \A x \in Requires[schedule[j]] : \E i \in DOMAIN schedule : schedule[i] = x
    BY DEF IInv, Ordered
  <2> QED
    BY <2>2, <2>3, OwnersAssumption DEF Scheduled
<1>8. CASE p = "loops"
  <2>1. lastUser'["loops"] = "loops"
    BY <1>5, <1>6, <1>8
  <2>2. "decouple-loops" \notin Scheduled
    BY <1>4, <1>7, <1>8
  <2> QED
    BY <1>5, <1>8, <2>1, <2>2
<1>9. CASE p # "loops"
  <2>1. "loops" \in Scheduled
    BY <1>5, <1>9
  <2>2. lastUser["loops"] \in Scheduled
    BY <2>1 DEF IInv, PMTypeOK
  <2>3. PICK l \in DOMAIN schedule : schedule[l] = lastUser["loops"]
    BY <2>2 DEF Scheduled
  <2>4. \/ schedule[l] = "loops" /\ "decouple-loops" \notin Scheduled
        \/ schedule[l] = "decouple-loops" /\ Askers \cap Scheduled = {}
        \/ \E k \in DOMAIN schedule : k <= l /\ schedule[k] \in Askers
    BY <2>1, <2>3 DEF LoopsLast
  <2>5. lastUser'["loops"] = IF "loops" \in Requires[p] \/ schedule[l] \in Requires[p]
                               THEN p ELSE schedule[l]
    BY <1>5, <1>6, <1>9, <2>1, <2>3
  <2>6. \A i, j \in DOMAIN schedule : schedule[i] = schedule[j] => i = j
    BY DEF IInv, Ordered
  <2>7. p \in Askers => "decouple-loops" \in Scheduled
    BY <1>4 DEF Askers
  <2>8. "loops" \in Requires[p] => p = "decouple-loops"
    BY OwnersAssumption
  <2>9. "decouple-loops" \in Requires[p] <=> p \in Askers
    BY DEF Askers
  <2>10. lastUser'["loops"] = p => m = n + 1
    BY <1>3, <1>4 DEF Scheduled
  <2>11. lastUser'["loops"] = schedule[l] => m = l
    <3>1. schedule[l] # p
      BY <1>4 DEF Scheduled
    <3> QED
      BY <1>3, <2>6, <3>1
  <2>12. CASE schedule[l] = "loops" /\ "decouple-loops" \notin Scheduled
    <3>1. Askers \cap Scheduled' = {}
      BY <1>5, <1>7, <2>7, <2>12
    <3>2. CASE p = "decouple-loops"
      <4>1. lastUser'["loops"] = p
        BY <2>5, <2>12, <3>2, OwnersAssumption
      <4> QED
        BY <3>1, <3>2, <4>1
    <3>3. CASE p # "decouple-loops"
      <4>1. lastUser'["loops"] = "loops"
        BY <2>5, <2>8, <2>12, <3>3
      <4> QED
        BY <1>5, <2>12, <3>3, <4>1
    <3> QED
      BY <3>2, <3>3
  <2>13. CASE schedule[l] = "decouple-loops" /\ Askers \cap Scheduled = {}
    <3>1. p # "decouple-loops"
      BY <1>4, <2>13 DEF Scheduled
    <3>2. CASE p \in Askers
      <4>1. m = n + 1
        BY <2>5, <2>9, <2>10, <2>13, <3>2
      <4> QED
        BY <1>3, <3>2, <4>1
    <3>3. CASE p \notin Askers
      BY <1>5, <2>5, <2>8, <2>9, <2>13, <3>1, <3>3
    <3> QED
      BY <3>2, <3>3
  <2>14. CASE \E k \in DOMAIN schedule : k <= l /\ schedule[k] \in Askers
    <3>1. PICK k \in DOMAIN schedule : k <= l /\ schedule[k] \in Askers
      BY <2>14
    <3>2. m = n + 1 \/ m = l
      BY <2>5, <2>10, <2>11
    <3>3. k \in DOMAIN schedule' /\ schedule'[k] \in Askers /\ k <= m
      BY <1>3, <3>1, <3>2
    <3> QED
      BY <3>3
  <2> QED
    BY <2>4, <2>12, <2>13, <2>14
<1> QED
  BY <1>8, <1>9

\* Before a pass runs on the function it holds nothing; while LoopInfo or the PSG
\* is to run, DecoupleLoops holds nothing either.
LEMMA NotYet ==
  ASSUME IInv, Due, NEW p \in Passes, p = schedule[ip]
  PROVE  /\ holds[p] = {} /\ ~HasRun(p)
         /\ p \in {"loops", "psg"} => holds["decouple-loops"] = {}
         /\ fn \in DOMAIN Functions /\ fn # 0
<1>1. /\ \A i, j \in DOMAIN schedule : schedule[i] = schedule[j] => i = j
      /\ DOMAIN schedule \subseteq Nat /\ ip \in DOMAIN schedule /\ ~ran
      /\ fn \in DOMAIN Functions
  BY DEF IInv, Ordered, PMTypeOK, Due
<1>2. \A j \in DOMAIN schedule : schedule[j] = p => ~(j < ip)
  BY <1>1
<1>3. ~Needed(p) /\ ~HasRun(p)
  BY <1>1, <1>2 DEF Needed, HasRun
<1>4. ASSUME p \in {"loops", "psg"} PROVE ~Needed("decouple-loops")
  <2>1. \A j \in DOMAIN schedule : schedule[j] = "decouple-loops" => ip < j
    BY <1>1, <1>4, OwnersRunFirst
  <2> QED
    BY <1>1, <2>1 DEF Needed
<1>5. "decouple-loops" \in Passes
  BY OwnersAssumption
<1>6. fn # 0
  BY <1>1, Idle
<1> QED
  BY <1>1, <1>3, <1>4, <1>5, <1>6 DEF IInv, HoldsNeeded

\* What a pass holds afterwards, and which have run.
LEMMA RunMarks ==
  ASSUME IInv, NEW p \in Passes, Run(p)
  PROVE  /\ UNCHANGED <<fn, schedule, lastUser, Scheduled, F>>
         /\ \A q \in Passes : holds'[q] = IF q = p THEN {F} ELSE holds[q]
         /\ \A q \in Passes : HasRun(q)' <=> HasRun(q) \/ q = p
<1>1. /\ UNCHANGED <<fn, schedule, lastUser, ip>> /\ ran' = TRUE /\ Due /\ p = schedule[ip]
      /\ holds' = [holds EXCEPT ![p] = holds[p] \cup {F}]
  BY DEF Run, planVars, F
<1>2. holds[p] = {} /\ DOMAIN holds = Passes /\ fn \in DOMAIN Functions
  BY <1>1, NotYet DEF IInv, HoldsNeeded
<1>3. ip \in DOMAIN schedule /\ ~ran /\ DOMAIN schedule \subseteq Nat
  BY <1>1 DEF Due, IInv, PMTypeOK
<1>4. \A q \in Passes : HasRun(q)' <=> HasRun(q) \/ q = p
  <2>1. ASSUME NEW q \in Passes
        PROVE  HasRun(q)' <=> \E j \in DOMAIN schedule : schedule[j] = q /\ (j < ip \/ j = ip)
    BY <1>1, <1>2 DEF HasRun
  <2>2. ASSUME NEW q \in Passes
        PROVE  HasRun(q) <=> \E j \in DOMAIN schedule : schedule[j] = q /\ j < ip
    BY <1>1, <1>2, <1>3 DEF HasRun
  <2> QED
    BY <1>1, <1>3, <2>1, <2>2
<1> QED
  BY <1>1, <1>2, <1>4 DEF Scheduled, F

\* The loops LoopInfo finds are all there, each at an address of its own.
LEMMA LoopInfoStores == IInv /\ MemInv /\ AskInv /\ RunLoopInfo => AskInv'
<1> SUFFICES ASSUME IInv, MemInv, AskInv, RunLoopInfo PROVE AskInv'
  OBVIOUS
<1>1. "loops" \in Passes /\ "psg" \in Passes /\ "decouple-loops" \in Passes
  BY OwnersAssumption
<1>2. Run("loops") /\ Due /\ "loops" = schedule[ip]
  BY DEF RunLoopInfo, Run
<1>3. holds["loops"] = {} /\ holds["decouple-loops"] = {} /\ fn \in DOMAIN Functions
  BY <1>1, <1>2, NotYet
<1>4. /\ UNCHANGED <<fn, schedule, lastUser, Scheduled, F>>
      /\ holds'["decouple-loops"] = {}
      /\ HasRun("psg")' <=> HasRun("psg")
  BY <1>1, <1>2, <1>3, RunMarks
<1>5. loopAt = [a \in LoopAddrs |-> Null]
  BY <1>3 DEF MemInv
<1>6. PICK place \in Places(Code[F].loops, LoopAddrs) : loopAt' = Stored(loopAt, place)
  <2>1. {a \in LoopAddrs : loopAt[a] = Null} = LoopAddrs
    BY <1>5
  <2> QED
    BY <2>1 DEF RunLoopInfo
<1>7. /\ DOMAIN place = Code[F].loops
      /\ \A L \in Code[F].loops : place[L] \in LoopAddrs
      /\ \A L, M \in Code[F].loops : place[L] = place[M] => L = M
  BY DEF Places
<1>8. \A L \in Code[F].loops : L # Null
  BY <1>3, CodeAssumption DEF ToSet, F
<1>9. /\ DOMAIN loopAt' = LoopAddrs
      /\ \A L \in Code[F].loops : loopAt'[place[L]] = L
      /\ \A a \in LoopAddrs : loopAt'[a] # Null => loopAt'[a] \in Code[F].loops
  BY <1>5, <1>6, <1>7 DEF Stored
<1>10. {loopAt'[a] : a \in Live'} = Code[F].loops
  BY <1>7, <1>8, <1>9 DEF Live
<1>11. LoopsAreThere'
  BY <1>4, <1>9, <1>10 DEF LoopsAreThere
<1>12. AddressesTell'
  BY <1>4 DEF AskInv, AddressesTell, RunLoopInfo, Components
<1> QED
  BY <1>4, <1>11, <1>12 DEF AskInv, LoopsLast, MapsPoint

\* Each component gets an address of its own, which its instructions are given.
LEMMA PSGStores == IInv /\ MemInv /\ AskInv /\ RunPSG => AskInv'
<1> SUFFICES ASSUME IInv, MemInv, AskInv, RunPSG PROVE AskInv'
  OBVIOUS
<1>1. "loops" \in Passes /\ "psg" \in Passes /\ "decouple-loops" \in Passes
  BY OwnersAssumption
<1>2. Run("psg") /\ Due /\ "psg" = schedule[ip] /\ UNCHANGED loopAt
  BY DEF RunPSG, Run
<1>3. holds["decouple-loops"] = {} /\ fn \in DOMAIN Functions
  BY <1>1, <1>2, NotYet
<1>4. /\ UNCHANGED <<fn, schedule, lastUser, Scheduled, F>>
      /\ holds'["decouple-loops"] = {} /\ holds'["loops"] = holds["loops"]
  BY <1>1, <1>2, <1>3, RunMarks
<1>5. PICK place \in Places(Components(F), {a \in SccAddrs : sccAt[a] = Null}) :
        InstToSCC' = [i \in DOMAIN InstToSCC \cup Insts(Components(F)) |->
                        IF i \in Insts(Components(F))
                          THEN place[CHOOSE S \in Components(F) : i \in S]
                          ELSE InstToSCC[i]]
  BY DEF RunPSG
<1>6. \A S, T \in Components(F) : place[S] = place[T] => S = T
  BY DEF Places
<1>7. \A S, T \in Components(F) : S # T => S \cap T = {}
  BY <1>3, CodeAssumption DEF ToSet, F
<1>8. ASSUME NEW S \in Components(F), NEW i \in S PROVE InstToSCC'[i] = place[S]
  <2>1. i \in Insts(Components(F))
    BY DEF Insts
  <2>2. (CHOOSE T \in Components(F) : i \in T) = S
    BY <1>7
  <2> QED
    BY <1>5, <2>1, <2>2
<1>9. AddressesTell'
  <2>1. \A S, T \in Components(F) : \A i \in S : \A j \in T : InstToSCC'[i] = InstToSCC'[j] <=> S = T
    BY <1>6, <1>8
  <2> QED
    BY <1>4, <2>1 DEF AddressesTell, Components
<1>10. LoopsAreThere'
  BY <1>2, <1>4 DEF AskInv, LoopsAreThere, Live
<1> QED
  BY <1>4, <1>9, <1>10 DEF AskInv, LoopsLast, MapsPoint

\* The maps, empty before, get the components of the loops that are there.
LEMMA DecoupleLoopsFills == IInv /\ MemInv /\ AskInv /\ RunDecoupleLoops => AskInv'
<1> SUFFICES ASSUME IInv, MemInv, AskInv, RunDecoupleLoops PROVE AskInv'
  OBVIOUS
<1>1. "loops" \in Passes /\ "psg" \in Passes /\ "decouple-loops" \in Passes
  BY OwnersAssumption
<1>2. /\ Run("decouple-loops") /\ Due /\ "decouple-loops" = schedule[ip]
      /\ UNCHANGED <<sccAt, InstToSCC, loopAt>>
  BY DEF RunDecoupleLoops, Run
<1>3. holds["decouple-loops"] = {}
  BY <1>1, <1>2, NotYet
<1>4. /\ UNCHANGED <<fn, schedule, lastUser, Scheduled, F>>
      /\ holds'["loops"] = holds["loops"]
      /\ HasRun("psg")' <=> HasRun("psg")
  BY <1>1, <1>2, RunMarks
<1>5. DOMAIN LoopToIterScc = {} /\ DOMAIN LoopToWorkScc = {}
  BY <1>3 DEF MemInv
<1>6. F \in LI'
  BY DEF RunDecoupleLoops
<1>8. Live' = Live
  BY <1>2 DEF Live
<1>9. ASSUME NEW a \in Live PROVE Slot(LoopToWorkScc, a)' = getSCCs(loopAt[a].work)
  BY <1>5 DEF RunDecoupleLoops, Slot
<1>10. ASSUME NEW a \in Live
       PROVE  Slot(LoopToIterScc, a)' = getSCCs(loopAt[a].iter) \ getSCCs(loopAt[a].work)
  <2>1. LoopToWorkScc'[a] = getSCCs(loopAt[a].work)
    BY <1>5 DEF RunDecoupleLoops, Slot
  <2>2. Slot(LoopToIterScc, a)' = getSCCs(loopAt[a].iter) \ LoopToWorkScc'[a]
    BY <1>5 DEF RunDecoupleLoops, Slot
  <2> QED
    BY <2>1, <2>2
<1>11. MapsPoint'
  <2> SUFFICES ASSUME NEW a \in Live'
               PROVE  /\ (Slot(LoopToWorkScc, a) = getSCCs(loopAt[a].work))'
                      /\ (Slot(LoopToIterScc, a) = getSCCs(loopAt[a].iter) \ getSCCs(loopAt[a].work))'
    BY <1>4, <1>6 DEF MapsPoint
  <2>1. /\ getSCCs(loopAt[a].work)' = getSCCs(loopAt[a].work)
        /\ getSCCs(loopAt[a].iter)' = getSCCs(loopAt[a].iter)
    BY <1>2 DEF getSCCs
  <2> QED
    BY <1>8, <1>9, <1>10, <2>1
<1>12. LoopsAreThere' /\ AddressesTell'
  BY <1>2, <1>4 DEF AskInv, LoopsAreThere, AddressesTell, Live, Components
<1> QED
  BY <1>4, <1>11, <1>12 DEF AskInv, LoopsLast

\* What reads changes nothing that an asker is told.
LEMMA ReaderKeeps ==
  ASSUME IInv, AskInv, NEW p \in Passes \ {"loops", "psg", "decouple-loops"}, Run(p), UNCHANGED memory
  PROVE  AskInv'
<1>1. "loops" \in Passes /\ "psg" \in Passes /\ "decouple-loops" \in Passes
  BY OwnersAssumption
<1>2. /\ UNCHANGED <<fn, schedule, lastUser, Scheduled, F>>
      /\ holds'["decouple-loops"] = holds["decouple-loops"] /\ holds'["loops"] = holds["loops"]
      /\ HasRun("psg")' <=> HasRun("psg")
  BY <1>1, RunMarks
<1>3. LoopsLast'
  BY <1>2 DEF AskInv, LoopsLast
<1>4. LoopsAreThere'
  BY <1>2 DEF AskInv, LoopsAreThere, memory, Live
<1>5. AddressesTell'
  BY <1>2 DEF AskInv, AddressesTell, memory, Components
<1>6. MapsPoint'
  BY <1>2 DEF AskInv, MapsPoint, memory, Live, Slot, getSCCs
<1> QED
  BY <1>3, <1>4, <1>5, <1>6 DEF AskInv

\* Scheduling has nothing in memory to disturb.
LEMMA PlanKeeps == IInv /\ AskInv /\ Plan /\ UNCHANGED memory => AskInv'
<1> SUFFICES ASSUME IInv, AskInv, Plan, UNCHANGED memory PROVE AskInv'
  OBVIOUS
<1>1. "loops" \in Passes /\ "psg" \in Passes /\ "decouple-loops" \in Passes
  BY OwnersAssumption
<1>2. LoopsLast'
  <2>1. CASE Add
    BY <2>1, AddLoopsLast DEF AskInv
  <2>2. CASE Ask \/ Require \/ Start
    BY <2>2 DEF Ask, Require, Start, planVars, AskInv, LoopsLast, Scheduled
  <2> QED
    BY <2>1, <2>2 DEF Plan
<1>3. fn = 0
  BY DEF Plan, Ask, Require, Add, Start, IInv, PMTypeOK
<1>4. UNCHANGED <<holds, ip, ran>> /\ ip = 1 /\ ~ran
  BY <1>3 DEF Plan, Ask, Require, Add, Start, IInv, PMTypeOK
<1>5. \A q \in Passes : holds'[q] = {}
  BY <1>3, <1>4, Idle
<1>6. IInv'
  BY NextIInv DEF PMNext
<1>7. ~HasRun("psg")'
  BY <1>4, <1>6 DEF IInv, PMTypeOK, HasRun
<1>8. DOMAIN loopAt' = LoopAddrs
  BY DEF AskInv, LoopsAreThere, memory
<1> QED
  BY <1>1, <1>2, <1>5, <1>7, <1>8 DEF AskInv, LoopsAreThere, AddressesTell, MapsPoint

\* What is released is no longer told of.
LEMMA ReleaseKeeps == IInv /\ MemInv /\ AskInv /\ ReleaseMemory => AskInv'
<1> SUFFICES ASSUME IInv, MemInv, AskInv, ReleaseMemory PROVE AskInv'
  OBVIOUS
<1>1. "loops" \in Passes /\ "psg" \in Passes /\ "decouple-loops" \in Passes
  BY OwnersAssumption
<1>2. /\ Release /\ UNCHANGED <<schedule, lastUser, Scheduled, InstToSCC, LI>>
      /\ ran' = FALSE /\ holds' = [p \in Passes |-> IF p \in Dead THEN {} ELSE holds[p]]
  BY DEF ReleaseMemory, Release, planVars, releaseDecoupleLoops, releasePSG, Scheduled
<1>3. IInv' /\ MemInv'
  <2>1. IInv'
    BY <1>2, ReleaseStep
  <2>2. MemInv'
    BY NextMemInv DEF Next
  <2> QED
    BY <2>1, <2>2
<1>4. LoopsLast'
  BY <1>2 DEF AskInv, LoopsLast
<1>5. DOMAIN loopAt' = LoopAddrs
  BY DEF ReleaseMemory, releaseLoopInfo, AskInv, LoopsAreThere
<1>6. CASE ip = Len(schedule)
  <2>1. ip' = 1
    BY <1>2, <1>6 DEF Release
  <2>2. \A q \in Passes : holds'[q] = {}
    <3>1. \A q \in Passes : ~Needed(q)'
      BY <1>2, <1>3, <2>1 DEF IInv, PMTypeOK, Needed
    <3> QED
      BY <1>3, <3>1 DEF IInv, HoldsNeeded
  <2>3. ~HasRun("psg")'
    BY <1>2, <1>3, <2>1 DEF IInv, PMTypeOK, HasRun
  <2> QED
    BY <1>1, <1>4, <1>5, <2>2, <2>3 DEF AskInv, LoopsAreThere, AddressesTell, MapsPoint
<1>7. CASE ip # Len(schedule)
  <2>1. ip' = ip + 1 /\ fn' = fn /\ ran
    BY <1>2, <1>7 DEF Release
  <2>2. F' = F
    BY <2>1 DEF F
  <2>3. LoopsAreThere'
    <3>1. CASE "loops" \in Dead
      BY <1>1, <1>2, <1>5, <3>1 DEF LoopsAreThere
    <3>2. CASE "loops" \notin Dead
      <4>1. loopAt' = loopAt /\ holds'["loops"] = holds["loops"]
        BY <1>1, <1>2, <3>2 DEF ReleaseMemory, releaseLoopInfo
      <4> QED
        BY <2>2, <4>1 DEF AskInv, LoopsAreThere, Live
    <3> QED
      BY <3>1, <3>2
  <2>4. AddressesTell'
    <3>1. HasRun("psg")' <=> HasRun("psg")
      <4>1. ip \in Nat /\ DOMAIN schedule \subseteq Nat
        BY DEF IInv, PMTypeOK
      <4> QED
        BY <1>2, <2>1, <4>1 DEF HasRun
    <3> QED
      BY <1>2, <2>2, <3>1 DEF AskInv, AddressesTell, Components
  <2>5. MapsPoint'
    <3>1. CASE "decouple-loops" \in Dead
      BY <1>1, <1>2, <3>1 DEF MapsPoint
    <3>2. CASE "decouple-loops" \notin Dead
      <4>1. /\ UNCHANGED <<LoopToIterScc, LoopToWorkScc>>
            /\ holds'["decouple-loops"] = holds["decouple-loops"]
        BY <1>1, <1>2, <3>2 DEF ReleaseMemory, releaseDecoupleLoops
      <4>2. loopAt' = loopAt \/ loopAt' = [a \in LoopAddrs |-> Null]
        BY DEF ReleaseMemory, releaseLoopInfo
      <4>3. CASE loopAt' = loopAt
        BY <1>2, <2>2, <4>1, <4>3 DEF AskInv, MapsPoint, Live, Slot, getSCCs
      <4>4. CASE loopAt' = [a \in LoopAddrs |-> Null]
        <5>1. Live' = {}
          BY <4>4 DEF Live
        <5> QED
          BY <1>2, <2>2, <4>1, <5>1 DEF AskInv, MapsPoint
      <4> QED
        BY <4>2, <4>3, <4>4
    <3> QED
      BY <3>1, <3>2
  <2> QED
    BY <1>4, <2>3, <2>4, <2>5 DEF AskInv
<1> QED
  BY <1>6, <1>7

\* Every step keeps what is told right.
LEMMA NextAskInv == IInv /\ MemInv /\ AskInv /\ [Next]_vars => AskInv'
<1> SUFFICES ASSUME IInv, MemInv, AskInv, [Next]_vars PROVE AskInv'
  OBVIOUS
<1>1. CASE Plan /\ UNCHANGED memory
  BY <1>1, PlanKeeps
<1>2. CASE RunLoopInfo
  BY <1>2, LoopInfoStores
<1>3. CASE RunPSG
  BY <1>3, PSGStores
<1>4. CASE RunDecoupleLoops
  BY <1>4, DecoupleLoopsFills
<1>5. CASE RunReader
  <2>1. PICK p \in Readers : Run(p) /\ UNCHANGED memory
    BY <1>5 DEF RunReader
  <2> QED
    BY <2>1, ReaderKeeps DEF Readers
<1>6. CASE RunAsker
  <2>1. PICK p \in Askers : Run(p) /\ UNCHANGED memory
    BY <1>6 DEF RunAsker
  <2>2. p \in Passes /\ p = schedule[ip] /\ ip \in DOMAIN schedule
    BY <2>1 DEF Askers, Run, Due
  <2>3. p \notin {"loops", "psg", "decouple-loops"}
    BY <2>1, <2>2, OwnersRunFirst
  <2> QED
    BY <2>1, <2>2, <2>3, ReaderKeeps
<1>7. CASE ReleaseMemory
  BY <1>7, ReleaseKeeps
<1>8. CASE UNCHANGED vars
  <2>1. LoopsLast'
    BY <1>8 DEF AskInv, LoopsLast, vars, pmvars, Scheduled
  <2>2. LoopsAreThere'
    BY <1>8 DEF AskInv, LoopsAreThere, vars, pmvars, memory, Live, F
  <2>3. AddressesTell'
    BY <1>8 DEF AskInv, AddressesTell, vars, pmvars, memory, Components, HasRun, F
  <2>4. MapsPoint'
    <3>1. /\ UNCHANGED <<LI, loopAt, InstToSCC, LoopToIterScc, LoopToWorkScc, holds>>
          /\ UNCHANGED <<F, Live>>
      BY <1>8 DEF vars, pmvars, memory, F, Live
    <3> QED
      BY <3>1 DEF AskInv, MapsPoint, Slot, getSCCs
  <2> QED
    BY <2>1, <2>2, <2>3, <2>4 DEF AskInv
<1> QED
  BY <1>1, <1>2, <1>3, <1>4, <1>5, <1>6, <1>7, <1>8 DEF Next

\* Before the first function there is nothing to ask.
LEMMA InitAskInv == Init => AskInv
<1> SUFFICES ASSUME Init PROVE AskInv
  OBVIOUS
<1>1. /\ schedule = <<>> /\ fn = 0 /\ loopAt = [a \in LoopAddrs |-> Null]
      /\ holds = [p \in Passes |-> {}] /\ DOMAIN schedule = {}
  BY DEF Init, PMInit
<1>2. LoopsLast /\ AddressesTell
  BY <1>1 DEF LoopsLast, AddressesTell, HasRun
<1>3. LoopsAreThere /\ MapsPoint
  BY <1>1, OwnersAssumption DEF LoopsAreThere, MapsPoint
<1> QED
  BY <1>2, <1>3 DEF AskInv

\* The components of a loop that is there have addresses of their own, in the map
\* of iter or in that of work as the component is one or the other.
LEMMA ToldRight ==
  ASSUME IInv, AskInv, fn \in DOMAIN Functions, HasRun("psg"),
         holds["decouple-loops"] # {}, NEW a \in Live, loopAt[a] \in Code[F].loops
  PROVE  /\ hasWork(a) <=> loopAt[a].work # {}
         /\ \A i \in Insts(loopAt[a].iter \cup loopAt[a].work) :
              /\ isWork(i, a) <=> i \in Insts(loopAt[a].work)
              /\ isIter(i, a) <=> i \in Insts(loopAt[a].iter)
<1>1. PICK iter, work : iter = loopAt[a].iter /\ work = loopAt[a].work
  OBVIOUS
<1>2. /\ iter \subseteq Components(F) /\ work \subseteq Components(F)
      /\ \A S \in Components(F) : S # {}
      /\ \A S, T \in Components(F) : S # T => S \cap T = {}
      /\ iter \cap work = {}
  <2>1. iter \subseteq Components(F) /\ work \subseteq Components(F)
    BY <1>1 DEF Components
  <2>2. F \in ToSet(Functions)
    BY DEF ToSet, F
  <2>3. iter \cap work = {}
    BY <1>1, <2>2, CodeAssumption
  <2> QED
    BY <2>1, <2>2, <2>3, CodeAssumption
<1>3. \A S, T \in Components(F) : \A i \in S : \A j \in T : InstToSCC[i] = InstToSCC[j] <=> S = T
  BY DEF AskInv, AddressesTell
<1>4. /\ Slot(LoopToWorkScc, a) = getSCCs(work)
      /\ Slot(LoopToIterScc, a) = getSCCs(iter) \ getSCCs(work)
  BY <1>1 DEF AskInv, MapsPoint
<1>5. getSCCs(work) # {} <=> work # {}
  BY <1>2 DEF getSCCs, Insts
<1>6. ASSUME NEW S \in Components(F), NEW i \in S, NEW X \in SUBSET Components(F)
      PROVE  /\ InstToSCC[i] \in getSCCs(X) <=> S \in X
             /\ i \in Insts(X) <=> S \in X
  <2>1. InstToSCC[i] \in getSCCs(X) <=> \E T \in X : \E j \in T : InstToSCC[i] = InstToSCC[j]
    BY DEF getSCCs, Insts
  <2>2. i \in Insts(X) <=> \E T \in X : i \in T
    BY DEF Insts
  <2> QED
    BY <1>2, <1>3, <2>1, <2>2
<1>7. ASSUME NEW i \in Insts(iter \cup work)
      PROVE  /\ isWork(i, a) <=> i \in Insts(work)
             /\ isIter(i, a) <=> i \in Insts(iter)
  <2>1. PICK S \in iter \cup work : i \in S
    BY DEF Insts
  <2>2. S \in Components(F)
    BY <1>2, <2>1
  <2>3. /\ InstToSCC[i] \in getSCCs(work) <=> S \in work
        /\ InstToSCC[i] \in getSCCs(iter) <=> S \in iter
        /\ i \in Insts(work) <=> S \in work
        /\ i \in Insts(iter) <=> S \in iter
    BY <1>2, <1>6, <2>1, <2>2
  <2> QED
    BY <1>2, <1>4, <2>1, <2>3 DEF isWork, isIter
<1> QED
  BY <1>1, <1>4, <1>5, <1>7 DEF hasWork

\* Whatever the functions and the command line, whoever asks DecoupleLoops first
\* is told this function's loops and how each is split; a later one is told so, or
\* that there is no loop.
THEOREM AskersAreToldRight == Spec => []AskersAreAnswered
<1>1. IInv /\ MemInv /\ AskInv => AskersAreAnswered
  <2> SUFFICES ASSUME IInv, MemInv, AskInv, Due, schedule[ip] \in Askers
               PROVE  AnsweredRight \/ (AskersBefore # {} /\ getLI(F) = {})
    BY DEF AskersAreAnswered
  <2>1. "loops" \in Passes /\ "psg" \in Passes /\ "decouple-loops" \in Passes
    BY OwnersAssumption
  <2>2. fn \in DOMAIN Functions /\ ip \in DOMAIN schedule /\ ~ran /\ DOMAIN schedule = 1 .. Len(schedule)
        /\ Len(schedule) \in Nat
    BY DEF Due, IInv, PMTypeOK
  <2>3. holds["decouple-loops"] = {F}
    BY IInvIsCurrent DEF RequiredAreCurrent, Askers, F
  <2>4. getLI(F) = Live
    BY <2>3 DEF AskInv, MapsPoint, getLI
  <2>5. PICK d \in DOMAIN schedule : d < ip /\ schedule[d] = "decouple-loops"
    BY <2>2, OwnersRunFirst
  <2>6. /\ \E i \in DOMAIN schedule : i < d /\ schedule[i] = "psg"
        /\ \E i \in DOMAIN schedule : i < d /\ schedule[i] = "loops"
    BY <2>5, OwnersAssumption DEF IInv, Ordered
  <2>7. HasRun("psg")
    BY <2>2, <2>5, <2>6 DEF HasRun
  <2>8. CASE holds["loops"] # {}
    <3>1. {loopAt[a] : a \in Live} = Code[F].loops
      BY <2>8 DEF AskInv, LoopsAreThere
    <3>2. \A a \in Live : loopAt[a] \in Code[F].loops
      BY <3>1
    <3>3. AnsweredRight
      BY <2>2, <2>3, <2>4, <2>7, <3>1, <3>2, ToldRight DEF AnsweredRight
    <3> QED
      BY <3>3
  <2>9. CASE holds["loops"] = {}
    <3>1. Live = {}
      BY <2>9 DEF MemInv, Live
    <3>2. PICK i \in DOMAIN schedule : i < d /\ schedule[i] = "loops"
      BY <2>6
    <3>3. PICK m \in DOMAIN schedule : schedule[m] = lastUser["loops"]
      BY <3>2 DEF IInv, LastUsers, LastAt, Scheduled
    <3>4. m < ip
      BY <2>1, <2>2, <2>5, <2>9, <3>2, <3>3 DEF IInv, HoldsNeeded, Needed
    <3>5. "decouple-loops" \in Scheduled /\ "loops" \in Scheduled /\ Askers \cap Scheduled # {}
      BY <2>2, <2>5, <3>2 DEF Scheduled
    <3>6. PICK k \in DOMAIN schedule : k <= m /\ schedule[k] \in Askers
      BY <3>3, <3>5 DEF AskInv, LoopsLast
    <3>7. k \in AskersBefore
      BY <2>2, <3>4, <3>6 DEF AskersBefore
    <3> QED
      BY <2>4, <3>1, <3>7
  <2> QED
    BY <2>8, <2>9
<1>2. Init => MemInv
  BY DEF Init, MemInv
<1>3. Spec => []IInv
  BY RunsUnderThePassManager, Inductive, PTL
<1>4. Spec => []MemInv
  BY <1>2, <1>3, NextMemInv, PTL DEF Spec
<1>5. Spec => []AskInv
  BY <1>3, <1>4, InitAskInv, NextAskInv, PTL DEF Spec
<1> QED
  BY <1>1, <1>3, <1>4, <1>5, PTL

=============================================================================

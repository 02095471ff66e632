-------------------------- MODULE AutomationProofs --------------------------
(* Theorems about the automation engine, for any automations, files,       *)
(* actions and bounds; and about the state and numeric_state triggers, for *)
(* any states, thresholds, duration and bound on the clock.                *)
EXTENDS Automation, TriggerEvaluator, SequenceTheorems, FiniteSetTheorems, TLAPS

(* A call in progress, with n runtimes and m runs.                         *)
Frame(n, m) == [kind : {"emit"}, left : SUBSET (1 .. n)] \cup [kind : {"run"}, run : 1 .. m]

(* EngineTypeOK, where frames and runs refer to runtimes and runs that     *)
(* exist, and the map holds a runtime under its own id.                    *)
TypeInv ==
    /\ runtimes \in Seq(Runtime)
    /\ automations \in [Autos -> 0 .. Len(runtimes)]
    /\ attached \subseteq 1 .. Len(runtimes)
    /\ active \subseteq Autos
    /\ runs \in Seq(Run)
    /\ \A r \in 1 .. Len(runs) : runs[r].rt <= Len(runtimes)
    /\ stack \in Seq(Frame(Len(runtimes), Len(runs)))
    /\ entity \in [Autos -> {"none", "on", "off"}]
    /\ \A id \in Loaded : runtimes[automations[id]].config.id = id

(* No two runs of an automation are in progress, whatever its mode: the    *)
(* loop protection is wider than what the modes forbid.                    *)
OneRunEach == \A q, r \in DOMAIN runs :
    Pending(q) /\ Pending(r) /\ runs[q].id = runs[r].id => q = r

(* The steps, by what they do to the runs.                                 *)
StackOK == stack' \in Seq(Frame(Len(runtimes), Len(runs)))

SameRuns ==
    /\ runs' \in Seq(Run) /\ Len(runs') = Len(runs)
    /\ \A r \in 1 .. Len(runs) : /\ runs'[r].rt = runs[r].rt /\ runs'[r].id = runs[r].id
                                 /\ runs'[r].done <=> runs[r].done

Loads == /\ \E file \in Files : Load(file, attached \ TornDown)
         /\ UNCHANGED <<active, runs, stack>>
Starts == \E id \in Autos, base \in Seq(Frame(Len(runtimes), Len(runs))) : StartRun(id, base)
Goes == SameRuns /\ StackOK /\ UNCHANGED engine
Switches == /\ SameRuns /\ StackOK /\ UNCHANGED <<automations, attached, active>>
            /\ \E id \in Autos, on \in BOOLEAN : SetEnabled(id, on)
Ends == \E r \in 1 .. Len(runs) : Finish(r)

-----------------------------------------------------------------------------
(* Sequences and numbers.                                                  *)
LEMMA Domains ==
    ASSUME TypeInv
    PROVE  /\ Len(runtimes) \in Nat /\ DOMAIN runtimes = 1 .. Len(runtimes)
           /\ Len(runs) \in Nat /\ DOMAIN runs = 1 .. Len(runs)
           /\ Len(stack) \in Nat
           /\ \A k \in 1 .. Len(runtimes) : runtimes[k] \in Runtime
           /\ \A r \in 1 .. Len(runs) : runs[r] \in Run
BY LenProperties, ElementOfSeq DEF TypeInv

LEMMA Least ==
    ASSUME NEW S \in SUBSET Nat, S # {}
    PROVE  Min(S) \in S /\ \A k \in S : Min(S) <= k
<1> DEFINE Smaller == {ss \in Nat \X Nat : ss[1] < ss[2]}
<1>1. IsWellFoundedOn(Smaller, Nat)
  BY NatLessThanWellFounded DEF OpToRel
<1>2. PICK m \in S : \A k \in S : ~ (<<k, m>> \in Smaller)
  <2> HIDE DEF Smaller
  <2> QED BY <1>1, WFMin
<1>3. \A k \in S : k \in Nat /\ m \in Nat /\ ~ (k < m)
  BY <1>2
<1>4. \A k \in S : m <= k
  BY <1>3
<1> HIDE DEF Smaller
<1> QED BY <1>4, Zenon DEF Min

LEMMA Greatest ==
    ASSUME NEW n \in Nat, NEW S \in SUBSET (1 .. n), S # {}
    PROVE  Max(S) \in S
<1> DEFINE T == {n - k : k \in S}
<1>1. T \in SUBSET Nat /\ T # {}
  <2>1. \A k \in S : k \in 1 .. n
    OBVIOUS
  <2>2. \A k \in S : n - k \in Nat
    BY <2>1
  <2> QED BY <2>2
<1>2. Min(T) \in T /\ \A t \in T : Min(T) <= t
  <2> HIDE DEF T
  <2> QED BY <1>1, Least
<1>3. PICK k \in S : Min(T) = n - k
  BY <1>2
<1>4. \A j \in S : n - j \in T
  OBVIOUS
<1> HIDE DEF T
<1>5. \A j \in S : k >= j
  <2> SUFFICES ASSUME NEW j \in S PROVE k >= j
    OBVIOUS
  <2>1. n - k <= n - j
    BY <1>2, <1>3, <1>4
  <2>2. j \in Int /\ k \in Int
    OBVIOUS
  <2> QED BY <2>1, <2>2
<1> QED BY <1>5, Zenon DEF Max

(* The stack without its top, or with another one.                         *)
LEMMA StackParts ==
    ASSUME TypeInv, stack # << >>
    PROVE  /\ Top \in Frame(Len(runtimes), Len(runs))
           /\ Below \in Seq(Frame(Len(runtimes), Len(runs)))
           /\ \A f \in Frame(Len(runtimes), Len(runs)) :
                 Append(Below, f) \in Seq(Frame(Len(runtimes), Len(runs)))
<1> DEFINE F == Frame(Len(runtimes), Len(runs))
<1>1. stack \in Seq(F)
  BY DEF TypeInv
<1> HIDE DEF F
<1>2. Len(stack) \in Nat \ {0}
  BY <1>1, EmptySeq
<1>3. \A i \in 1 .. Len(stack) : stack[i] \in F
  BY <1>1, ElementOfSeq
<1>4. Below \in Seq(F)
  BY <1>2, <1>3, SubSeqProperties DEF Below
<1>5. Top \in F
  BY <1>2, <1>3 DEF Top
<1> QED BY <1>4, <1>5, AppendProperties DEF F

LEMMA FramesGrow ==
    ASSUME NEW n \in Nat, NEW m \in Nat, NEW n2 \in Nat, NEW m2 \in Nat, n <= n2, m <= m2,
           NEW s \in Seq(Frame(n, m))
    PROVE  s \in Seq(Frame(n2, m2))
<1>1. Frame(n, m) \subseteq Frame(n2, m2)
  <2>1. 1 .. n \subseteq 1 .. n2 /\ 1 .. m \subseteq 1 .. m2
    OBVIOUS
  <2> QED BY <2>1 DEF Frame
<1> QED BY <1>1, SeqMonotonic

-----------------------------------------------------------------------------
(* Every step is of one of the five kinds.                                 *)
LEMMA EmissionType ==
    ASSUME TypeInv, NEW ev
    PROVE  Emission(ev) \in Frame(Len(runtimes), Len(runs))
BY DEF TypeInv, Emission, Listening, Frame

LEMMA SameRunsQuiet ==
    ASSUME TypeInv, UNCHANGED runs
    PROVE  SameRuns
BY Domains DEF SameRuns, TypeInv

LEMMA Advances ==
    ASSUME TypeInv, NEW r \in 1 .. Len(runs), NEW todo \in Seq(Actions),
           runs' = [runs EXCEPT ![r].todo = todo]
    PROVE  SameRuns
<1> DEFINE run == [runs[r] EXCEPT !.todo = todo]
<1>1. runs[r] \in Run
  BY Domains
<1>2. run \in Run /\ run.rt = runs[r].rt /\ run.id = runs[r].id /\ (run.done <=> runs[r].done)
  BY <1>1 DEF Run
<1>3. runs' = [runs EXCEPT ![r] = run]
  BY Domains
<1> HIDE DEF run
<1>4. /\ runs' \in Seq(Run) /\ Len(runs') = Len(runs)
      /\ \A j \in 1 .. Len(runs) : runs'[j] = IF j = r THEN run ELSE runs[j]
  <2>1. runs \in Seq(Run)
    BY DEF TypeInv
  <2>2. run \in Run
    BY <1>2
  <2>3. /\ [runs EXCEPT ![r] = run] \in Seq(Run)
        /\ Len([runs EXCEPT ![r] = run]) = Len(runs)
        /\ \A j \in 1 .. Len(runs) : [runs EXCEPT ![r] = run][j] = IF j = r THEN run ELSE runs[j]
    BY <2>1, <2>2, ExceptSeq
  <2> QED BY <1>3, <2>3
<1> QED BY <1>2, <1>4 DEF SameRuns

(* The run that executes, and its next action.                             *)
LEMMA ExecutingRun ==
    ASSUME TypeInv, Executing
    PROVE  /\ R \in 1 .. Len(runs) /\ runs[R].todo \in Seq(Actions)
           /\ Below \in Seq(Frame(Len(runtimes), Len(runs)))
           /\ runs[R].todo # << >> => /\ Action \in Actions
                                      /\ Tail(runs[R].todo) \in Seq(Actions)
<1>1. stack # << >> /\ Top.kind = "run"
  BY DEF Executing
<1>2. R \in 1 .. Len(runs)
  BY <1>1, StackParts DEF Frame, R
<1>3. runs[R].todo \in Seq(Actions)
  BY <1>2, Domains DEF Run
<1> QED BY <1>1, <1>2, <1>3, StackParts, HeadTailProperties DEF Action

LEMMA SynchronousForms ==
    ASSUME TypeInv, Synchronous
    PROVE  Starts \/ Goes \/ Switches
<1> DEFINE F == Frame(Len(runtimes), Len(runs))
<1>1. ASSUME Delivering
      PROVE  Called \in Seq(F) /\ runtimes[NextTrigger].config.id \in Autos
  <2>1. Top \in F /\ Top.kind = "emit" /\ Top.left # {}
    BY <1>1, StackParts DEF Delivering
  <2>2. Top.left \in SUBSET (1 .. Len(runtimes)) /\ Top.left \in SUBSET Nat
    BY <2>1 DEF Frame
  <2>3. [Top EXCEPT !.left = @ \ {NextTrigger}] \in F
    BY <2>1, <2>2 DEF Frame
  <2>4. NextTrigger \in 1 .. Len(runtimes)
    BY <2>1, <2>2, Least DEF NextTrigger
  <2>5. Called \in Seq(F)
    BY <1>1, <2>3, StackParts DEF Called, Delivering
  <2> QED BY <2>4, <2>5, Domains DEF Runtime, Config
<1>2. CASE DeliverStart
  BY <1>1, <1>2 DEF DeliverStart, Starts
<1>3. CASE DeliverRefused
  BY <1>1, <1>3, SameRunsQuiet DEF DeliverRefused, Goes, StackOK
<1>4. CASE EmitReturns
  BY <1>4, StackParts, SameRunsQuiet DEF EmitReturns, Goes, StackOK
<1>5. CASE Executed
  BY <1>5, ExecutingRun, SameRunsQuiet DEF Executed, Goes, StackOK
<1>6. ASSUME Doing("call") \/ Doing("delay") \/ Doing("turn_off") \/ Doing("turn_on"), Advance
      PROVE  SameRuns
  <2>1. Executing /\ runs[R].todo # << >>
    BY <1>6 DEF Doing
  <2> QED BY <1>6, <2>1, ExecutingRun, Advances DEF Advance
<1>7. CASE CallFails \/ Delay
  BY <1>6, <1>7, ExecutingRun DEF CallFails, Delay, Doing, Goes, StackOK
<1>8. CASE Call
  <2>1. Append(Below, Emission(Action.ev)) \in Seq(F)
    BY <1>8, ExecutingRun, EmissionType, AppendProperties DEF Call, Doing
  <2> QED BY <1>6, <1>8, <2>1 DEF Call, Goes, StackOK
<1>9. CASE Condition
  <2>1. Executing /\ runs[R].todo # << >> /\ Action.kind = "condition"
    BY <1>9 DEF Condition, Doing
  <2>2. Action.then \in Seq(Actions) /\ Action.else \in Seq(Actions)
    BY <2>1, ExecutingRun, AutomationAssumption DEF ActionsOK
  <2>3. PICK branch \in {Action.then, Action.else} :
            runs' = [runs EXCEPT ![R].todo = branch \o Tail(@)]
    BY <1>9 DEF Condition
  <2>4. branch \o Tail(runs[R].todo) \in Seq(Actions)
    BY <2>1, <2>2, <2>3, ExecutingRun, ConcatProperties
  <2>5. runs' = [runs EXCEPT ![R].todo = branch \o Tail(runs[R].todo)]
    BY <2>3
  <2>6. SameRuns
    BY <2>1, <2>4, <2>5, ExecutingRun, Advances
  <2> QED BY <1>9, <2>6 DEF Condition, Goes, StackOK, TypeInv
<1>10. CASE Switch
  <2>1. Executing /\ runs[R].todo # << >> /\ Action.kind \in {"turn_off", "turn_on"}
    BY <1>10 DEF Switch, Doing
  <2>2. Action.id \in Autos
    BY <2>1, ExecutingRun, AutomationAssumption DEF ActionsOK
  <2>3. SameRuns /\ StackOK
    BY <1>6, <1>10, <2>1, ExecutingRun DEF Switch, StackOK
  <2> QED BY <1>10, <2>2, <2>3 DEF Switch, Switches
<1> QED BY <1>2, <1>3, <1>4, <1>5, <1>7, <1>8, <1>9, <1>10 DEF Synchronous

LEMMA StepForms ==
    ASSUME TypeInv, [Next]_vars
    PROVE  Loads \/ Starts \/ Goes \/ Switches \/ Ends
<1>1. CASE Reload
  BY <1>1 DEF Reload, Loads
<1>2. ASSUME NEW ev \in Events, Happen(ev) PROVE Goes
  <2>1. <<Emission(ev)>> \in Seq(Frame(Len(runtimes), Len(runs)))
    BY EmissionType
  <2> QED BY <1>2, <2>1, SameRunsQuiet DEF Happen, Goes, StackOK, engine
<1>3. ASSUME NEW id \in Autos, Trigger(id) PROVE Starts
  BY <1>3 DEF Trigger, Starts, TypeInv
<1>4. ASSUME NEW id \in Autos, NEW on \in BOOLEAN, ClientSwitch(id, on) PROVE Switches
  BY <1>4, SameRunsQuiet DEF ClientSwitch, Switches, StackOK, TypeInv
<1>5. ASSUME NEW r \in DOMAIN runs, Resume(r) PROVE Goes
  <2>1. [kind |-> "run", run |-> r] \in Frame(Len(runtimes), Len(runs))
    BY Domains DEF Frame
  <2>2. <<[kind |-> "run", run |-> r]>> \in Seq(Frame(Len(runtimes), Len(runs)))
    BY <2>1
  <2> QED BY <1>5, <2>2, SameRunsQuiet DEF Resume, Goes, StackOK
<1>6. ASSUME NEW r \in DOMAIN runs, Finish(r) PROVE Ends
  BY <1>6, Domains DEF Ends
<1>7. CASE UNCHANGED vars
  BY <1>7, SameRunsQuiet DEF vars, engine, Goes, StackOK, TypeInv
<1> QED BY <1>1, <1>2, <1>3, <1>4, <1>5, <1>6, <1>7, SynchronousForms DEF Next

-----------------------------------------------------------------------------
(* The runs in progress.                                                   *)
Busy(k) == {r \in DOMAIN runs : Pending(r) /\ runs[r].rt = k}
Holding == {runs[r].id : r \in {q \in DOMAIN runs : Pending(q)}}

Counted == \A k \in 1 .. Len(runtimes) : runtimes[k].activeRuns = Cardinality(Busy(k))

LEMMA ProtectionIs ==
    ASSUME TypeInv
    PROVE  ProtectionMatchesRuns <=> active = Holding /\ Counted
BY Domains DEF ProtectionMatchesRuns, Holding, Counted, Busy

LEMMA BusyFinite ==
    ASSUME TypeInv, NEW k
    PROVE  IsFiniteSet(Busy(k)) /\ Cardinality(Busy(k)) \in Nat
<1>1. Busy(k) \in SUBSET (1 .. Len(runs)) /\ Len(runs) \in Nat
  BY Domains DEF Busy
<1>2. IsFiniteSet(1 .. Len(runs))
  BY <1>1, FS_Interval
<1>3. IsFiniteSet(Busy(k))
  BY <1>1, <1>2, FS_Subset
<1> QED BY <1>3, FS_CardinalityType

LEMMA SameRunsSame ==
    ASSUME TypeInv, SameRuns
    PROVE  /\ \A k : Busy(k)' = Busy(k)
           /\ Holding' = Holding
           /\ OneRunEach => OneRunEach'
<1>1. DOMAIN runs' = DOMAIN runs /\ DOMAIN runs = 1 .. Len(runs)
  BY Domains, LenProperties DEF SameRuns
<1>2. \A r \in DOMAIN runs : /\ runs'[r].rt = runs[r].rt /\ runs'[r].id = runs[r].id
                             /\ Pending(r)' <=> Pending(r)
  BY <1>1 DEF SameRuns, Pending
<1>3. \A k : Busy(k)' = Busy(k)
  BY <1>1, <1>2 DEF Busy
<1>4. Holding' = Holding
  BY <1>1, <1>2 DEF Holding
<1>5. OneRunEach => OneRunEach'
  BY <1>1, <1>2 DEF OneRunEach
<1> QED BY <1>3, <1>4, <1>5

(* Another state of one runtime.                                           *)
LEMMA OneRuntime ==
    ASSUME TypeInv, NEW k \in 1 .. Len(runtimes), NEW rt \in Runtime,
           rt.config = runtimes[k].config, runtimes' = [runtimes EXCEPT ![k] = rt]
    PROVE  /\ runtimes' \in Seq(Runtime) /\ Len(runtimes') = Len(runtimes)
           /\ \A j \in 1 .. Len(runtimes) : /\ runtimes'[j] = IF j = k THEN rt ELSE runtimes[j]
                                            /\ runtimes'[j].config = runtimes[j].config
<1>1. runtimes \in Seq(Runtime)
  BY DEF TypeInv
<1>2. /\ [runtimes EXCEPT ![k] = rt] \in Seq(Runtime)
      /\ Len([runtimes EXCEPT ![k] = rt]) = Len(runtimes)
      /\ \A j \in 1 .. Len(runtimes) :
            [runtimes EXCEPT ![k] = rt][j] = IF j = k THEN rt ELSE runtimes[j]
  BY <1>1, ExceptSeq
<1> QED BY <1>2

Inv == TypeInv /\ OneRunEach /\ active = Holding /\ Counted /\ EntityShowsEnabled

LEMMA StepGoes ==
    ASSUME Inv, Goes
    PROVE  Inv'
<1>1. TypeInv'
  BY Domains DEF Goes, engine, TypeInv, SameRuns, StackOK, Inv, Loaded
<1>2. OneRunEach' /\ Holding' = Holding /\ Counted' = Counted
  BY SameRunsSame DEF Goes, engine, Inv, Counted
<1>3. active' = Holding' /\ Counted'
  BY <1>2 DEF Goes, engine, Inv
<1>4. EntityShowsEnabled'
  BY DEF Goes, engine, Inv, EntityShowsEnabled, Loaded
<1> QED BY <1>1, <1>2, <1>3, <1>4 DEF Inv

LEMMA StepSwitches ==
    ASSUME Inv, Switches
    PROVE  Inv'
<1>1. PICK id \in Autos, on \in BOOLEAN : SetEnabled(id, on)
  BY DEF Switches
<1>2. CASE automations[id] = 0
  <2>1. Goes
    BY <1>1, <1>2 DEF Switches, SetEnabled, Goes, engine
  <2> QED BY <2>1, StepGoes
<1>3. CASE automations[id] # 0
  <2> DEFINE k == automations[id]
             rt == [runtimes[k] EXCEPT !.enabled = on]
  <2>1. k \in 1 .. Len(runtimes) /\ id \in Loaded
    BY <1>3, Domains DEF Inv, TypeInv, Loaded
  <2>2. /\ rt \in Runtime /\ rt.config = runtimes[k].config /\ (rt.enabled <=> on)
        /\ rt.activeRuns = runtimes[k].activeRuns
    BY <2>1, Domains DEF Inv, Runtime
  <2>3. /\ runtimes' = [runtimes EXCEPT ![k] = rt]
        /\ entity' = [entity EXCEPT ![id] = IF on THEN "on" ELSE "off"]
        /\ UNCHANGED <<automations, attached, active>> /\ SameRuns /\ StackOK
    BY <1>1, <1>3 DEF SetEnabled, Switches
  <2> HIDE DEF rt
  <2>4. /\ runtimes' \in Seq(Runtime) /\ Len(runtimes') = Len(runtimes)
        /\ \A j \in 1 .. Len(runtimes) : /\ runtimes'[j] = IF j = k THEN rt ELSE runtimes[j]
                                         /\ runtimes'[j].config = runtimes[j].config
    <3>1. TypeInv /\ rt \in Runtime /\ rt.config = runtimes[k].config
      BY <2>2 DEF Inv
    <3>2. runtimes' = [runtimes EXCEPT ![k] = rt]
      BY <2>3
    <3> QED BY <2>1, <3>1, <3>2, OneRuntime
  <2>11. \A j \in 1 .. Len(runtimes) : runtimes'[j].activeRuns = runtimes[j].activeRuns
    BY <2>2, <2>4
  <2>5. Loaded' = Loaded /\ \A j \in Loaded : automations[j] \in 1 .. Len(runtimes)
    BY <2>3, Domains DEF Loaded, Inv, TypeInv
  <2>6. entity' \in [Autos -> {"none", "on", "off"}]
    BY <2>3 DEF Inv, TypeInv
  <2>7. TypeInv'
    <3>1. \A r \in 1 .. Len(runs') : runs'[r].rt <= Len(runtimes')
      BY <2>3, <2>4 DEF Inv, TypeInv, SameRuns
    <3>2. stack' \in Seq(Frame(Len(runtimes'), Len(runs')))
      BY <2>3, <2>4 DEF SameRuns, StackOK
    <3>3. \A j \in Loaded' : runtimes'[automations'[j]].config.id = j
      BY <2>3, <2>4, <2>5 DEF Inv, TypeInv
    <3>4. /\ automations' \in [Autos -> 0 .. Len(runtimes')]
          /\ attached' \subseteq 1 .. Len(runtimes') /\ active' \subseteq Autos
      BY <2>3, <2>4 DEF Inv, TypeInv
    <3> QED BY <2>3, <2>4, <2>6, <3>1, <3>2, <3>3, <3>4 DEF TypeInv, SameRuns
  <2>8. \A j \in Loaded : j # id => automations[j] # k
    BY <2>1 DEF Inv, TypeInv
  <2>9. EntityShowsEnabled'
    <3>1. entity'[id] = IF runtimes'[automations'[id]].enabled THEN "on" ELSE "off"
      BY <2>1, <2>2, <2>3, <2>4 DEF Inv, TypeInv
    <3>2. ASSUME NEW j \in Loaded, j # id
          PROVE  entity'[j] = IF runtimes'[automations'[j]].enabled THEN "on" ELSE "off"
      <4>1. runtimes'[automations'[j]] = runtimes[automations[j]]
        BY <2>3, <2>4, <2>5, <2>8, <3>2
      <4>2. entity'[j] = entity[j]
        BY <2>3, <3>2 DEF Inv, TypeInv, Loaded
      <4> QED BY <4>1, <4>2 DEF Inv, EntityShowsEnabled
    <3> QED BY <2>5, <3>1, <3>2 DEF EntityShowsEnabled
  <2>10. OneRunEach' /\ active' = Holding' /\ Counted'
    BY <2>3, <2>4, <2>11, SameRunsSame DEF Inv, Counted
  <2> QED BY <2>7, <2>9, <2>10 DEF Inv
<1> QED BY <1>2, <1>3

LEMMA StepEnds ==
    ASSUME Inv, Ends
    PROVE  Inv'
<1>1. PICK r \in 1 .. Len(runs) : Finish(r)
  BY DEF Ends
<1> DEFINE k == runs[r].rt
           run == [runs[r] EXCEPT !.done = TRUE]
           rt == [runtimes[k] EXCEPT !.activeRuns = @ - 1]
<1>2. runs[r] \in Run /\ k \in 1 .. Len(runtimes) /\ Pending(r)
  <2>1. runs[r] \in Run
    BY <1>1, Domains DEF Inv
  <2>2. k \in Nat \ {0} /\ k <= Len(runtimes) /\ Len(runtimes) \in Nat
    BY <1>1, <2>1, Domains DEF Inv, TypeInv, Run
  <2> QED BY <1>1, <2>1, <2>2 DEF Finish
<1>3. /\ run \in Run /\ run.rt = runs[r].rt /\ run.id = runs[r].id /\ run.done
      /\ rt \in Runtime /\ rt.config = runtimes[k].config
      /\ (rt.enabled <=> runtimes[k].enabled) /\ rt.activeRuns = runtimes[k].activeRuns - 1
  <2>1. runtimes[k] \in Runtime
    BY <1>2, Domains DEF Inv
  <2>2. run \in Run /\ run.rt = runs[r].rt /\ run.id = runs[r].id /\ run.done
    BY <1>2 DEF Run
  <2>3. /\ rt \in Runtime /\ rt.config = runtimes[k].config
        /\ (rt.enabled <=> runtimes[k].enabled) /\ rt.activeRuns = runtimes[k].activeRuns - 1
    BY <2>1 DEF Runtime
  <2> QED BY <2>2, <2>3
<1>4. /\ runs' = [runs EXCEPT ![r] = run] /\ runtimes' = [runtimes EXCEPT ![k] = rt]
      /\ active' = active \ {runs[r].id}
      /\ UNCHANGED <<automations, attached, stack, entity>>
  BY <1>1 DEF Finish, RuntimeOf, Release
<1> HIDE DEF run, rt
<1>5. /\ runs' \in Seq(Run) /\ Len(runs') = Len(runs)
      /\ \A j \in 1 .. Len(runs) : runs'[j] = IF j = r THEN run ELSE runs[j]
  <2>1. runs \in Seq(Run)
    BY DEF Inv, TypeInv
  <2>2. /\ [runs EXCEPT ![r] = run] \in Seq(Run)
        /\ Len([runs EXCEPT ![r] = run]) = Len(runs)
        /\ \A j \in 1 .. Len(runs) : [runs EXCEPT ![r] = run][j] = IF j = r THEN run ELSE runs[j]
    BY <1>3, <2>1, ExceptSeq
  <2> QED BY <1>4, <2>2
<1>6. /\ runtimes' \in Seq(Runtime) /\ Len(runtimes') = Len(runtimes)
      /\ \A j \in 1 .. Len(runtimes) : /\ runtimes'[j] = IF j = k THEN rt ELSE runtimes[j]
                                       /\ runtimes'[j].config = runtimes[j].config
  <2>1. TypeInv /\ rt \in Runtime /\ rt.config = runtimes[k].config
    BY <1>3 DEF Inv
  <2> QED BY <1>2, <1>4, <2>1, OneRuntime
<1>14. \A j \in 1 .. Len(runtimes) : runtimes'[j].enabled <=> runtimes[j].enabled
  BY <1>3, <1>6
<1>7. TypeInv'
  BY <1>3, <1>4, <1>5, <1>6, Domains DEF Inv, TypeInv, Loaded
<1>8. DOMAIN runs' = 1 .. Len(runs) /\ DOMAIN runs = 1 .. Len(runs)
  BY <1>5, Domains, LenProperties DEF Inv
<1>9. /\ \A j \in 1 .. Len(runs) : Pending(j)' <=> Pending(j) /\ j # r
      /\ \A j \in 1 .. Len(runs) : runs'[j].rt = runs[j].rt /\ runs'[j].id = runs[j].id
  BY <1>2, <1>3, <1>5 DEF Pending
<1>10. OneRunEach'
  BY <1>8, <1>9 DEF Inv, OneRunEach
<1>11. active' = Holding'
  <2>1. \A j \in 1 .. Len(runs) : Pending(j) /\ runs[j].id = runs[r].id => j = r
    BY <1>2, <1>8 DEF Inv, OneRunEach
  <2>2. Holding' = Holding \ {runs[r].id}
    BY <1>8, <1>9, <2>1 DEF Holding
  <2> QED BY <1>4, <2>2 DEF Inv
<1>12. Counted'
  <2>1. ASSUME NEW j \in 1 .. Len(runtimes)
        PROVE  runtimes'[j].activeRuns = Cardinality(Busy(j)')
    <3>1. runtimes[j].activeRuns = Cardinality(Busy(j))
      BY DEF Inv, Counted
    <3>2. CASE j = k
      <4>1. Busy(j)' = Busy(j) \ {r} /\ r \in Busy(j)
        BY <1>2, <1>8, <1>9, <3>2 DEF Busy
      <4>2. IsFiniteSet(Busy(j)) /\ Cardinality(Busy(j)) \in Nat
        BY BusyFinite DEF Inv
      <4>3. Cardinality(Busy(j)') = Cardinality(Busy(j)) - 1
        BY <4>1, <4>2, FS_RemoveElement
      <4>4. runtimes'[j].activeRuns = runtimes[j].activeRuns - 1
        BY <1>3, <1>6, <3>2
      <4> QED BY <3>1, <4>3, <4>4
    <3>3. CASE j # k
      <4>1. Busy(j)' = Busy(j)
        BY <1>2, <1>8, <1>9, <3>3 DEF Busy
      <4> QED BY <1>6, <3>1, <3>3, <4>1
    <3> QED BY <3>2, <3>3
  <2> QED BY <1>6, <2>1 DEF Counted
<1>13. EntityShowsEnabled'
  <2>1. \A j \in Loaded : automations[j] \in 1 .. Len(runtimes)
    BY Domains DEF Loaded, Inv, TypeInv
  <2>2. Loaded' = Loaded
    BY <1>4 DEF Loaded
  <2> QED BY <1>4, <1>14, <2>1, <2>2 DEF Inv, EntityShowsEnabled
<1> QED BY <1>7, <1>10, <1>11, <1>12, <1>13 DEF Inv

LEMMA StepStarts ==
    ASSUME Inv, Starts
    PROVE  Inv'
<1> DEFINE n == Len(runtimes)
           m == Len(runs)
<1>1. PICK id \in Autos, base \in Seq(Frame(n, m)) : StartRun(id, base)
  BY DEF Starts
<1> DEFINE k == automations[id]
           rt == [runtimes[k] EXCEPT !.activeRuns = @ + 1]
           run == [rt |-> k, id |-> id, done |-> FALSE, todo |-> runtimes[k].config.actions]
           frame == [kind |-> "run", run |-> m + 1]
<1>2. /\ n \in Nat /\ m \in Nat /\ DOMAIN runs = 1 .. m
      /\ \A j \in 1 .. n : runtimes[j] \in Runtime
      /\ \A r \in 1 .. m : runs[r] \in Run
  BY Domains DEF Inv
<1>3. k \in 1 .. n /\ runtimes[k].enabled /\ id \notin active /\ id \in Loaded
  BY <1>1, <1>2 DEF StartRun, Refused, Disabled, Protected, Inv, TypeInv, Loaded
<1>4. /\ runtimes' = [runtimes EXCEPT ![k] = rt] /\ active' = active \cup {id}
      /\ entity' = [entity EXCEPT ![id] = "on"] /\ runs' = Append(runs, run)
      /\ stack' = Append(base, frame) /\ UNCHANGED <<automations, attached>>
  BY <1>1 DEF StartRun
<1>5. /\ rt \in Runtime /\ rt.config = runtimes[k].config
      /\ (rt.enabled <=> runtimes[k].enabled) /\ rt.activeRuns = runtimes[k].activeRuns + 1
  BY <1>2, <1>3 DEF Runtime
<1>6. run \in Run /\ run.rt = k /\ run.id = id /\ run.done = FALSE
  BY <1>2, <1>3 DEF Run, Runtime, Config
<1>7. stack' \in Seq(Frame(n, m + 1))
  <2>1. frame \in Frame(n, m + 1)
    BY <1>2 DEF Frame
  <2>2. base \in Seq(Frame(n, m + 1))
    BY <1>2, FramesGrow
  <2> HIDE DEF frame
  <2> QED BY <1>4, <2>1, <2>2, AppendProperties
<1> HIDE DEF rt, run, frame
<1>8. /\ runs' \in Seq(Run) /\ Len(runs') = m + 1 /\ DOMAIN runs' = 1 .. m + 1
      /\ \A r \in 1 .. m : runs'[r] = runs[r]
      /\ runs'[m + 1] = run
  <2>1. runs \in Seq(Run)
    BY DEF Inv, TypeInv
  <2>2. /\ Append(runs, run) \in Seq(Run) /\ Len(Append(runs, run)) = m + 1
        /\ \A r \in 1 .. m : Append(runs, run)[r] = runs[r]
        /\ Append(runs, run)[m + 1] = run
    BY <1>6, <2>1, AppendProperties
  <2> QED BY <1>4, <2>2, LenProperties
<1>9. /\ runtimes' \in Seq(Runtime) /\ Len(runtimes') = n
      /\ \A j \in 1 .. n : /\ runtimes'[j] = IF j = k THEN rt ELSE runtimes[j]
                           /\ runtimes'[j].config = runtimes[j].config
  <2>1. TypeInv /\ rt \in Runtime /\ rt.config = runtimes[k].config
    BY <1>5 DEF Inv
  <2> QED BY <1>3, <1>4, <2>1, OneRuntime
<1>10. Loaded' = Loaded /\ \A j \in Loaded : automations[j] \in 1 .. n
  BY <1>2, <1>4 DEF Loaded, Inv, TypeInv
<1>11. TypeInv'
  <2>1. \A r \in 1 .. m + 1 : runs'[r].rt <= n
    BY <1>2, <1>3, <1>6, <1>8 DEF Inv, TypeInv
  <2>2. /\ automations' \in [Autos -> 0 .. n] /\ attached' \subseteq 1 .. n /\ active' \subseteq Autos
        /\ entity' \in [Autos -> {"none", "on", "off"}]
    BY <1>4 DEF Inv, TypeInv
  <2>3. \A j \in Loaded' : runtimes'[automations'[j]].config.id = j
    BY <1>4, <1>9, <1>10 DEF Inv, TypeInv
  <2> QED BY <1>7, <1>8, <1>9, <2>1, <2>2, <2>3 DEF TypeInv
<1>12. /\ \A r \in 1 .. m : /\ Pending(r)' <=> Pending(r)
                            /\ runs'[r].id = runs[r].id /\ runs'[r].rt = runs[r].rt
       /\ \A r : r = m + 1 => Pending(r)' /\ runs'[r].id = id /\ runs'[r].rt = k
  BY <1>2, <1>6, <1>8 DEF Pending
<1>13. \A r \in 1 .. m + 1 : r \in 1 .. m \/ r = m + 1
  BY <1>2
<1>14. \A r \in 1 .. m : Pending(r) => runs[r].id # id
  BY <1>2, <1>3 DEF Inv, Holding
<1>15. OneRunEach'
  BY <1>2, <1>8, <1>12, <1>13, <1>14 DEF Inv, OneRunEach
<1>16. active' = Holding'
  <2>1. Holding' = Holding \cup {id}
    BY <1>2, <1>8, <1>12, <1>13 DEF Holding
  <2> QED BY <1>4, <2>1 DEF Inv
<1>17. Counted'
  <2>1. ASSUME NEW j \in 1 .. n
        PROVE  runtimes'[j].activeRuns = Cardinality(Busy(j)')
    <3>1. runtimes[j].activeRuns = Cardinality(Busy(j))
      BY DEF Inv, Counted
    <3>2. CASE j = k
      <4>1. Busy(j)' = Busy(j) \cup {m + 1} /\ m + 1 \notin Busy(j)
        BY <1>2, <1>8, <1>12, <1>13, <3>2 DEF Busy
      <4>2. IsFiniteSet(Busy(j)) /\ Cardinality(Busy(j)) \in Nat
        BY BusyFinite DEF Inv
      <4>3. Cardinality(Busy(j)') = Cardinality(Busy(j)) + 1
        BY <4>1, <4>2, FS_AddElement
      <4>4. runtimes'[j].activeRuns = runtimes[j].activeRuns + 1
        BY <1>5, <1>9, <3>2
      <4> QED BY <3>1, <4>3, <4>4
    <3>3. CASE j # k
      <4>1. Busy(j)' = Busy(j)
        BY <1>2, <1>8, <1>12, <1>13, <3>3 DEF Busy
      <4> QED BY <1>9, <3>1, <3>3, <4>1
    <3> QED BY <3>2, <3>3
  <2> QED BY <1>9, <2>1 DEF Counted
<1>18. EntityShowsEnabled'
  <2>1. entity'[id] = "on" /\ runtimes'[automations'[id]].enabled
    BY <1>3, <1>4, <1>5, <1>9 DEF Inv, TypeInv
  <2>2. ASSUME NEW j \in Loaded, j # id
        PROVE  entity'[j] = IF runtimes'[automations'[j]].enabled THEN "on" ELSE "off"
    <3>1. automations[j] # k
      BY <1>3, <2>2 DEF Inv, TypeInv
    <3>2. runtimes'[automations'[j]] = runtimes[automations[j]] /\ entity'[j] = entity[j]
      BY <1>4, <1>9, <1>10, <2>2, <3>1 DEF Inv, TypeInv, Loaded
    <3> QED BY <3>2 DEF Inv, EntityShowsEnabled
  <2> QED BY <1>10, <2>1, <2>2 DEF EntityShowsEnabled
<1> QED BY <1>11, <1>15, <1>16, <1>17, <1>18 DEF Inv

(* A file is read: its entries follow the runtimes there are.              *)
LEMMA Read ==
    ASSUME TypeInv, NEW file \in Files, NEW before, Load(file, before)
    PROVE  /\ Len(file) \in Nat /\ DOMAIN file = 1 .. Len(file)
           /\ runtimes' \in Seq(Runtime) /\ Len(runtimes') = Len(runtimes) + Len(file)
           /\ \A j \in 1 .. Len(runtimes) : runtimes'[j] = runtimes[j]
           /\ \A j, i : i \in 1 .. Len(file) /\ j = Len(runtimes) + i =>
                 /\ runtimes'[j].config = file[i]
                 /\ runtimes'[j].activeRuns = 0 /\ runtimes'[j].enabled = TRUE
           /\ \A id \in Autos : automations'[id] # 0 =>
                 \E i \in 1 .. Len(file) : /\ automations'[id] = Len(runtimes) + i
                                          /\ file[i].id = id
<1> DEFINE n == Len(runtimes)
           g == [i \in DOMAIN file |-> Fresh(file[i])]
           At(id) == {i \in DOMAIN file : file[i].id = id}
<1>1. file \in Seq(Config) /\ n \in Nat
  BY AutomationAssumption, Domains
<1>2. /\ Len(file) \in Nat /\ DOMAIN file = 1 .. Len(file)
      /\ \A i \in 1 .. Len(file) : file[i] \in Config
  BY <1>1, LenProperties, ElementOfSeq
<1>3. g \in Seq(Runtime) /\ Len(g) = Len(file) /\ \A i \in 1 .. Len(file) : g[i] = Fresh(file[i])
  <2>1. \A i \in 1 .. Len(file) : Fresh(file[i]) \in Runtime
    BY <1>2 DEF Fresh, Runtime
  <2>2. g \in [1 .. Len(file) -> Runtime]
    BY <1>2, <2>1
  <2>3. g \in Seq(Runtime)
    BY <1>2, <2>2, SeqDef
  <2>4. DOMAIN g = 1 .. Len(g) /\ Len(g) \in Nat
    BY <2>3, LenProperties
  <2>5. Len(g) = Len(file)
    BY <1>2, <2>4
  <2> QED BY <1>2, <2>3, <2>5
<1>4. /\ runtimes' = runtimes \o g
      /\ automations' = [id \in Autos |-> IF At(id) = {} THEN 0 ELSE LastEntry(n, At(id))]
  BY DEF Load
<1> HIDE DEF g
<1>5. /\ runtimes' \in Seq(Runtime) /\ Len(runtimes') = n + Len(file)
      /\ \A j \in 1 .. n : runtimes'[j] = runtimes[j]
      /\ \A i \in 1 .. Len(file) : runtimes'[n + i] = g[i]
  <2>1. runtimes \in Seq(Runtime)
    BY DEF TypeInv
  <2>2. /\ runtimes \o g \in Seq(Runtime) /\ Len(runtimes \o g) = n + Len(file)
        /\ \A j \in 1 .. n + Len(file) :
              (runtimes \o g)[j] = IF j <= n THEN runtimes[j] ELSE g[j - n]
    <3>1. /\ runtimes \o g \in Seq(Runtime) /\ Len(runtimes \o g) = n + Len(g)
          /\ \A j \in 1 .. n + Len(g) :
                (runtimes \o g)[j] = IF j <= n THEN runtimes[j] ELSE g[j - n]
      BY <1>3, <2>1, ConcatProperties
    <3> QED BY <1>3, <3>1
  <2> QED BY <1>1, <1>2, <1>4, <2>2
<1>6. ASSUME NEW id \in Autos, automations'[id] # 0
      PROVE  \E i \in 1 .. Len(file) : automations'[id] = n + i /\ file[i].id = id
  <2>1. At(id) # {} /\ At(id) \in SUBSET (1 .. Len(file))
    BY <1>2, <1>4, <1>6
  <2> DEFINE S == At(id)
  <2>2. Max(S) \in S
    <3> HIDE DEF S
    <3> QED BY <1>2, <2>1, Greatest DEF S
  <2>3. automations'[id] = n + Max(S)
    BY <1>4, <2>1 DEF LastEntry
  <2> QED BY <1>2, <2>2, <2>3
<1>7. ASSUME NEW j, NEW i \in 1 .. Len(file), j = n + i
      PROVE  /\ runtimes'[j].config = file[i]
             /\ runtimes'[j].activeRuns = 0 /\ runtimes'[j].enabled = TRUE
  <2>1. runtimes'[j] = g[i]
    BY <1>5, <1>7
  <2>2. g[i] = [config |-> file[i], activeRuns |-> 0, enabled |-> TRUE]
    BY <1>3 DEF Fresh
  <2> QED BY <2>1, <2>2
<1> QED BY <1>2, <1>5, <1>6, <1>7

LEMMA StepLoads ==
    ASSUME Inv, Loads
    PROVE  Inv'
<1> DEFINE n == Len(runtimes)
<1>1. PICK file \in Files : Load(file, attached \ TornDown)
  BY DEF Loads
<1> DEFINE k == Len(file)
<1>2. /\ k \in Nat /\ DOMAIN file = 1 .. k
      /\ runtimes' \in Seq(Runtime) /\ Len(runtimes') = n + k
      /\ \A j \in 1 .. n : runtimes'[j] = runtimes[j]
      /\ \A j, i : i \in 1 .. k /\ j = n + i =>
            /\ runtimes'[j].config = file[i]
            /\ runtimes'[j].activeRuns = 0 /\ runtimes'[j].enabled = TRUE
      /\ \A id \in Autos : automations'[id] # 0 =>
            \E i \in 1 .. k : automations'[id] = n + i /\ file[i].id = id
  BY <1>1, Read DEF Inv
<1>3. /\ n \in Nat /\ DOMAIN runs = 1 .. Len(runs) /\ Len(runs) \in Nat
      /\ \A r \in 1 .. Len(runs) : runs[r] \in Run
  BY Domains DEF Inv
<1>4. UNCHANGED <<active, runs, stack>> /\ SameRuns
  BY SameRunsQuiet DEF Loads, Inv
<1>5. TypeInv'
  <2>1. automations' \in [Autos -> 0 .. n + k]
    <3>1. \A id \in Autos : automations'[id] \in 0 .. n + k
      BY <1>2, <1>3
    <3> QED BY <1>1, <3>1 DEF Load
  <2>2. attached' \subseteq 1 .. n + k
    <3>1. \A i \in DOMAIN file : n + i \in 1 .. n + k
      BY <1>2, <1>3
    <3>2. attached \subseteq 1 .. n + k
      BY <1>2, <1>3 DEF Inv, TypeInv
    <3> QED BY <1>1, <3>1, <3>2 DEF Load
  <2>3. \A r \in 1 .. Len(runs) : runs[r].rt <= n + k
    <3>1. \A r \in 1 .. Len(runs) : runs[r].rt \in Nat /\ runs[r].rt <= n
      BY <1>3 DEF Inv, TypeInv, Run
    <3> QED BY <1>2, <1>3, <3>1
  <2>4. stack \in Seq(Frame(n + k, Len(runs)))
    BY <1>2, <1>3, FramesGrow DEF Inv, TypeInv
  <2>5. entity' \in [Autos -> {"none", "on", "off"}]
    BY <1>1 DEF Load, Inv, TypeInv
  <2>6. \A id \in Loaded' : runtimes'[automations'[id]].config.id = id
    BY <1>2 DEF Loaded
  <2>7. active' \subseteq Autos /\ runs' \in Seq(Run)
    BY <1>4 DEF Inv, TypeInv
  <2> QED BY <1>2, <1>4, <2>1, <2>2, <2>3, <2>4, <2>5, <2>6, <2>7 DEF TypeInv
<1>6. OneRunEach' /\ active' = Holding'
  BY <1>4, SameRunsSame DEF Inv
<1>7. Counted'
  <2>1. ASSUME NEW j \in 1 .. n + k
        PROVE  runtimes'[j].activeRuns = Cardinality(Busy(j)')
    <3>1. Busy(j)' = Busy(j)
      BY <1>4, SameRunsSame DEF Inv
    <3>2. CASE j \in 1 .. n
      BY <1>2, <3>1, <3>2 DEF Inv, Counted
    <3>3. CASE j \notin 1 .. n
      <4>1. j - n \in 1 .. k /\ n + (j - n) = j
        BY <1>2, <1>3, <3>3
      <4>2. runtimes'[j].activeRuns = 0
        BY <1>2, <4>1
      <4>3. Busy(j) = {}
        BY <1>3, <3>3 DEF Busy, Inv, TypeInv, Run
      <4> QED BY <3>1, <4>2, <4>3, FS_EmptySet
    <3> QED BY <3>2, <3>3
  <2> QED BY <1>2, <2>1 DEF Counted
<1>8. EntityShowsEnabled'
  <2>1. ASSUME NEW id \in Loaded'
        PROVE  entity'[id] = "on" /\ runtimes'[automations'[id]].enabled
    <3>1. automations'[id] # 0 /\ id \in Autos
      BY DEF Loaded
    <3>2. entity'[id] = "on"
      BY <1>1, <3>1 DEF Load
    <3>3. runtimes'[automations'[id]].enabled
      BY <1>2, <3>1
    <3> QED BY <3>2, <3>3
  <2> QED BY <2>1 DEF EntityShowsEnabled
<1> QED BY <1>5, <1>6, <1>7, <1>8 DEF Inv

-----------------------------------------------------------------------------
LEMMA InvInit == Init => Inv
<1> SUFFICES ASSUME Init PROVE Inv
  OBVIOUS
<1>1. TypeInv
  BY DEF Init, TypeInv, Loaded, Runtime, Run, Frame
<1>2. OneRunEach /\ active = Holding /\ Counted /\ EntityShowsEnabled
  BY DEF Init, OneRunEach, Holding, Counted, EntityShowsEnabled, Loaded
<1> QED BY <1>1, <1>2 DEF Inv

LEMMA InvStep == Inv /\ [Next]_vars => Inv'
BY StepForms, StepLoads, StepStarts, StepGoes, StepSwitches, StepEnds DEF Inv

LEMMA InvHolds == EngineSpec => []Inv
BY InvInit, InvStep, PTL DEF EngineSpec

LEMMA TypeOfInv == TypeInv => EngineTypeOK
<1> SUFFICES ASSUME TypeInv PROVE EngineTypeOK
  OBVIOUS
<1>1. Frame(Len(runtimes), Len(runs)) \subseteq EmitFrame \cup RunFrame
  <2>1. 1 .. Len(runtimes) \subseteq Nat /\ 1 .. Len(runs) \subseteq Nat \ {0}
    BY Domains
  <2> QED BY <2>1 DEF Frame, EmitFrame, RunFrame
<1>2. stack \in Seq(EmitFrame \cup RunFrame)
  BY <1>1, SeqMonotonic DEF TypeInv
<1> QED BY <1>2, Domains DEF TypeInv, EngineTypeOK

(* Every variable keeps its type, whatever the file holds.                 *)
THEOREM TypeCorrect == EngineSpec => []EngineTypeOK
<1>1. Inv => EngineTypeOK
  BY TypeOfInv DEF Inv
<1> QED BY <1>1, InvHolds, PTL

(* A run of an automation in a mode that forbids overlapping never shares  *)
(* its time with another of the same automation, not even across a reload  *)
(* (onTriggered() refuses an automation whose id is in activeContextIds).  *)
THEOREM RunsNeverOverlap == EngineSpec => []NoOverlap
<1>1. Inv => NoOverlap
  BY DEF Inv, OneRunEach, NoOverlap
<1> QED BY <1>1, InvHolds, PTL

(* activeContextIds holds exactly the automations with a run in progress,  *)
(* and activeRuns counts the runs of its own runtime object: no path       *)
(* through the checks, an action that fails or a reload leaks either.      *)
THEOREM ProtectionIsExact == EngineSpec => []ProtectionMatchesRuns
<1>1. Inv => ProtectionMatchesRuns
  BY ProtectionIs DEF Inv
<1> QED BY <1>1, InvHolds, PTL

(* The entity of an automation shows whether it is enabled, however        *)
(* reloads, runs and switches follow one another.                          *)
THEOREM EntityIsTruthful == EngineSpec => []EntityShowsEnabled
<1>1. Inv => EntityShowsEnabled
  BY DEF Inv
<1> QED BY <1>1, InvHolds, PTL

-----------------------------------------------------------------------------
(* No two entries of a file have the same id.                              *)
DistinctIds(file) == \A i, j \in DOMAIN file : file[i].id = file[j].id => i = j

LEMMA TriggersStep ==
    ASSUME \A f \in Files : DistinctIds(f), Inv, TriggersAreCurrent, [Next]_vars
    PROVE  TriggersAreCurrent'
<1>1. CASE Goes \/ Starts \/ Switches \/ Ends
  <2>1. UNCHANGED <<automations, attached>>
    BY <1>1 DEF Goes, Starts, StartRun, Switches, Ends, Finish, engine
  <2> QED BY <2>1 DEF TriggersAreCurrent, Loaded
<1>2. CASE Loads
  <2>1. PICK file \in Files : Load(file, attached \ TornDown)
    BY <1>2 DEF Loads
  <2> DEFINE n == Len(runtimes)
  <2>2. attached' = {n + i : i \in DOMAIN file}
    <3>1. attached \ TornDown = {}
      BY DEF TriggersAreCurrent, TornDown
    <3> QED BY <2>1, <3>1 DEF Load
  <2>3. /\ n \in Nat /\ Len(file) \in Nat /\ DOMAIN file = 1 .. Len(file)
        /\ \A id \in Autos : automations'[id] # 0 =>
              \E i \in 1 .. Len(file) : automations'[id] = n + i /\ file[i].id = id
    BY <2>1, Read, Domains DEF Inv
  <2>4. \A i \in DOMAIN file : file[i].id \in Autos
    <3>1. file \in Seq(Config)
      BY AutomationAssumption
    <3>2. \A i \in 1 .. Len(file) : file[i] \in Config
      BY <3>1, ElementOfSeq
    <3> QED BY <2>3, <3>2 DEF Config
  <2>5. ASSUME NEW i \in DOMAIN file
        PROVE  file[i].id \in Loaded' /\ automations'[file[i].id] = n + i
    <3> DEFINE id == file[i].id
    <3>1. automations'[id] # 0
      <4> DEFINE S == {j \in DOMAIN file : file[j].id = id}
      <4>1. S # {} /\ S \in SUBSET (1 .. Len(file))
        BY <2>3
      <4>2. automations'[id] = n + Max(S)
        BY <2>1, <2>4, <4>1 DEF Load, LastEntry
      <4>3. Max(S) \in 1 .. Len(file)
        <5> HIDE DEF S
        <5> QED BY <2>3, <4>1, Greatest
      <4> QED BY <2>3, <4>2, <4>3
    <3>2. PICK j \in 1 .. Len(file) : automations'[id] = n + j /\ file[j].id = id
      BY <2>3, <2>4, <3>1
    <3>3. j = i
      BY <2>3, <3>2 DEF DistinctIds
    <3> QED BY <2>4, <3>1, <3>2, <3>3 DEF Loaded
  <2>6. ASSUME NEW id \in Loaded'
        PROVE  \E i \in DOMAIN file : automations'[id] = n + i
    BY <2>3 DEF Loaded
  <2> QED BY <2>2, <2>5, <2>6 DEF TriggersAreCurrent
<1> QED BY <1>1, <1>2, StepForms DEF Inv

(* As long as no two automations of a file share an id, the triggers on    *)
(* the bus are those of the automations in the map: a reload leaves none   *)
(* of the old ones behind (reloadAutomations(), registerAutomation()).     *)
THEOREM ReloadsLeaveNoTrigger ==
    ASSUME \A f \in Files : DistinctIds(f)
    PROVE  EngineSpec => []TriggersAreCurrent
<1>1. Init => TriggersAreCurrent
  BY DEF Init, TriggersAreCurrent, Loaded
<1>2. Inv /\ TriggersAreCurrent /\ [Next]_vars => TriggersAreCurrent'
  BY TriggersStep
<1> QED BY <1>1, <1>2, InvHolds, PTL DEF EngineSpec

-----------------------------------------------------------------------------
(* Arithmetic of times.                                                    *)
LEMMA Elapsed ==
    ASSUME NEW a \in Nat, NEW b \in Nat, a <= b, NEW d \in Nat
    PROVE  a # None /\ b - a >= 0 /\ b + d >= a + d
BY DEF None

(* Since when readings have been inside is a time, or None.                *)
LEMMA InsideSinceType ==
    ASSUME TriggersTypeOK, NEW v \in EntityStates
    PROVE  InsideSince(v) \in Time \cup {None}
BY DEF TriggersTypeOK, InsideSince

(* Whatever the event, the timers stay times.                              *)
LEMMA TimerTypes ==
    ASSUME TriggersTypeOK, NEW v \in EntityStates
    PROVE  /\ StateTimer(v) \in Nat \cup {None}
           /\ NumericTimer(v) \in Nat \cup {None}
<1> USE TriggerAssumption DEF TriggersTypeOK, Time, Triggers
<1>1. forTimers["state"] \in Nat \cup {None} /\ forTimers["numeric"] \in Nat \cup {None}
    OBVIOUS
<1>2. For > 0 => now + For \in Nat
    OBVIOUS
<1> QED BY <1>1, <1>2 DEF StateTimer, NumericTimer

LEMMA FiringTypes ==
    ASSUME TriggersTypeOK, NEW v \in EntityStates, NEW ts \in SUBSET Triggers
    PROVE  Firings(ts, v) \subseteq Firing
<1>1. FitsNow(v) \in BOOLEAN /\ InsideSince(v) \in Time \cup {None}
    BY InsideSinceType DEF TriggersTypeOK, FitsNow, Fits
<1> SUFFICES ASSUME NEW t \in ts
             PROVE  [trigger |-> t, at |-> now,
                     since |-> IF t = "state" THEN IF v = value THEN since ELSE now
                               ELSE InsideSince(v),
                     fitting |-> t = "state" /\ FitsNow(v)] \in Firing
    BY DEF Firings
<1>2. (IF t = "state" THEN IF v = value THEN since ELSE now ELSE InsideSince(v))
          \in Time \cup {None}
    BY <1>1 DEF TriggersTypeOK
<1>3. (t = "state" /\ FitsNow(v)) \in BOOLEAN
    OBVIOUS
<1>4. t \in Triggers /\ now \in Time
    BY DEF TriggersTypeOK
<1> QED BY <1>2, <1>3, <1>4 DEF Firing

LEMMA TypeStep == TriggersTypeOK /\ [TriggersNext]_triggerVars => TriggersTypeOK'
<1> SUFFICES ASSUME TriggersTypeOK, [TriggersNext]_triggerVars PROVE TriggersTypeOK'
    OBVIOUS
<1>1. ASSUME NEW v \in EntityStates, Changed(v) PROVE TriggersTypeOK'
  <2> DEFINE ts == {t \in Triggers : IF t = "state" THEN Matches(value, v) ELSE Crossing(v)}
  <2>1. value' \in EntityStates /\ fitting' \in BOOLEAN /\ since' \in Time /\ now' \in Time
    BY <1>1 DEF Changed, TriggersTypeOK, FitsNow, Fits
  <2>5. wasInside' \in BOOLEAN
    <3>1. CASE IsNumber(v)
      BY <1>1, <3>1 DEF Changed
    <3>2. CASE ~IsNumber(v)
      BY <1>1, <3>2 DEF Changed, TriggersTypeOK
    <3> QED BY <3>1, <3>2
  <2>2. forTimers' \in [Triggers -> Nat \cup {None}]
    BY <1>1, TimerTypes DEF Changed
  <2>3. inside' \in Time \cup {None} /\ watched' \subseteq Triggers
    BY <1>1, InsideSinceType DEF Changed, Saw
  <2>4. fires' \subseteq Firing
    <3>1. Firings(ts, v) \subseteq Firing
      BY FiringTypes
    <3> QED BY <1>1, <3>1 DEF Changed, TriggersTypeOK
  <2> QED BY <2>1, <2>2, <2>3, <2>4, <2>5 DEF TriggersTypeOK
<1>2. ASSUME NEW t \in Triggers, GoesOff(t) PROVE TriggersTypeOK'
  <2>1. Firings({t}, value) \subseteq Firing
    BY FiringTypes DEF TriggersTypeOK
  <2> QED BY <1>2, <2>1 DEF GoesOff, TriggersTypeOK
<1>3. CASE Reattach
    BY <1>3 DEF Reattach, TriggersTypeOK
<1>4. CASE Tick
    BY <1>4, TriggerAssumption DEF Tick, TriggersTypeOK, Time
<1>5. CASE UNCHANGED triggerVars
    BY <1>5 DEF triggerVars, TriggersTypeOK
<1> QED BY <1>1, <1>2, <1>3, <1>4, <1>5 DEF TriggersNext

(* Every variable keeps its type.                                          *)
THEOREM TriggersTypeCorrect == TriggersSpec => []TriggersTypeOK
<1>1. ASSUME TriggersInit PROVE TriggersTypeOK
  <2>1. 0 \in Time
    BY TriggerAssumption DEF Time
  <2>2. value \in EntityStates /\ fitting \in BOOLEAN
    BY <1>1 DEF TriggersInit, Fits
  <2>3. forTimers \in [Triggers -> Nat \cup {None}]
    BY <1>1 DEF TriggersInit
  <2>4. watched \subseteq Triggers /\ fires \subseteq Firing
    BY <1>1 DEF TriggersInit
  <2>5. now \in Time /\ since \in Time /\ inside \in Time \cup {None}
    BY <1>1, <2>1 DEF TriggersInit
  <2>6. wasInside \in BOOLEAN
    BY <1>1 DEF TriggersInit
  <2> QED BY <2>2, <2>3, <2>4, <2>5, <2>6 DEF TriggersTypeOK
<1> QED BY <1>1, TypeStep, PTL DEF TriggersSpec
-----------------------------------------------------------------------------
(* The state trigger. *)

LEMMA StateHoldStep == TriggersTypeOK /\ StateHoldInv /\ [TriggersNext]_triggerVars => StateHoldInv'
<1> SUFFICES ASSUME TriggersTypeOK, StateHoldInv, [TriggersNext]_triggerVars PROVE StateHoldInv'
    OBVIOUS
<1>0. since' \in Nat /\ inside' \in Nat \cup {None}
    BY TypeStep DEF TriggersTypeOK, Time
<1> USE TriggerAssumption DEF TriggersTypeOK, Time, None, Triggers
<1>1. ASSUME NEW v \in EntityStates, Changed(v) PROVE StateHoldInv'
  <2>1. since' <= now' /\ now' = now
    BY <1>1 DEF Changed, StateHoldInv
  <2>2. forTimers'["state"] = StateTimer(v) /\ value' = v
    BY <1>1 DEF Changed
  <2>3. For = 0 => forTimers'["state"] = None
    BY <2>2 DEF StateTimer, StateHoldInv
  <2>4. forTimers'["state"] # None /\ Fits(To, value') /\ fitting'
            => forTimers'["state"] >= since' + For
    <3>1. CASE Matches(value, v) /\ For > 0
      BY <2>1, <2>2, <3>1, <1>1 DEF StateTimer, Changed
    <3>2. CASE Matches(value, v) /\ For = 0
      BY <2>3, <3>2
    <3>3. CASE ~Matches(value, v)
      <4>1. forTimers'["state"] = forTimers["state"] /\ fitting' = FitsNow(v)
        BY <1>1, <2>2, <3>3 DEF StateTimer, Changed
      <4>2. CASE v = value
        BY <1>1, <2>2, <4>1, <4>2 DEF Changed, FitsNow, StateHoldInv
      <4>3. CASE v # value
        BY <2>2, <3>3, <4>1, <4>3 DEF FitsNow, Matches
      <4> QED BY <4>2, <4>3
    <3> QED BY <3>1, <3>2, <3>3
  <2>5. StateHeld'
    <3>1. CASE For > 0
      BY <1>1, <3>1 DEF Changed, StateHoldInv, StateHeld, Of
    <3>2. CASE For = 0
      <4> SUFFICES ASSUME NEW f \in fires', f.trigger = "state", f.fitting
                   PROVE  Held(f)
        BY DEF StateHeld, Of
      <4>1. CASE f \in fires
        BY <4>1 DEF StateHoldInv, StateHeld, Of
      <4>2. CASE f \notin fires
        <5>1. PICK t \in Triggers : f = [trigger |-> t, at |-> now,
                  since |-> IF t = "state" THEN IF v = value THEN since ELSE now
                            ELSE InsideSince(v),
                  fitting |-> t = "state" /\ FitsNow(v)]
          BY <1>1, <3>2, <4>2 DEF Changed, Firings
        <5>2. f.at = now /\ f.since = since'
          BY <1>1, <5>1 DEF Changed
        <5>3. since' \in Nat /\ now \in Nat /\ since' <= now
          BY <1>0, <2>1
        <5> QED BY <3>2, <5>2, <5>3, Elapsed DEF Held
      <4> QED BY <4>1, <4>2
    <3> QED BY <3>1, <3>2
  <2> QED BY <2>1, <2>3, <2>4, <2>5 DEF StateHoldInv
<1>2. ASSUME NEW t \in Triggers, GoesOff(t) PROVE StateHoldInv'
  <2>1. since' = since /\ now' = now /\ value' = value /\ fitting' = fitting
        /\ forTimers'["state"] \in {forTimers["state"], None}
    BY <1>2 DEF GoesOff
  <2>2. For = 0 => forTimers'["state"] = None
    BY <2>1 DEF StateHoldInv
  <2>3. StateHeld'
    <3> SUFFICES ASSUME NEW f \in fires', f.trigger = "state", f.fitting, f \notin fires
                 PROVE  Held(f)
      BY DEF StateHoldInv, StateHeld, Of
    <3>1. f = [trigger |-> t, at |-> now,
               since |-> IF t = "state" THEN since ELSE InsideSince(value),
               fitting |-> t = "state" /\ fitting]
          /\ StillHolds(t)
      BY <1>2 DEF GoesOff, Firings, FitsNow
    <3>2. t = "state" /\ f.at = now /\ f.since = since /\ fitting
      BY <3>1
    <3>3. forTimers["state"] >= since + For /\ forTimers["state"] <= now
      BY <1>2, <3>1, <3>2 DEF GoesOff, StillHolds, StateHoldInv
    <3> QED BY <3>2, <3>3 DEF Held
  <2> QED BY <2>1, <2>2, <2>3 DEF StateHoldInv
<1>3. CASE Reattach
    BY <1>3 DEF Reattach, StateHoldInv, StateHeld, Of
<1>4. CASE Tick
    BY <1>4 DEF Tick, StateHoldInv, StateHeld, Of
<1>5. CASE UNCHANGED triggerVars
    BY <1>5 DEF triggerVars, StateHoldInv, StateHeld, Of
<1> QED BY <1>1, <1>2, <1>3, <1>4, <1>5 DEF TriggersNext

(* attachStateTrigger calls the automation only when the entity has held  *)
(* the wanted state for the whole duration, attribute updates and reloads  *)
(* included - unless the entity came to it, while the timer of an earlier  *)
(* hold was running, from another state than `from': an event the filter   *)
(* rejects clears no timer.                                                *)
THEOREM StateHolds == TriggersSpec => []StateHeld
<1>1. TriggersInit => StateHoldInv
    BY DEF TriggersInit, StateHoldInv, StateHeld, Of, Triggers
<1>2. StateHoldInv => StateHeld
    BY DEF StateHoldInv
<1> QED BY <1>1, <1>2, TriggersTypeCorrect, StateHoldStep, PTL DEF TriggersSpec
-----------------------------------------------------------------------------
(* The numeric trigger. *)

LEMMA NumericHoldStep == TriggersTypeOK /\ NumericHoldInv /\ [TriggersNext]_triggerVars => NumericHoldInv'
<1> SUFFICES ASSUME TriggersTypeOK, NumericHoldInv, [TriggersNext]_triggerVars PROVE NumericHoldInv'
    OBVIOUS
<1>0. since' \in Nat /\ inside' \in Nat \cup {None}
    BY TypeStep DEF TriggersTypeOK, Time
<1> USE TriggerAssumption DEF TriggersTypeOK, Time, None, Triggers
<1>1. ASSUME NEW v \in EntityStates, Changed(v) PROVE NumericHoldInv'
  <2>1. inside' = InsideSince(v) /\ now' = now
        /\ wasInside' = (IF IsNumber(v) THEN v \in Inside ELSE wasInside)
        /\ forTimers'["numeric"] = NumericTimer(v)
    BY <1>1 DEF Changed
  <2>2. inside' # None => inside' <= now
    BY <2>1 DEF InsideSince, NumericHoldInv
  <2>3. TimerCoversHold'
    <3>1. CASE ~IsNumber(v)
      <4>1. NumericTimer(v) = forTimers["numeric"] /\ v \notin Inside
        BY <3>1 DEF NumericTimer, Crossing, IsNumber
      <4> QED BY <2>1, <3>1, <4>1 DEF InsideSince, NumericHoldInv, TimerCoversHold
    <3>2. CASE IsNumber(v) /\ v \notin Inside
      BY <2>1, <3>2 DEF NumericTimer, Crossing, TimerCoversHold
    <3>3. CASE IsNumber(v) /\ v \in Inside
      <4>0. inside' = (IF inside = None THEN now ELSE inside) /\ wasInside'
        BY <2>1, <3>3 DEF InsideSince
      <4>1. wasInside' /\ inside' # None /\ inside' <= now
            /\ (inside # None => inside' = inside)
        BY <2>2, <4>0
      <4>2. CASE Crossing(v) /\ For > 0
        <5>1. forTimers'["numeric"] = now + For
          BY <2>1, <4>2 DEF NumericTimer
        <5>2. inside' \in Nat /\ now \in Nat /\ inside' <= now
          BY <1>0, <4>1
        <5>3. now + For >= inside' + For
          BY <5>2, Elapsed
        <5> QED BY <4>1, <5>1, <5>3 DEF TimerCoversHold
      <4>3. CASE ~(Crossing(v) /\ For > 0)
        <5>1. forTimers'["numeric"] = forTimers["numeric"]
          BY <2>1, <3>3, <4>3 DEF NumericTimer
        <5> QED BY <4>1, <5>1 DEF TimerCoversHold, NumericHoldInv
      <4> QED BY <4>2, <4>3
    <3> QED BY <3>1, <3>2, <3>3
  <2>4. NumericHeld'
    <3> SUFFICES ASSUME NEW f \in fires', f.trigger = "numeric", f \notin fires
                 PROVE  Held(f)
      BY DEF NumericHoldInv, NumericHeld, Of
    <3>1. For = 0 /\ \E t \in Triggers :
              /\ IF t = "state" THEN Matches(value, v) ELSE Crossing(v)
              /\ f = [trigger |-> t, at |-> now,
                      since |-> IF t = "state" THEN IF v = value THEN since ELSE now
                                ELSE InsideSince(v),
                      fitting |-> t = "state" /\ FitsNow(v)]
      BY <1>1 DEF Changed, Firings
    <3>2. Crossing(v) /\ f.at = now /\ f.since = InsideSince(v)
      BY <3>1
    <3>3. InsideSince(v) # None
      BY <3>2 DEF Crossing, InsideSince, IsNumber
    <3> QED BY <1>0, <2>1, <2>2, <3>1, <3>2, <3>3 DEF Held
  <2> QED BY <2>1, <2>2, <2>3, <2>4 DEF NumericHoldInv
<1>2. ASSUME NEW t \in Triggers, GoesOff(t) PROVE NumericHoldInv'
  <2>1. inside' = inside /\ now' = now /\ wasInside' = wasInside
        /\ forTimers'["numeric"] \in {forTimers["numeric"], None}
    BY <1>2 DEF GoesOff
  <2>2. TimerCoversHold'
    BY <2>1 DEF TimerCoversHold, NumericHoldInv
  <2>3. NumericHeld'
    <3> SUFFICES ASSUME NEW f \in fires', f.trigger = "numeric", f \notin fires
                 PROVE  Held(f)
      BY DEF NumericHoldInv, NumericHeld, Of
    <3>1. f = [trigger |-> t, at |-> now,
               since |-> IF t = "state" THEN since ELSE InsideSince(value),
               fitting |-> t = "state" /\ fitting]
          /\ StillHolds(t)
      BY <1>2 DEF GoesOff, Firings, FitsNow
    <3>2. t = "numeric" /\ f.at = now /\ f.since = InsideSince(value) /\ value \in Inside
      BY <3>1 DEF StillHolds
    <3>3. inside # None /\ forTimers["numeric"] >= inside + For
          /\ forTimers["numeric"] <= now
      BY <1>2, <3>2 DEF GoesOff, TimerCoversHold, NumericHoldInv
    <3>4. f.since = inside
      BY <3>2, <3>3 DEF InsideSince, IsNumber
    <3> QED BY <3>2, <3>3, <3>4 DEF Held
  <2> QED BY <2>1, <2>2, <2>3 DEF NumericHoldInv
<1>3. CASE Reattach
    BY <1>3 DEF Reattach, NumericHoldInv, TimerCoversHold, NumericHeld, Of
<1>4. CASE Tick
    BY <1>4 DEF Tick, NumericHoldInv, TimerCoversHold, NumericHeld, Of
<1>5. CASE UNCHANGED triggerVars
    BY <1>5 DEF triggerVars, NumericHoldInv, TimerCoversHold, NumericHeld, Of
<1> QED BY <1>1, <1>2, <1>3, <1>4, <1>5 DEF TriggersNext

(* attachNumericStateTrigger calls the automation only when all readings   *)
(* of the last `for' seconds were inside the thresholds, whatever          *)
(* non-numeric states, removals and reloads there were.                    *)
THEOREM NumericHolds == TriggersSpec => []NumericHeld
<1>1. TriggersInit => NumericHoldInv
    BY DEF TriggersInit, NumericHoldInv, TimerCoversHold, NumericHeld, Of, Triggers
<1>2. NumericHoldInv => NumericHeld
    BY DEF NumericHoldInv
<1> QED BY <1>1, <1>2, TriggersTypeCorrect, NumericHoldStep, PTL DEF TriggersSpec
=============================================================================

-------------------------- MODULE BrokerRequests --------------------------
(***************************************************************************)
(* Requests of the broker that move credits or record what the chain did,  *)
(* and what they share: the status of a job, the table chain_syncs, and    *)
(* the event loop.  As in JobLifecycle a handler is a process whose steps  *)
(* are its awaited statements; a call refused by its first read is no      *)
(* step.  Any statement may fail (the database, the network) and the       *)
(* broker may restart: what was already written stays.                     *)
(***************************************************************************)
EXTENDS Integers, FiniteSets, Functions, TLC

CONSTANTS
    Jobs,             \* the jobs of one idea
    Txs,              \* transaction hashes a client may report
    Requests,         \* slots for requests being served
    Scenes,           \* Scenes[s]: the requests of scene s, with its bounds on
                      \* requests and submissions (starts), on requests served
                      \* at once (slots), and on failed statements and
                      \* restarts (faults)
    Calls             \* the kinds of requests

ASSUME ScenesAssumption ==
    \A s \in DOMAIN Scenes : /\ Scenes[s].calls \subseteq Calls
                             /\ Scenes[s].starts \in Nat /\ Scenes[s].slots \in Nat
                             /\ Scenes[s].faults \in Nat

ASSUME JobsAssumption == IsFiniteSet(Jobs)

VARIABLES
    scene,    \* fixed at the start: picks the requests that arrive
    job,      \* job[j]: status of the row of jobs
    syncs,    \* the rows of chain_syncs: transaction and event
    proc,     \* proc[p]: what request p has read and does next
    starts, faults,
    applied,  \* history: the recorded rows that took effect
    again,    \* history: has one of them taken effect twice?
    alone     \* history: so far no two requests were served at a time

requestVars == <<scene, job, syncs, proc, starts, faults, applied, again, alone>>

Idle == [op |-> "idle", step |-> "-", job |-> "-", tx |-> "-", event |-> "-",
         valid |-> TRUE, amount |-> 0, seen |-> 0, row |-> {}]

RequestsInit ==
    /\ scene \in DOMAIN Scenes
    /\ job = [j \in Jobs |-> "queued"]
    /\ syncs = {}
    /\ proc = [p \in Requests |-> Idle]
    /\ starts = 0 /\ faults = 0
    /\ applied = {} /\ again = FALSE
    /\ alone = TRUE

Serves(kind) == kind \in Scenes[scene].calls

MayStart(p) ==
    /\ proc[p] = Idle /\ starts < Scenes[scene].starts
    /\ Cardinality({q \in Requests : proc[q] # Idle}) < Scenes[scene].slots

Begin(p, r) ==
    /\ MayStart(p)
    /\ proc' = [proc EXCEPT ![p] = r]
    /\ starts' = starts + 1
    /\ alone' = (alone /\ \A q \in Requests : proc[q] = Idle)
    /\ UNCHANGED <<scene, job, syncs, faults, applied, again>>

\* A row with some fields changed or added
With(row, change) ==
    [f \in DOMAIN row \cup DOMAIN change |-> IF f \in DOMAIN change THEN change[f] ELSE row[f]]

Start(p, r) == Begin(p, With(Idle, r))

At(p, op, step) == proc[p].op = op /\ proc[p].step = step

Goto(p, step) == proc' = [proc EXCEPT ![p].step = step]
Finish(p) == proc' = [proc EXCEPT ![p] = Idle]

Row(p) == [tx |-> proc[p].tx, event |-> proc[p].event]

Calm == UNCHANGED <<scene, starts, faults, alone>>
Quiet == Calm /\ UNCHANGED <<applied, again>>

\* The row that p recorded takes effect.
Apply(p) ==
    /\ applied' = applied \cup {Row(p)}
    /\ again' = (again \/ Row(p) \in applied)
    /\ Calm

\* A slip: the unique index is forgotten.
RecordUnindexed(p) ==
    /\ proc[p].step = "record"
    /\ syncs' = syncs \cup {Row(p)} /\ Goto(p, "apply")
    /\ UNCHANGED job /\ Quiet

\* recordChainSync: the row is looked up by the first step, which answers a
\* repeated report from the table, and inserted later; the unique index on
\* transaction and event refuses the second of two reports that both found none.
RecordInsert(p) ==
    /\ proc[p].step = "record"
    /\ IF Row(p) \in syncs THEN Finish(p) /\ UNCHANGED syncs
       ELSE syncs' = syncs \cup {Row(p)} /\ Goto(p, "apply")
    /\ UNCHANGED job /\ Quiet

-----------------------------------------------------------------------------
(* A worker takes the job and submits work that passes: JobLifecycle *)

Submit(j) ==
    /\ job[j] \in {"queued", "rework"}
    /\ job' = [job EXCEPT ![j] = "submitted"]
    /\ starts < Scenes[scene].starts /\ starts' = starts + 1
    /\ UNCHANGED <<scene, syncs, proc, faults, applied, again, alone>>

\* A statement fails: its request ends with an error and undoes nothing.
Fail(p) ==
    /\ proc[p] # Idle /\ faults < Scenes[scene].faults
    /\ faults' = faults + 1
    /\ Finish(p)
    /\ UNCHANGED <<scene, job, syncs, starts, applied, again, alone>>

Restart ==
    /\ faults < Scenes[scene].faults /\ faults' = faults + 1
    /\ proc' = [p \in Requests |-> Idle]
    /\ UNCHANGED <<scene, job, syncs, starts, applied, again, alone>>

Total(f) == FoldFunction(+, 0, f)

-----------------------------------------------------------------------------
(* Properties *)

\* A reported transaction takes effect at most once, however its reports race,
\* are repeated or fail (recordChainSync); it may never take effect at all.
AppliedOnce == ~again /\ applied \subseteq syncs
=============================================================================

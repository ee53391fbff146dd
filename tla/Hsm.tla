-------------------------------- MODULE Hsm --------------------------------
(***************************************************************************)
(* The hierarchical state machine of jiutai/jf_hsm.c.  A transition table  *)
(* is a sequence of rows [from, event, guard, action, to]; the table of    *)
(* TopState is consulted first, then that of the current top-level state, *)
(* if there is one, and only if no row of the top table has the state and  *)
(* the event.  A guard or an action is a name, which the user interprets.  *)
(***************************************************************************)
EXTENDS Naturals, Sequences

CONSTANTS
    Tables,             \* the tables: of TopState and of some states
    InitialState,       \* the initial state of each table
    Callbacks,          \* the states with entry and exit callbacks
    TopState,           \* JF_HSM_LAST_STATE_ID, the state of the top table
    NoState,            \* JF_HSM_LAST_EVENT_ID in the next state of a row
    Events,
    MaxEvents           \* bound: the events of a behaviour

VARIABLES
    cur,                \* ihstt_jhsiCurrentStateId of every table
    log,                \* the callbacks made, oldest first
    seen                \* the number of events processed

vars == <<cur, log, seen>>

Matches(row, state, event) == row.from = state /\ row.event = event

\* *pbHit: some row has the state and the event, whatever its guard says.
Hit(table, state, event) ==
    \E i \in DOMAIN table : Matches(table[i], state, event)

\* The rows that _processHsmEvent executes: the first with a guard among those that
\* hold.
Chosen(table, state, event, holds) ==
    {i \in DOMAIN table :
        /\ Matches(table[i], state, event)
        /\ table[i].guard \in holds
        /\ \A j \in 1 .. i - 1 : ~(Matches(table[j], state, event) /\ table[j].guard \in holds)}

\* Whether executing the row leaves the state.
Leaves(row) == row.to # NoState /\ row.to # row.from

\* Mutant: the table of the new state goes on where it was left.
AfterRowKeepsSub(c, t, row) == [c EXCEPT ![t] = row.to]

\* The current states after _postHsmStateTransition: the table of the new state
\* starts again at its initial state.
AfterRow(c, t, row) ==
    [s \in DOMAIN c |->
        IF s = t THEN row.to ELSE IF s = row.to THEN InitialState[s] ELSE c[s]]

\* The table that processes an event: the top one if it has a row for it, else
\* the one of the current state.
TableFor(c, event) ==
    IF Hit(Tables[TopState], c[TopState], event) \/ c[TopState] \notin DOMAIN Tables
        THEN TopState ELSE c[TopState]

\* The callbacks of a transition, in the order they are made.
CallbacksOf(s, t) ==
    (IF s \in Callbacks THEN <<<<"exit", s>>>> ELSE <<>>)
        \o (IF t \in Callbacks THEN <<<<"entry", t>>>> ELSE <<>>)

\* jf_hsm_getCurrentStateId.
CurrentStateId(c) == IF c[TopState] \in DOMAIN Tables THEN c[c[TopState]] ELSE c[TopState]

Init == /\ cur = InitialState
        /\ log = <<>>
        /\ seen = 0

\* jf_hsm_processEvent; the guards may hold or not.
ProcessEvent(event, holds) ==
    /\ seen < MaxEvents
    /\ seen' = seen + 1
    /\ LET t == TableFor(cur, event)
           rows == Chosen(Tables[t], cur[t], event, holds)
       IN  IF \E i \in rows : Leaves(Tables[t][i])
           THEN \E i \in rows :
                  /\ cur' = AfterRow(cur, t, Tables[t][i])
                  /\ log' = log \o CallbacksOf(cur[t], Tables[t][i].to)
           ELSE UNCHANGED <<cur, log>>

Next == \E e \in Events, holds \in SUBSET {"g"} : ProcessEvent(e, holds \cup {"none"})

Spec == Init /\ [][Next]_vars

\* The states a callback log says the machine is in: the last one entered, or
\* left, of those with callbacks.
Inside(s) ==
    LET mine == SelectSeq(log, LAMBDA e : e[2] = s)
    IN  IF mine = <<>> THEN "unknown" ELSE mine[Len(mine)][1]

\* The entry and exit callbacks of jf_hsm_addStateCallback follow the current
\* state: a state with callbacks that the machine is in was entered last (or is
\* initial), one that it is not in was left last, and no state is entered or left
\* twice in a row.  A state of a lower table is left only by a row of that table,
\* so this is claimed of top-level states.
CallbacksFollowState ==
    /\ \A s \in Callbacks :
          IF cur[TopState] = s
          THEN Inside(s) = "entry" \/ (Inside(s) = "unknown" /\ s = InitialState[TopState])
          ELSE Inside(s) \in {"exit", "unknown"}
    /\ \A i \in DOMAIN log, j \in DOMAIN log :
          (i < j /\ log[i] = log[j]) => \E k \in i .. j : log[k][2] = log[i][2] /\ log[k] # log[i]

\* _postHsmStateTransition: a state that is entered starts its own table at the
\* initial state, whatever the table was doing when the state was last left.
EntersAtInitial ==
    \A s \in DOMAIN cur \ {TopState} :
        (cur[TopState] # s /\ cur'[TopState] = s) => cur'[s] = InitialState[s]

=============================================================================

----------------------------- MODULE MCRounds -----------------------------
(***************************************************************************)
(* Instances for TLC of the components that come back by themselves: the   *)
(* queue of the panel, the synchronisation of the maintenance, the pass    *)
(* over Open Food Facts, and the coordinator with its handlers.  They      *)
(* share no step: a behaviour belongs to one part, chosen at the start,    *)
(* with its fairness; the queue that is not used stays as it began, and    *)
(* x1, ..., x8 hold the state of the other three.                          *)
(***************************************************************************)
EXTENDS OfflineQueue

CONSTANTS
    Null,
    Unavailable, Unknown, NoEntity      \* what a sensor shows besides a level

VARIABLES part, x1, x2, x3, x4, x5, x6, x7, x8

others == <<x1, x2, x3, x4, x5, x6, x7, x8>>
roundVars == <<vars, part, others>>

M == INSTANCE Maintenance WITH
    place <- x1, state <- x2, spoke <- x3, refresh <- x4, sync <- x5, todo <- x6,
    hour <- x7, Batteries <- {"b1"}, Levels <- {22, 90}, Lows <- {25},
    Keeps <- {25}, MuteHours <- 1, MaxHour <- 1, MacroTasks <- {}

A == INSTANCE Articles WITH
    site <- x1, card <- x2, typed <- x3, resync <- x4, claimed <- x5,
    loadings <- x6, edits <- x7, hands <- x8,
    Barcodes <- {"c1", "c2"}, Columns <- {"kcal"}, Replies <- {"o1"},
    Words <- {"w1"}, Untouched <- "untouched", Callers <- {"k1", "k2"},
    MaxLoaded <- 2, MaxId <- 2, MaxEdits <- 1, MaxHands <- 1

D == INSTANCE Desk WITH
    entry <- x1, load <- x2, day <- x3, db <- x4, call <- x5, refreshes <- x6,
    desk <- x7, Calls <- {"c1"}, MaxPlaces <- 3, MaxLoads <- 2, MaxDay <- 1

ASSUME PartConstants ==
    M!MaintenanceConstants /\ A!ArticleConstants /\ D!DeskConstants

RoundsInit ==
    /\ Init
    /\ \/ part = "queue" /\ x1 = Null /\ x2 = Null /\ x3 = Null /\ x4 = Null
          /\ x5 = Null /\ x6 = Null /\ x7 = Null /\ x8 = Null
       \/ part = "maintenance" /\ M!MaintenanceInit /\ x8 = Null
       \/ part = "articles" /\ A!ArticleInit
       \/ part = "desk" /\ D!DeskInit /\ x8 = Null

\* The steps of a part leave the other parts alone.
Maintaining(step) == part = "maintenance" /\ UNCHANGED <<vars, part, x8>> /\ step
Asking(step)      == part = "articles" /\ UNCHANGED <<vars, part>> /\ step
Serving(step)     == part = "desk" /\ UNCHANGED <<vars, part, x8>> /\ step

RoundsNext ==
    \/ part = "queue" /\ UNCHANGED <<part, others>> /\ Next
    \/ Maintaining(M!MaintenanceNext)
    \/ Asking(A!ArticleNext)
    \/ Serving(D!DeskNext)

\* The fairness of each module, on the steps of its part.
QueueFairness ==
    \A p \in Pages :
        /\ WF_roundVars(part = "queue" /\ UNCHANGED <<part, others>> /\ Send(p))
        /\ SF_roundVars(part = "queue" /\ UNCHANGED <<part, others>> /\ Serve(p))
        /\ SF_roundVars(part = "queue" /\ UNCHANGED <<part, others>> /\ Receive(p))
MaintenanceFairness ==
    /\ WF_roundVars(Maintaining(M!ReadStates))
    /\ WF_roundVars(Maintaining(M!RecordReadings))
    /\ WF_roundVars(Maintaining(M!SyncReads({})))
    /\ SF_roundVars(Maintaining(M!SyncApplies))
ArticleFairness == \A k \in {"k1", "k2"} : WF_roundVars(Asking(A!Step(k)))
DeskFairness ==
    /\ \A s \in D!Starters : WF_roundVars(Serving(D!RefreshStep(s)))
    /\ WF_roundVars(Serving(D!CallStep("c1")))
    /\ WF_roundVars(Serving(D!Tick)) /\ WF_roundVars(Serving(D!Rollover))
    /\ WF_roundVars(Serving(D!CooldownEnds)) /\ WF_roundVars(Serving(D!EntryStep))

RoundsSpec == RoundsInit /\ [][RoundsNext]_roundVars /\ QueueFairness
              /\ MaintenanceFairness /\ ArticleFairness /\ DeskFairness

(***************************************************************************)
(* What must hold of each part; the modules say why.                       *)
(***************************************************************************)
(* A level that stays low has its task again and again, one that stays high
   ends without. *)
TasksFollowTheLevel ==
    /\ <>[](part = "maintenance" /\ M!IsLow("b1"))
           => []<>(part = "maintenance" /\ <<"level", "b1">> \in x6)
    /\ <>[](part = "maintenance" /\ M!IsFull("b1"))
           => <>[](part = "maintenance" /\ <<"level", "b1">> \notin x6)

(* The slot of resync_off comes back, whatever fails. *)
SlotComesBack ==
    \A l \in 1..2 : (part = "articles" /\ x5[l]) ~> (part = "articles" /\ ~x5[l])

(* What is committed reaches the entities, and so does the day that turns. *)
EveryWriteIsShown ==
    /\ (part = "desk" /\ "c1" \in x4) ~> (part = "desk" /\ "c1" \in x7.saw)
    /\ \A d \in 0..1 : (part = "desk" /\ x3 = d) ~> (part = "desk" /\ (x3 # d \/ x7.day = d))
=============================================================================

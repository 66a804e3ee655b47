------------------------------ MODULE Stadium ------------------------------
(***************************************************************************)
(* The stadium simulation (Assignment 5/Q2/main.c): spectators who wait    *)
(* for a seat as long as their patience lasts, watch the match until their *)
(* time is up or their team has scored too often, and give the seat back;  *)
(* one thread per zone that tells spectators about free seats; one thread  *)
(* per chance of a goal; and main(), which joins them all.                 *)
(*                                                                         *)
(* Time is left out: a deadline passes at any moment, and a timed wait     *)
(* whose deadline has passed returns ETIMEDOUT.  The first deadline's      *)
(* tv_nsec is not initialized (line 52); the waits of a spectator for whom *)
(* it holds no valid value return EINVAL at once.                          *)
(***************************************************************************)
EXTENDS Integers, Sequences, FiniteSets, SequencesExt

CONSTANTS Persons,           \* 1..n, in the order of the input
          TypeOf,            \* p->type of each: "H", "N" or "A"
          LimitOf,           \* p->goal_limit of each
          Chances,           \* the threads of the goals
          TeamOf,            \* the team of each
          seating_capacity,  \* seats in zones 0, 1 and 2
          Totals,            \* the values that total_people may have
          MaxInvalid         \* bound: spectators with an invalid tv_nsec

Zones == 0..2

ASSUME StadiumAssumption ==
  /\ IsFiniteSet(Persons) /\ Persons = 1..Cardinality(Persons)
  /\ TypeOf \in [Persons -> {"H", "N", "A"}] /\ LimitOf \in [Persons -> Nat]
  /\ TeamOf \in [Chances -> {"H", "A"}]
  /\ seating_capacity \in [Zones -> Nat] /\ MaxInvalid \in Nat
  /\ Totals \subseteq 0..Cardinality(Persons)

\* The zones that a fan of a team tries, in order, and the fans that the thread
\* of a zone signals.
ZonesOf == [H |-> <<0, 1>>, N |-> <<0, 1, 2>>, A |-> <<2>>]
FansOf == [z \in Zones |-> IF z = 2 THEN {"N", "A"} ELSE {"H", "N"}]

VARIABLES
  capacity,    \* the semaphores
  goals,       \* goals_count
  person,        \* where each person is
  try, zone_id,  \* per person: the next zone to try, its zone
  expired,     \* persons whose present deadline has passed
  invalid,     \* persons whose tv_nsec is no valid one
  zone,        \* where the thread of each zone is
  chance,      \* where the thread of each chance is
  total,       \* total_people
  joined,      \* how many spectators main() has joined
  ended,       \* chances that main() has joined
  done

personVars == <<person, try, zone_id, expired, invalid>>
mainVars == <<total, joined, ended, done>>
stadiumVars == <<capacity, goals, personVars, zone, chance, mainVars>>

NoZone == 3

StadiumTypeOK ==
  /\ capacity \in [Zones -> Nat]
  /\ goals \in [{"H", "N", "A"} -> Int]
  /\ person \in [Persons -> {"home", "reached", "waiting", "try", "seated",
                             "watching", "goal", "leave", "gone", "killed"}]
  /\ try \in [Persons -> 1..4]
  /\ zone_id \in [Persons -> Zones \cup {NoZone}]
  /\ expired \subseteq Persons /\ invalid \subseteq Persons
  /\ zone \in [Zones -> {"start", "wait", "held", "signal", "ended"}]
  /\ chance \in [Chances -> {"start", "scored", "ended"}]
  /\ total \in Totals /\ joined \in 0..total /\ ended \subseteq Chances
  /\ done \in BOOLEAN

\* main() up to its joins.  total_people is the sum of uninitialized values of
\* num_people; here it counts threads that exist.
StadiumInit ==
  /\ capacity = seating_capacity
  /\ goals = [H |-> 0, N |-> -2, A |-> 0]
  /\ person = [p \in Persons |-> "home"]
  /\ try = [p \in Persons |-> 1]
  /\ zone_id = [p \in Persons |-> NoZone]
  /\ expired = {}
  /\ invalid \in SUBSET Persons /\ Cardinality(invalid) <= MaxInvalid
  /\ zone = [z \in Zones |-> "start"]
  /\ chance = [g \in Chances |-> "start"]
  /\ total \in Totals
  /\ joined = 0 /\ ended = {} /\ done = FALSE

Goes(p, to) == person' = [person EXCEPT ![p] = to]
\* Everything but the spectators stays as it is.
OnlyPersons == UNCHANGED <<capacity, goals, zone, chance, mainVars>>

(***************************************************************************)
(* spectator_thread()                                                      *)
(***************************************************************************)

Reach(p) ==
  /\ person[p] = "home" /\ Goes(p, "reached")
  /\ UNCHANGED <<try, zone_id, expired, invalid>> /\ OnlyPersons

Wait_Renews(p) ==
  /\ person[p] = "reached"
  /\ Goes(p, "waiting")
  /\ expired' = expired \ {p}
  /\ UNCHANGED <<try, zone_id, invalid>> /\ OnlyPersons

\* The wait begins: a signal sent before now is lost.  A wait whose deadline
\* has passed when it is called gives ETIMEDOUT at once.
Wait(p) ==
  /\ person[p] = "reached"
  /\ Goes(p, IF p \in expired THEN "gone" ELSE "waiting")
  /\ expired' = expired \ {p}
  /\ UNCHANGED <<try, zone_id, invalid>> /\ OnlyPersons

\* The deadline of the wait for a seat, or of the match, passes.
Expire(p) ==
  /\ p \notin expired
  /\ \/ person[p] \in {"reached", "waiting", "try"} /\ p \notin invalid
     \/ person[p] \in {"seated", "watching", "goal"}
  /\ expired' = expired \cup {p}
  /\ UNCHANGED <<person, try, zone_id, invalid>> /\ OnlyPersons

\* ETIMEDOUT while waiting: no seat.  A signal may still come first.
NoSeat(p) ==
  /\ person[p] = "waiting" /\ p \in expired
  /\ Goes(p, "gone")
  /\ expired' = expired \ {p}
  /\ UNCHANGED <<try, zone_id, invalid>> /\ OnlyPersons

\* The wait returns without a signal: EINVAL, or a spurious wakeup.
WaitReturns(p) ==
  /\ person[p] = "waiting" /\ p \notin expired
  /\ Goes(p, "try")
  /\ UNCHANGED <<try, zone_id, expired, invalid>> /\ OnlyPersons

\* sem_trywait() of the next zone; goto justincase after the last one.
TrySeat(p) ==
  LET zones == ZonesOf[TypeOf[p]]
      z == zones[try[p]]
  IN
  /\ person[p] = "try"
  /\ \/ /\ capacity[z] > 0
        /\ capacity' = [capacity EXCEPT ![z] = @ - 1]
        /\ zone_id' = [zone_id EXCEPT ![p] = z]
        /\ try' = [try EXCEPT ![p] = 1]
        /\ expired' = expired \ {p}
        /\ Goes(p, "seated")
     \/ /\ capacity[z] = 0 /\ try[p] < Len(zones)
        /\ try' = [try EXCEPT ![p] = @ + 1]
        /\ UNCHANGED <<capacity, zone_id, expired, person>>
     \/ /\ capacity[z] = 0 /\ try[p] = Len(zones)
        /\ try' = [try EXCEPT ![p] = 1]
        /\ Goes(p, "reached")
        /\ UNCHANGED <<capacity, zone_id, expired>>
  /\ UNCHANGED <<goals, invalid, zone, chance, mainVars>>

\* The wait for a goal begins: goals scored so far are not looked at.
Watch(p) ==
  /\ person[p] = "seated"
  /\ Goes(p, IF p \in expired THEN "leave" ELSE "watching")
  /\ UNCHANGED <<try, zone_id, expired, invalid>> /\ OnlyPersons

TimeUp_Returns(p) ==
  /\ person[p] = "watching" /\ p \in expired
  /\ Goes(p, "gone")
  /\ UNCHANGED <<try, zone_id, expired, invalid>> /\ OnlyPersons

\* ETIMEDOUT while waiting: the time is up.
TimeUp(p) ==
  /\ person[p] = "watching" /\ p \in expired
  /\ Goes(p, "leave")
  /\ UNCHANGED <<try, zone_id, expired, invalid>> /\ OnlyPersons

\* A broadcast was received: leave at the limit, else goto restarting.
CheckGoals(p) ==
  /\ person[p] = "goal"
  /\ Goes(p, IF goals[TypeOf[p]] >= LimitOf[p] THEN "leave" ELSE "seated")
  /\ UNCHANGED <<try, zone_id, expired, invalid>> /\ OnlyPersons

\* end: sem_post().
Leave(p) ==
  /\ person[p] = "leave"
  /\ capacity' = [capacity EXCEPT ![zone_id[p]] = @ + 1]
  /\ zone_id' = [zone_id EXCEPT ![p] = NoZone]
  /\ Goes(p, "gone")
  /\ expired' = expired \ {p}
  /\ UNCHANGED <<goals, try, invalid, zone, chance, mainVars>>

(***************************************************************************)
(* zone_thread() and goal_thread()                                         *)
(***************************************************************************)

\* The first test of done.
Top(z) ==
  /\ zone[z] = "start"
  /\ zone' = [zone EXCEPT ![z] = IF done THEN "ended" ELSE "wait"]
  /\ UNCHANGED <<capacity, goals, personVars, chance, mainVars>>

\* sem_wait(): the thread has a seat for a moment, ...
SemWait(z) ==
  /\ zone[z] = "wait" /\ capacity[z] > 0
  /\ capacity' = [capacity EXCEPT ![z] = @ - 1]
  /\ zone' = [zone EXCEPT ![z] = "held"]
  /\ UNCHANGED <<goals, personVars, chance, mainVars>>

\* ... and puts it back.
SemPost(z) ==
  /\ zone[z] = "held"
  /\ capacity' = [capacity EXCEPT ![z] = @ + 1]
  /\ zone' = [zone EXCEPT ![z] = "signal"]
  /\ UNCHANGED <<goals, personVars, chance, mainVars>>

\* pthread_cond_signal() of the fans of two teams: one of each that waits; then
\* the test of done.
SignalFans(z) ==
  LET Waiting(t) == {p \in Persons : person[p] = "waiting" /\ TypeOf[p] = t} IN
  /\ zone[z] = "signal"
  /\ \E woken \in SUBSET {p \in Persons : person[p] = "waiting"} :
       /\ \A t \in {"H", "N", "A"} :
            Cardinality(woken \cap Waiting(t)) =
              IF t \in FansOf[z] /\ Waiting(t) # {} THEN 1 ELSE 0
       /\ person' = [p \in Persons |-> IF p \in woken THEN "try" ELSE person[p]]
  /\ zone' = [zone EXCEPT ![z] = IF done THEN "ended" ELSE "wait"]
  /\ UNCHANGED <<capacity, goals, try, zone_id, expired, invalid, chance,
                 mainVars>>

\* The chance is taken, under goals_count_mutex, or missed.
Shot(g) ==
  /\ chance[g] = "start"
  /\ \/ /\ goals' = [goals EXCEPT ![TeamOf[g]] = @ + 1]
        /\ chance' = [chance EXCEPT ![g] = "scored"]
     \/ /\ chance' = [chance EXCEPT ![g] = "ended"]
        /\ UNCHANGED goals
  /\ UNCHANGED <<capacity, personVars, zone, mainVars>>

\* pthread_cond_broadcast(&goal_cond).
Broadcast ==
  person' = [p \in Persons |->
               IF person[p] = "watching" THEN "goal" ELSE person[p]]

Announce(g) ==
  /\ chance[g] = "scored"
  /\ chance' = [chance EXCEPT ![g] = "ended"]
  /\ Broadcast
  /\ UNCHANGED <<capacity, goals, try, zone_id, expired, invalid, zone,
                 mainVars>>

(***************************************************************************)
(* main()                                                                  *)
(***************************************************************************)

\* The next spectator is joined; done is set with the first one.
JoinPerson ==
  /\ joined < total /\ person[joined + 1] = "gone"
  /\ joined' = joined + 1
  /\ done' = TRUE
  /\ UNCHANGED <<capacity, goals, personVars, zone, chance, total, ended>>

\* The threads of the chances are joined, with a broadcast each.
JoinChance(g) ==
  /\ joined = total /\ g \notin ended
  /\ chance[g] = "ended"
  /\ ended' = ended \cup {g}
  /\ Broadcast
  /\ UNCHANGED <<capacity, goals, try, zone_id, expired, invalid, zone, chance,
                 total, joined, done>>

\* The threads of the zones are joined and main() returns: the process ends,
\* with the spectators it did not join.
MainReturns ==
  /\ joined = total /\ ended = Chances
  /\ \A z \in Zones : zone[z] = "ended"
  /\ person' = [p \in Persons |->
                  IF person[p] = "gone" THEN "gone" ELSE "killed"]
  /\ UNCHANGED <<capacity, goals, try, zone_id, expired, invalid, zone, chance,
                 mainVars>>

PersonStep(p) ==
  \/ Reach(p) \/ Wait(p) \/ NoSeat(p) \/ WaitReturns(p)
  \/ TrySeat(p) \/ Watch(p) \/ TimeUp(p) \/ CheckGoals(p) \/ Leave(p)
ZoneStep(z) == Top(z) \/ SemWait(z) \/ SemPost(z) \/ SignalFans(z)

StadiumNext ==
  \/ \E p \in Persons : PersonStep(p) \/ Expire(p)
  \/ \E z \in Zones : ZoneStep(z)
  \/ \E g \in Chances : Shot(g) \/ Announce(g) \/ JoinChance(g)
  \/ JoinPerson \/ MainReturns

\* Time passes, and a thread that can go on does.
Fairness ==
  \A p \in Persons : /\ WF_stadiumVars(Expire(p))
                     /\ WF_stadiumVars(PersonStep(p))

StadiumSpec == StadiumInit /\ [][StadiumNext]_stadiumVars /\ Fairness

-----------------------------------------------------------------------------

\* Seats are neither lost nor made: those free, those in the hands of a zone's
\* thread and those of its spectators are the zone's capacity, and nobody sits
\* in a zone that is closed to his team, whoever signals, times out and retries
\* at the same moment.
SeatsAccounted ==
  /\ StadiumTypeOK
  /\ \A z \in Zones :
       capacity[z] + Cardinality({p \in Persons : zone_id[p] = z})
         + (IF zone[z] = "held" THEN 1 ELSE 0) = seating_capacity[z]
  /\ \A p \in Persons :
       /\ person[p] # "killed" =>
            (zone_id[p] # NoZone <=>
               person[p] \in {"seated", "watching", "goal", "leave"})
       /\ zone_id[p] # NoZone => zone_id[p] \in Range(ZonesOf[TypeOf[p]])

\* Patience and the time of a visit are kept: a spectator leaves in the end,
\* although a signal may wake him after his deadline and the zones' threads stop
\* signalling when the first one has left, unless the deadline is no valid time.
EveryoneLeaves ==
  \A p \in Persons : p \notin invalid => <>(person[p] \in {"gone", "killed"})
=============================================================================

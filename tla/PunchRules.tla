----------------------------- MODULE PunchRules -----------------------------
(***************************************************************************)
(* The pure part of attendance: which of the four clock events of a day    *)
(* may be punched next, and what a day's punches are worth.                *)
(* (server/src/common/attendance-hours.ts)                                 *)
(*                                                                         *)
(* A day is a function from Kinds to punches.  Only two fields of a punch  *)
(* matter here: status, which is "NONE" where nothing was punched, and     *)
(* time, in ticks of the server's clock.                                   *)
(***************************************************************************)
EXTENDS Integers, Functions

CONSTANT TicksPerCent   \* clock ticks in a hundredth of an hour

ASSUME TicksPerCentAssumption == TicksPerCent \in Nat \ {0}

Kinds == {"TIME_IN_AM", "TIME_OUT_AM", "TIME_IN_PM", "TIME_OUT_PM"}

Morning == {"TIME_IN_AM", "TIME_OUT_AM"}

Sessions == {"AM", "PM"}

InKind == [AM |-> "TIME_IN_AM", PM |-> "TIME_IN_PM"]

OutKind == [AM |-> "TIME_OUT_AM", PM |-> "TIME_OUT_PM"]

\* A punch that exists and was not declined.
Stands(day, k) == day[k].status \in {"PENDING", "APPROVED"}

(***************************************************************************)
(* The verdict of punchAvailability on one kind.  Every case but the       *)
(* refusal of the kind itself is an ordering rule between two kinds.       *)
(***************************************************************************)
BrokenRedo(day, k) ==   \* forgets that an In cannot be redone
  /\ ~Stands(day, k)
  /\ k \in Morning => ~Stands(day, "TIME_IN_PM")
  /\ k = "TIME_OUT_AM" => Stands(day, "TIME_IN_AM")
  /\ k = "TIME_IN_PM" => (Stands(day, "TIME_IN_AM") => Stands(day, "TIME_OUT_AM"))
  /\ k = "TIME_OUT_PM" => Stands(day, "TIME_IN_PM")

BrokenClosing(day, k) ==   \* forgets that a standing PM In closes the morning
  /\ ~Stands(day, k)
  /\ k = "TIME_IN_AM" => ~Stands(day, "TIME_OUT_AM")
  /\ k = "TIME_OUT_AM" => Stands(day, "TIME_IN_AM")
  /\ k = "TIME_IN_PM" => /\ Stands(day, "TIME_IN_AM") => Stands(day, "TIME_OUT_AM")
                         /\ ~Stands(day, "TIME_OUT_PM")
  /\ k = "TIME_OUT_PM" => Stands(day, "TIME_IN_PM")

MayPunch(day, k) ==
  /\ ~Stands(day, k)
  /\ k \in Morning => ~Stands(day, "TIME_IN_PM")
  /\ k = "TIME_IN_AM" => ~Stands(day, "TIME_OUT_AM")
  /\ k = "TIME_OUT_AM" => Stands(day, "TIME_IN_AM")
  /\ k = "TIME_IN_PM" => /\ Stands(day, "TIME_IN_AM") => Stands(day, "TIME_OUT_AM")
                         /\ ~Stands(day, "TIME_OUT_PM")
  /\ k = "TIME_OUT_PM" => Stands(day, "TIME_IN_PM")

-----------------------------------------------------------------------------
\* Hours.  An hour figure is a number of ticks until it is rounded.

Span(start, end) == IF start <= end THEN end - start ELSE 0

SessionTicks(day, s) == Span(day[InKind[s]].time, day[OutKind[s]].time)

ApprovedPair(day, s) ==
  /\ day[InKind[s]].status = "APPROVED"
  /\ day[OutKind[s]].status = "APPROVED"

BrokenPending(day, s) ==   \* counts an approved session a second time
  /\ Stands(day, InKind[s])
  /\ Stands(day, OutKind[s])

PendingPair(day, s) ==
  /\ Stands(day, InKind[s])
  /\ Stands(day, OutKind[s])
  /\ ~ApprovedPair(day, s)

\* approvedHoursForDay and pendingHoursForDay, unrounded.
ApprovedTicks(day) ==
  SumFunction([s \in Sessions |->
    IF ApprovedPair(day, s) THEN SessionTicks(day, s) ELSE 0])

PendingTicks(day) ==
  SumFunction([s \in Sessions |->
    IF PendingPair(day, s) THEN SessionTicks(day, s) ELSE 0])

\* Math.round(hours * 100) / 100, as a number of hundredths of an hour.
RoundHours(ticks) == (2 * ticks + TicksPerCent) \div (2 * TicksPerCent)

\* totalApprovedHours: one rounding, after the sum over the days.
TotalApproved(days) ==
  RoundHours(SumFunction([d \in DOMAIN days |-> ApprovedTicks(days[d])]))

TotalPending(days) ==
  RoundHours(SumFunction([d \in DOMAIN days |-> PendingTicks(days[d])]))

HasApprovedSession(day) == \E s \in Sessions : ApprovedPair(day, s)

DayStatus(day) ==
  LET has(st) == \E k \in Kinds : day[k].status = st
  IN  CASE has("PENDING") -> "PENDING"
        [] ~has("PENDING") /\ has("DECLINED") ->
             IF HasApprovedSession(day) THEN "PARTIAL" ELSE "DECLINED"
        [] OTHER -> IF HasApprovedSession(day) THEN "APPROVED" ELSE "INCOMPLETE"

\* lastApprovedDay: the latest day that counted, or none (a set of at most one).
LastApprovedDay(days) ==
  LET counted == {d \in DOMAIN days : HasApprovedSession(days[d])}
  IN  {d \in counted : \A e \in counted : e <= d}

=============================================================================

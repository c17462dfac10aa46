----------------------------- MODULE Logistics -----------------------------
(***************************************************************************)
(* The shipment a customer sees: paying writes one record and nothing      *)
(* advances it, so each read derives the stages that time has passed.      *)
(* Times are minutes; nothing is written back.                             *)
(***************************************************************************)
EXTENDS Ascending, Sequences, SequencesExt, FiniteSetsExt

CONSTANT NoTime     \* absent, or text that is no time

ASSUME NoTimeAssumption == NoTime \notin Int

Stages == <<"picked_up", "in_transit", "in_transit", "out_for_delivery", "delivered">>
DefaultMinutes == <<0, 2, 5, 8, 12>>

Time == Int \union {NoTime}
Node == [stage : 1..5, time : Time]
Shipment == [status : STRING, paid_at : Time, estimate : Time, timeline : Seq(Node)]

\* LOGISTICS_STAGE_MINUTES counts if it has a number for each stage, in order.
StageMinutes(raw) ==
    IF Len(raw) = Len(Stages) /\ \A i \in 1..(Len(raw) - 1) : raw[i] <= raw[i + 1]
    THEN raw ELSE DefaultMinutes

\* Records that are derived from; others were filled in and stay.
Initial(record) == record.status = "picked_up" /\ Len(record.timeline) <= 1

\* When the stages start to count: at the node written by pay, or at the payment.
Base(record, now) ==
    LET first == IF record.timeline = <<>> THEN NoTime ELSE record.timeline[1].time IN
    IF first # NoTime THEN first
    ELSE IF record.paid_at # NoTime THEN record.paid_at ELSE now

\* Mutant of Reached: only the last stage that was reached.
ReachedLast(minutes, elapsed) == {Max({1} \union {i \in DOMAIN minutes : elapsed >= minutes[i]})}

\* The stages reached, the first one in any case.
Reached(minutes, elapsed) ==
    LET passed == {i \in DOMAIN minutes : Max({0, elapsed}) >= minutes[i]}
    IN  IF passed = {} THEN {1} ELSE passed

\* derive_logistics: an override decides which stages are reached and what is
\* promised; the nodes are dated by the default all the same.
Derived(record, raw, now) ==
    LET minutes == StageMinutes(raw)
        base == Base(record, now)
        reached == Ascending(Reached(minutes, now - base))
        node(i) == IF i = 1 /\ record.timeline # <<>> THEN record.timeline[1]
                   ELSE [stage |-> i, time |-> base + DefaultMinutes[i]]
        last == reached[Len(reached)]
    IN  IF ~Initial(record) THEN record
        ELSE [status |-> Stages[last], paid_at |-> record.paid_at,
              timeline |-> [k \in DOMAIN reached |-> node(reached[k])],
              estimate |-> IF last = Len(Stages) THEN NoTime ELSE base + minutes[Len(Stages)]]

-----------------------------------------------------------------------------
(* Properties *)

Faster(raw) == \E i \in DOMAIN Stages : StageMinutes(raw)[i] < DefaultMinutes[i]

\* Is there a time to count from, other than that of the look?
Dated(record) ==
    record.paid_at # NoTime \/ (record.timeline # <<>> /\ record.timeline[1].time # NoTime)

\* Whoever looks at a dated shipment at two times finds, at the later one, the
\* nodes of the earlier one with the same dates, a delivery promised for the same
\* time until it is delivered, and the first node although the clock is behind
\* the payment.  No other stage is dated later than the look, unless the clock is
\* behind or the override is faster than the default by which nodes are dated.
\* Records that were filled in are shown as they are.
ShipmentOnlyAdvances(record, raw, early, late) ==
    LET a == Derived(record, raw, early)
        b == Derived(record, raw, late)
    IN  early <= late =>
        IF ~Initial(record) THEN a = record /\ b = record
        ELSE Dated(record) =>
            /\ IsPrefix(a.timeline, b.timeline)
            /\ a.timeline # <<>>
            /\ b.estimate \in {a.estimate, NoTime}
            /\ b.estimate = NoTime <=> b.status = "delivered"
            /\ Base(record, late) <= late /\ ~Faster(raw) =>
                  \A k \in 2..Len(b.timeline) : b.timeline[k].time <= late
            /\ record.timeline # <<>> => Head(b.timeline) = record.timeline[1]

=============================================================================

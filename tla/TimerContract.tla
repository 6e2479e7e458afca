---------------------------- MODULE TimerContract ----------------------------
(***************************************************************************)
(* What TimerManager promises a host, without handles, slots, queues and    *)
(* counters.  A timer is known by the sequence number of its schedule.      *)
(* Every tick a live timer owes is accounted for by the advance that        *)
(* crosses it; firings are delivered once, in order, and never after their  *)
(* timer was withdrawn.                                                     *)
(***************************************************************************)
EXTENDS Naturals, Sequences, FiniteSets

CONSTANT MaxTick

VARIABLES
    tick,     \* the committed tick
    next,     \* the sequence number of the next timer
    armed,    \* the live timers
    queue,    \* the firings that wait for the next drain
    drained   \* the firings the last drain delivered, in order

contract == <<tick, next, armed, queue, drained>>

Init ==
    /\ tick = 0 /\ next = 1
    /\ armed = {} /\ queue = {} /\ drained = <<>>

Schedule ==
    /\ \E due \in tick + 1 .. MaxTick, every \in 0 .. MaxTick :
        armed' = armed \cup {[seq |-> next, due |-> due, every |-> every, queued |-> FALSE]}
    /\ next' = next + 1
    /\ UNCHANGED <<tick, queue, drained>>

Doomed(f) == [f EXCEPT !.doomed = TRUE]

(* The host takes back some timers, with all they have queued, or closes     *)
(* what some queued firings were meant for.                                  *)
Withdraw ==
    /\ \E gone \in SUBSET armed, closed \in SUBSET queue :
        LET late == closed \cup {f \in queue : \E t \in gone : t.seq = f.seq}
        IN  /\ armed' = armed \ gone
            /\ queue' = (queue \ late) \cup {Doomed(f) : f \in late}
    /\ UNCHANGED <<tick, next, drained>>

Owes(t, to) == ~t.queued /\ t.due <= to

Ticks(t, to) ==
    IF t.every = 0 THEN {t.due} ELSE {d \in t.due .. to : (d - t.due) % t.every = 0}

(* Timer t after to, if all it owed was queued. *)
Later(t, to) ==
    IF t.every = 0 THEN {[t EXCEPT !.queued = TRUE]}
    ELSE {[t EXCEPT !.due = d] : d \in {d \in to + 1 .. to + t.every :
                                            d <= MaxTick /\ (d - t.due) % t.every = 0}}

(* Everything owed up to to is queued, in the order it is due; a firing that *)
(* finds no room ends its timer.                                             *)
Advance ==
    \E to \in tick + 1 .. MaxTick :
        LET owing == {t \in armed : Owes(t, to)}
            owed == UNION {{[seq |-> t.seq, due |-> d, doomed |-> FALSE] : d \in Ticks(t, to)} : t \in owing}
        IN  \E kept \in SUBSET owed :
                /\ \A f \in kept : \A g \in owed : g.seq = f.seq /\ g.due < f.due => g \in kept
                /\ queue' = queue \cup kept
                /\ armed' = (armed \ owing) \cup
                        UNION {Later(t, to) : t \in {u \in owing : \A f \in owed : f.seq = u.seq => f \in kept}}
                /\ tick' = to
                /\ UNCHANGED <<next, drained>>

Precedes(f, g) == f.due < g.due \/ (f.due = g.due /\ f.seq < g.seq)

(* The queue is emptied.  What is not doomed is delivered in order or turned *)
(* away for want of its dispatch; being turned away ends a live timer, being *)
(* delivered ends one that fires once.                                       *)
Drain ==
    \E out \in SUBSET {f \in queue : ~f.doomed} :
        /\ queue' = {}
        /\ armed' = {t \in armed : \A f \in queue : f.seq = t.seq => f \in out /\ t.every # 0}
        /\ Len(drained') = Cardinality(out)
        /\ {drained'[i] : i \in DOMAIN drained'} = {[due |-> f.due, seq |-> f.seq] : f \in out}
        /\ \A i, k \in DOMAIN drained' : i < k => Precedes(drained'[i], drained'[k])
        /\ UNCHANGED <<tick, next>>

Next == Schedule \/ Withdraw \/ Advance \/ Drain

Spec == Init /\ [][Next]_contract
=============================================================================

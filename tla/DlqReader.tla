------------------------------ MODULE DlqReader ------------------------------
(***************************************************************************)
(* One run of tools/read_dlq.py while reports keep arriving in the DLQ,    *)
(* which has one partition.  The run joins a group of its own; its         *)
(* partition comes at some later time, and again when the group lost it    *)
(* and let it join anew (after a session timeout, or after a print that    *)
(* was blocked for longer than max.poll.interval.ms).                      *)
(*                                                                         *)
(* Time is in half seconds, so that a timeout need not be a whole number   *)
(* of the polls of one second.  --timeout is parsed by float(), which      *)
(* takes nan and inf too: no idle time reaches either.  (-inf acts as any  *)
(* negative number.)                                                       *)
(***************************************************************************)
EXTENDS Integers, Sequences

CONSTANTS
  Arguments,   \* the command lines to consider
  NaN,         \* float("nan")
  Infinity,    \* float("inf")
  Reports,     \* bound on the length of the DLQ
  MaxFaults    \* bound on errors, interrupts and repeated assignments

ASSUME ReaderAssumption ==
  /\ NaN \notin Int /\ Infinity \notin Int
  /\ Arguments \subseteq [follow : BOOLEAN, timeout : Int \union {NaN, Infinity}]
  /\ Reports \in Nat /\ MaxFaults \in Nat

VARIABLES
  dlq,           \* how many reports there are
  args,          \* the command line
  readerPhase,   \* where main() is
  assigned,      \* the client has its partition
  position,      \* the offset the next poll delivers
  idle,
  count,
  shown,         \* the offsets of the reports printed
  \* history
  reason,        \* why the loop was left
  left,          \* how many reports there were then
  quiet,         \* polls without a message since the last message
  late,          \* some poll returned None although a report was there
  rejoined,      \* how often the partition was assigned anew
  faults

clientVars == <<dlq, assigned, position>>
history == <<left, late, rejoined>>
vars == <<clientVars, args, readerPhase, idle, count, shown, reason, quiet, history, faults>>

PollTime == 2   \* poll(1.0)

Fault ==
  /\ faults < MaxFaults
  /\ faults' = faults + 1

Init ==
  /\ dlq \in 0 .. Reports
  /\ args \in Arguments
  /\ readerPhase = "poll"
  /\ assigned = FALSE /\ position = 0
  /\ idle = 0 /\ count = 0 /\ shown = <<>>
  /\ reason = "none" /\ left = 0 /\ quiet = 0 /\ late = FALSE /\ rejoined = 0
  /\ faults = 0

\* A report arrives.
Arrive ==
  /\ dlq < Reports
  /\ dlq' = dlq + 1
  /\ UNCHANGED <<assigned, position, args, readerPhase, idle, count, shown, reason,
                 quiet, history, faults>>

\* Mutant of Assign: auto.offset.reset is "latest".
AssignLatest ==
  /\ readerPhase = "poll" /\ ~assigned
  /\ assigned' = TRUE
  /\ position' = dlq
  /\ UNCHANGED <<dlq, args, readerPhase, idle, count, shown, reason, quiet, history, faults>>

\* The client gets its partition, which it learns in poll().  The group of this run
\* has committed nothing: it starts at the earliest report.
Assign ==
  /\ readerPhase = "poll" /\ ~assigned
  /\ assigned' = TRUE
  /\ position' = 0
  /\ UNCHANGED <<dlq, args, readerPhase, idle, count, shown, reason, quiet, history, faults>>

\* The partition is lost; it will be assigned from the earliest report again.
Lose ==
  /\ readerPhase = "poll" /\ assigned
  /\ assigned' = FALSE
  /\ rejoined' = rejoined + 1
  /\ Fault
  /\ UNCHANGED <<dlq, position, args, readerPhase, idle, count, shown, reason, quiet,
                 left, late>>

Available == assigned /\ position < dlq

\* Mutant of PollMessage: idle is the time of all empty polls.
PollMessageStaysIdle ==
  /\ readerPhase = "poll" /\ Available
  /\ position' = position + 1
  /\ count' = count + 1
  /\ quiet' = 0
  /\ readerPhase' = "print"
  /\ UNCHANGED <<dlq, assigned, args, idle, shown, reason, history, faults>>

\* A report is polled and counted.
PollMessage ==
  /\ readerPhase = "poll" /\ Available
  /\ position' = position + 1
  /\ idle' = 0
  /\ count' = count + 1
  /\ quiet' = 0
  /\ readerPhase' = "print"
  /\ UNCHANGED <<dlq, assigned, args, shown, reason, history, faults>>

\* Mutant of PrintReport: the offset of the report to poll next.
PrintReportNext ==
  /\ readerPhase = "print"
  /\ shown' = Append(shown, position)
  /\ readerPhase' = "poll"
  /\ UNCHANGED <<clientVars, args, idle, count, reason, quiet, history, faults>>

\* And printed: it is the last one polled.
PrintReport ==
  /\ readerPhase = "print"
  /\ shown' = Append(shown, position - 1)
  /\ readerPhase' = "poll"
  /\ UNCHANGED <<clientVars, args, idle, count, reason, quiet, history, faults>>

LeaveLoop(why) ==
  /\ readerPhase' = "over"
  /\ reason' = why
  /\ left' = dlq

\* Some number of seconds is long enough.
Finite == args.timeout \in Int

\* Mutant of TimeIsUp: the idle time must hit the timeout.
TimeIsUpExactly == ~args.follow /\ Finite /\ idle + PollTime = args.timeout

\* The condition of the break, after idle += 1.0.
TimeIsUp == ~args.follow /\ Finite /\ idle + PollTime >= args.timeout

\* poll() returns None after its second, because there is nothing or because
\* nothing came in time, and the loop goes on.  What follows depends on idle only
\* up to the timeout, and not at all when no idle time reaches it.
PollNone ==
  /\ readerPhase = "poll"
  /\ \/ /\ Finite /\ idle < args.timeout
        /\ idle' = idle + PollTime /\ quiet' = quiet + 1
     \/ /\ ~(Finite /\ idle < args.timeout)
        /\ UNCHANGED <<idle, quiet>>
  /\ late' = (late \/ ~assigned \/ Available)
  /\ \/ TimeIsUp /\ LeaveLoop("idle")
     \/ ~TimeIsUp /\ UNCHANGED <<readerPhase, reason, left>>
  /\ UNCHANGED <<clientVars, args, count, shown, rejoined, faults>>

\* poll() reports an error, or Ctrl+C comes at any time.
Break(why) ==
  /\ LeaveLoop(why)
  /\ Fault
  /\ UNCHANGED <<clientVars, args, idle, count, shown, quiet, late, rejoined>>

\* Mutant of PollError: the error message is counted before it is looked at.
PollErrorCounts ==
  /\ readerPhase = "poll"
  /\ LeaveLoop("error")
  /\ Fault
  /\ count' = count + 1
  /\ UNCHANGED <<clientVars, args, idle, shown, quiet, late, rejoined>>

PollError == readerPhase = "poll" /\ Break("error")

Interrupt == readerPhase # "over" /\ Break("interrupt")

ReaderStep == PollMessage \/ PrintReport \/ PollNone

Next == Arrive \/ Assign \/ Lose \/ ReaderStep \/ PollError \/ Interrupt

Spec == Init /\ [][Next]_vars

\* poll() returns after a second at the latest.
FairSpec == Spec /\ WF_vars(ReaderStep)
-----------------------------------------------------------------------------
TypeOK ==
  /\ dlq \in 0 .. Reports
  /\ args \in Arguments
  /\ readerPhase \in {"poll", "print", "over"}
  /\ assigned \in BOOLEAN /\ late \in BOOLEAN
  /\ position \in 0 .. dlq
  /\ idle \in Nat /\ count \in Nat /\ left \in Nat /\ quiet \in Nat
  /\ rejoined \in Nat /\ faults \in Nat
  /\ shown \in Seq(Nat)
  /\ reason \in {"none", "idle", "error", "interrupt"}

\* What is printed is the DLQ from its beginning, in order and without a gap; only
\* when the client had to join anew does it start over, with a report printed
\* twice but none left out (read_dlq.py:80-88, 108-110).
ShownInOrder ==
  /\ \A i \in DOMAIN shown :
       shown[i] = 0 \/ (i > 1 /\ shown[i] = shown[i - 1] + 1)
  /\ shown # <<>> => shown[1] = 0
  /\ rejoined = 0 => \A i \in DOMAIN shown : shown[i] = i - 1

\* The number after TOTAL is the number of reports printed, but for one polled
\* when Ctrl+C came (read_dlq.py:108-115).
TotalHonest ==
  readerPhase = "over" =>
    count - Len(shown) \in IF reason = "interrupt" THEN {0, 1} ELSE {0}

IsShown(offset) == \E i \in DOMAIN shown : shown[i] = offset

\* A reader that gives up shows every report there was, unless a poll was late
\* (read_dlq.py:96-101).
FullUnlessLate ==
  reason = "idle" /\ ~late => \A offset \in 0 .. left - 1 : IsShown(offset)

\* It gives up after --timeout seconds in a row without a message, to the next whole
\* second, not before and not later, and never when that is nan or inf; earlier
\* pauses do not count (read_dlq.py:97-108).
GivesUpAfterSilence ==
  reason = "idle" =>
    /\ Finite
    /\ quiet * PollTime >= args.timeout
    /\ quiet > 1 => (quiet - 1) * PollTime < args.timeout

\* Without --follow the reader comes to its end, once reports cease to come and its
\* partition stays with it, and if --timeout is neither nan nor inf: a steady stream
\* of reports resets idle for ever, and no idle time reaches those two
\* (read_dlq.py:97-108).
ReaderEnds ==
  ~args.follow /\ Finite /\ <>[][UNCHANGED <<dlq, rejoined>>]_<<dlq, rejoined>>
    => <>(readerPhase = "over")

-----------------------------------------------------------------------------
\* read_dlq.py:6-8: the tool "always shows the full DLQ contents from the
\* beginning".  A run that was neither interrupted nor told of an error does.
AlwaysFull == reason = "idle" => \A offset \in 0 .. left - 1 : IsShown(offset)
=============================================================================

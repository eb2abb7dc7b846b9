-------------------------------- MODULE Alarm --------------------------------
(***************************************************************************)
(* The alarm programs alarm_mutex.c and alarm_cond.c.  In both main reads  *)
(* commands and keeps a list of alarms ordered by expiration time, and one *)
(* thread takes the first and rings it when its time has come.  In         *)
(* alarm_mutex.c the thread sleeps through the time of the alarm it took;  *)
(* in alarm_cond.c it waits on a condition variable with that time as its  *)
(* limit, and current_alarm tells main whether a new alarm must wake it.   *)
(*                                                                         *)
(* Alarm n is the n-th entered; messages are left out.  Main holds         *)
(* alarm_mutex only within one action.  The thread of alarm_cond.c holds   *)
(* it except while it waits, so main can only act when it waits.  Lines    *)
(* that are empty or no command change nothing and have no action.         *)
(***************************************************************************)
EXTENDS Integers, Sequences, FiniteSets

CONSTANTS
  Seconds,     \* the numbers of seconds that are typed
  MaxAlarms,   \* alarms entered in a run
  StartTime,   \* the time when the program starts
  Horizon      \* the last time an alarm may be set for

ASSUME AlarmAssumption ==
  /\ Seconds \subseteq Int
  /\ MaxAlarms \in Nat
  /\ StartTime \in Nat /\ Horizon \in Nat
  /\ \A s \in Seconds : StartTime + s > 0

VARIABLES
  program,        \* which of the two programs runs
  now,            \* the clock, in seconds
  time, after,    \* time[n]: when alarm n is due; after[n]: alarms rung before it was entered
  list,           \* alarm_list
  current_alarm,  \* current_alarm, the time waited for, 0 for none
  pc, alarm,      \* where alarm_thread is, and the alarm it has taken, 0 for none
  until,          \* when the sleep of alarm_mutex.c is over
  rung,           \* the alarms rung and when
  process         \* "running" until exit

tvars == <<pc, alarm, until>>
mvars == <<time, after, process>>
alarm_vars == <<program, now, tvars, mvars, list, current_alarm, rung>>

AlarmInit ==
  /\ program \in {"mutex", "cond"}
  /\ now = StartTime
  /\ time = <<>> /\ after = <<>>
  /\ list = <<>>
  /\ current_alarm = 0
  /\ pc = "begin" /\ alarm = 0 /\ until = StartTime
  /\ rung = <<>>
  /\ process = "running"

Tick ==
  /\ process = "running" /\ now <= Horizon
  /\ now' = now + 1
  /\ UNCHANGED <<program, tvars, mvars, list, current_alarm, rung>>

\* The list with alarm a linked in before the first alarm that is not due earlier.
InsertSorted(a, l, t) ==
  LET Later == {i \in 1..Len(l) : t[l[i]] >= t[a]}
      i == IF Later = {} THEN Len(l) + 1 ELSE CHOOSE j \in Later : \A k \in Later : j <= k
  IN  SubSeq(l, 1, i - 1) \o <<a>> \o SubSeq(l, i, Len(l))

\* alarm_thread has alarm_mutex between two waits of alarm_cond.c.
Locked == pc \in {"top", "check"}

\* pthread_cond_signal(&alarm_cond), p being where the thread is then.
Roused(p) == CASE p = "wait" -> "woken" [] p = "timed" -> "roused" [] OTHER -> p

\* Faulty variant: an alarm earlier than the current one is not announced.
InsertBusy(a, t, p) ==
  /\ list' = InsertSorted(a, list, t)
  /\ IF current_alarm = 0
     THEN current_alarm' = t[a] /\ pc' = Roused(p)
     ELSE current_alarm' = current_alarm /\ pc' = p

\* Faulty variant: current_alarm is set and the thread not signalled.
InsertSilent(a, t, p) ==
  /\ list' = InsertSorted(a, list, t)
  /\ current_alarm' = t[a]
  /\ pc' = p

\* alarm_insert of alarm_cond.c.
alarm_insert(a, t, p) ==
  /\ list' = InsertSorted(a, list, t)
  /\ IF current_alarm = 0 \/ t[a] < current_alarm
     THEN current_alarm' = t[a] /\ pc' = Roused(p)
     ELSE current_alarm' = current_alarm /\ pc' = p

-----------------------------------------------------------------------------
(* main.                                                                   *)

\* main enters the next alarm, due in s seconds.
Enter(s) ==
  /\ process = "running" /\ ~ Locked
  /\ Len(time) < MaxAlarms /\ now <= Horizon /\ now + s <= Horizon
  /\ time' = Append(time, now + s) /\ after' = Append(after, Len(rung))
  /\ UNCHANGED <<program, now, alarm, until, rung, process>>

\* A command in alarm_mutex.c.
CommandMutex(s) ==
  /\ program = "mutex"
  /\ Enter(s)
  /\ list' = InsertSorted(Len(time) + 1, list, Append(time, now + s))
  /\ UNCHANGED <<current_alarm, pc>>

\* A command in alarm_cond.c.
CommandCond(s) ==
  /\ program = "cond"
  /\ Enter(s)
  /\ alarm_insert(Len(time) + 1, Append(time, now + s), pc)

\* The end of the input: exit, whatever is pending.
EndOfInput ==
  /\ process = "running"
  /\ process' = "exited"
  /\ UNCHANGED <<program, now, tvars, time, after, list, current_alarm, rung>>

-----------------------------------------------------------------------------
(* alarm_thread.                                                           *)

Ring(a) == rung' = Append(rung, [alarm |-> a, at |-> now])

\* alarm_mutex.c: take the first alarm, if there is one, and sleep until it is
\* due, or for a second.
MutexTake ==
  /\ program = "mutex" /\ process = "running"
  /\ pc = "begin"
  /\ IF list = <<>>
     THEN alarm' = 0 /\ until' = now + 1 /\ UNCHANGED list
     ELSE /\ alarm' = Head(list) /\ list' = Tail(list)
          /\ until' = IF time[alarm'] <= now THEN now ELSE now + (time[alarm'] - now)
  /\ pc' = "asleep"
  /\ UNCHANGED <<program, now, mvars, current_alarm, rung>>

\* alarm_mutex.c: the sleep is over; ring.
MutexRing ==
  /\ program = "mutex" /\ process = "running"
  /\ pc = "asleep" /\ now >= until
  /\ IF alarm # 0 THEN Ring(alarm) ELSE UNCHANGED rung
  /\ alarm' = 0
  /\ pc' = "begin"
  /\ UNCHANGED <<program, now, until, mvars, list, current_alarm>>

\* alarm_cond.c, the top of the loop.
CondTop ==
  /\ program = "cond" /\ process = "running"
  /\ pc \in {"begin", "top"}
  /\ current_alarm' = 0
  /\ pc' = "check"
  /\ UNCHANGED <<program, now, alarm, until, mvars, list, rung>>

\* alarm_cond.c, the loop around the untimed wait.
CondWait ==
  /\ program = "cond" /\ process = "running"
  /\ pc \in {"check", "woken"}
  /\ list = <<>>
  /\ pc' = "wait"
  /\ UNCHANGED <<program, now, alarm, until, mvars, list, current_alarm, rung>>

\* alarm_cond.c: take the first alarm; wait for its time or ring at once.
CondTake ==
  /\ program = "cond" /\ process = "running"
  /\ pc \in {"check", "woken"}
  /\ list # <<>>
  /\ LET a == Head(list)
     IN  /\ list' = Tail(list)
         /\ IF time[a] > now
            THEN alarm' = a /\ current_alarm' = time[a] /\ pc' = "timed" /\ UNCHANGED rung
            ELSE alarm' = 0 /\ Ring(a) /\ pc' = "top" /\ UNCHANGED current_alarm
  /\ UNCHANGED <<program, now, until, mvars>>

\* A spurious wakeup of either wait.
AlarmSpurious ==
  /\ process = "running"
  /\ pc \in {"wait", "timed"}
  /\ pc' = Roused(pc)
  /\ UNCHANGED <<program, now, alarm, until, mvars, list, current_alarm, rung>>

\* The timed wait ends by the clock.
Timeout ==
  /\ process = "running"
  /\ pc = "timed" /\ now >= time[alarm]
  /\ pc' = "expired"
  /\ UNCHANGED <<program, now, alarm, until, mvars, list, current_alarm, rung>>

\* pthread_cond_timedwait: it does not wait when the time has already come.
TimedWait(a) == IF now >= time[a] THEN "expired" ELSE "timed"

\* Faulty variant: any wakeup is taken for the end of the time.
CondRousedRings ==
  /\ process = "running"
  /\ pc = "roused"
  /\ IF current_alarm = time[alarm]
     THEN pc' = TimedWait(alarm) /\ UNCHANGED <<alarm, list, current_alarm, rung>>
     ELSE Ring(alarm) /\ alarm' = 0 /\ pc' = "top" /\ UNCHANGED <<list, current_alarm>>
  /\ UNCHANGED <<program, now, until, mvars>>

\* alarm_cond.c, woken before the time: wait again, or if an earlier alarm has
\* come put this one back on the list.
CondRoused ==
  /\ process = "running"
  /\ pc = "roused"
  /\ IF current_alarm = time[alarm]
     THEN pc' = TimedWait(alarm) /\ UNCHANGED <<alarm, list, current_alarm>>
     ELSE alarm_insert(alarm, time, "top") /\ alarm' = 0
  /\ UNCHANGED <<program, now, until, mvars, rung>>

\* alarm_cond.c, woken by the clock: ring.
CondExpired ==
  /\ process = "running"
  /\ pc = "expired"
  /\ Ring(alarm)
  /\ alarm' = 0
  /\ pc' = "top"
  /\ UNCHANGED <<program, now, until, mvars, list, current_alarm>>

Thread ==
  MutexTake \/ MutexRing \/ CondTop \/ CondWait \/ CondTake \/ Timeout \/ CondRoused \/ CondExpired

AlarmNext ==
  Tick \/ (\E s \in Seconds : CommandMutex(s) \/ CommandCond(s)) \/ EndOfInput \/ Thread \/ AlarmSpurious

AlarmSpec == AlarmInit /\ [][AlarmNext]_alarm_vars

\* The clock goes on and alarm_thread runs when it can; the user need not type.
AlarmFairSpec == AlarmSpec /\ WF_alarm_vars(Tick) /\ WF_alarm_vars(Thread)

-----------------------------------------------------------------------------
(* Properties.                                                             *)

Entered == 1..Len(time)
Listed == {list[i] : i \in 1..Len(list)}
Rung == {rung[i].alarm : i \in 1..Len(rung)}

\* Type invariant: the values of the list, of current_alarm and of the thread's
\* locals in both programs.
AlarmTypeOK ==
  /\ program \in {"mutex", "cond"}
  /\ now \in Nat
  /\ time \in Seq(Int) /\ after \in Seq(Nat) /\ Len(time) = Len(after)
  /\ list \in Seq(Entered)
  /\ current_alarm \in Nat
  /\ pc \in IF program = "mutex" THEN {"begin", "asleep"}
            ELSE {"begin", "top", "check", "wait", "woken", "timed", "roused", "expired"}
  /\ alarm \in Entered \cup {0}
  /\ pc \in {"timed", "roused", "expired"} => alarm # 0
  /\ until \in Nat
  /\ rung \in Seq([alarm : Entered, at : Nat])
  /\ process \in {"running", "exited"}

\* However alarms come in, are taken and are put back, the list stays ordered by
\* time and every alarm entered is in exactly one place: once on the list, with
\* the thread, or rung.
EachAlarmOnce ==
  /\ \A i, j \in 1..Len(list) : i < j => time[list[i]] <= time[list[j]]
  /\ Entered = Listed \cup Rung \cup ({alarm} \ {0})
  /\ Cardinality(Listed) = Len(list) /\ Cardinality(Rung) = Len(rung)
  /\ Listed \cap Rung = {} /\ alarm \notin Listed \cup Rung

\* No alarm rings before its time, although the thread is also woken by new
\* alarms and for no reason.
NeverEarly == \A i \in 1..Len(rung) : rung[i].at >= time[rung[i].alarm]

\* The protocol of current_alarm: when the thread of alarm_cond.c sleeps without
\* a limit the list is empty, and when it sleeps until an alarm is due no alarm
\* on the list is due earlier and current_alarm says what it waits for.
SleepsOnEarliest ==
  /\ pc = "wait" => list = <<>> /\ current_alarm = 0
  /\ pc = "timed" => /\ current_alarm = time[alarm]
                     /\ \A a \in Listed : time[alarm] <= time[a]

\* The state of either program at any moment: well typed, every alarm in one
\* place, and the thread asleep only on the earliest.
AlarmInv == AlarmTypeOK /\ EachAlarmOnce /\ SleepsOnEarliest

\* The alarms due later than a that rang, or were taken to be rung, between the
\* time a was entered and the time it rang.
Overtakers(a) ==
  LET before == {i \in after[a] + 1 .. Len(rung) : \A j \in after[a] + 1 .. i : rung[j].alarm # a}
  IN  {i \in before : time[rung[i].alarm] > time[a]}

\* An alarm is overtaken at most once, by the alarm the thread already had when
\* it was entered, in either program.
OvertakenOnce == \A a \in Entered : Cardinality(Overtakers(a)) <= 1

\* Alarms ring in time, and in order but for one.
RingsInTurn == NeverEarly /\ OvertakenOnce

\* Every alarm entered rings, unless the input ends first.
AlarmsRing == \A a \in 1..MaxAlarms : a \in Entered ~> a \in Rung \/ process = "exited"
=============================================================================

--------------------------------- MODULE Utc ----------------------------------
(***************************************************************************)
(* UTC and BCDTime of utc.h / utc.cc, against a calendar.                  *)
(*                                                                         *)
(* The calendar is the reference: it counts days one by one and knows      *)
(* which months are short.  At every moment the application makes a UTC of *)
(* its date and time, as the TDT, the TOT and the EIT send it, and a       *)
(* receiver makes one of the bytes sent.                                   *)
(*                                                                         *)
(* The float formulas are integer divisions: 365.25 is exact, and no       *)
(* product with 30.6001, and no difference with 15078.2 or 14956.1, is     *)
(* near enough to an integer to be rounded to the other side.              *)
(***************************************************************************)
EXTENDS Integers, Sequences

CONSTANTS
  Starts,  \* where the calendar starts: [mjd, M, D, Y]
  Times,   \* the times of day looked at: << h, m, s >>
  LastDay  \* bound: the last day looked at

ASSUME UtcArgs ==
  /\ \A t \in Times : t[1] \in 0 .. 23 /\ t[2] \in 0 .. 59 /\ t[3] \in 0 .. 60
  /\ \A d \in Starts : d.mjd \in 15079 .. LastDay
  /\ LastDay \in 0 .. 65535

VARIABLES
  today,     \* the calendar: the number of the day and its date
  now,       \* the time of the day
  utc,       \* the UTC object made of them
  received   \* the UTC object made of the bytes the first one is sent as

vars == << today, now, utc, received >>

(* utc.cc. *)

\* BCD2HEX and HEX2BCD, by index.
bcd2hex(b) == 10 * (b \div 16) + (b % 16)
hex2bcdByOct(v) == 16 * (v \div 8) + (v % 8)    \* mutant
hex2bcd(v) == 16 * (v \div 10) + (v % 10)

\* trunc(x * 365.25), trunc(x * 30.6001)
years(x) == (1461 * x) \div 4
months(x) == (306001 * x) \div 10000

\* L: January and February count as months 13 and 14 of the year before.
LNever(M) == 0    \* mutant
L(M) == IF M \in {1, 2} THEN 1 ELSE 0

\* Years come with or without the century.
date2MJD(M, D, Y) ==
  LET year == IF Y > 1900 THEN Y - 1900 ELSE Y IN
  (14956 + D + years(year - L(M)) + months(M + 1 + 12 * L(M))) % 65536

MJD2Date(mjd) ==
  LET yr == (100 * mjd - 1507820) \div 36525
      mo == (1000 * (10 * (mjd - 14956 - years(yr)) - 1)) \div 306001
      K  == IF mo \in {14, 15} THEN 1 ELSE 0
  IN  [D |-> mjd - 14956 - years(yr) - months(mo), Y |-> yr + K + 1900,
       M |-> mo - 1 - 12 * K]

\* The constructors: of a date, of an mjd and three BCD bytes.
UTC(M, D, Y, t) == [mjd |-> date2MJD(M, D, Y), time |-> t]
UTCOfBCD(mjd, bcd) == [mjd |-> mjd, time |-> [i \in 1 .. 3 |-> bcd2hex(bcd[i])]]

\* getBCDHour, getBCDMinute, getBCDSecond.
getBCD(u) == [i \in 1 .. 3 |-> hex2bcd(u.time[i])]

\* operator==: -1, 0 or 1, the first of the fields that differ deciding.
sign(a, b) == IF a < b THEN -1 ELSE IF a > b THEN 1 ELSE 0
timeEqMinutesFirst(t, u) ==    \* mutant
  IF t[2] # u[2] THEN sign(t[2], u[2])
  ELSE IF t[1] # u[1] THEN sign(t[1], u[1]) ELSE sign(t[3], u[3])
timeEq(t, u) ==
  IF t[1] # u[1] THEN sign(t[1], u[1])
  ELSE IF t[2] # u[2] THEN sign(t[2], u[2]) ELSE sign(t[3], u[3])
eq(a, b) == IF a.mjd # b.mjd THEN sign(a.mjd, b.mjd) ELSE timeEq(a.time, b.time)

-----------------------------------------------------------------------------
(* The calendar. *)

Leap(Y) == Y % 4 = 0 /\ (Y % 100 # 0 \/ Y % 400 = 0)
DaysIn(M, Y) ==
  CASE M = 2 -> IF Leap(Y) THEN 29 ELSE 28
    [] M \in {4, 6, 9, 11} -> 30
    [] OTHER -> 31

DayAfter(d) ==
  LET monthEnds == d.D = DaysIn(d.M, d.Y)
      yearEnds == monthEnds /\ d.M = 12
  IN  [mjd |-> d.mjd + 1, D |-> IF monthEnds THEN 1 ELSE d.D + 1,
       M |-> IF yearEnds THEN 1 ELSE IF monthEnds THEN d.M + 1 ELSE d.M,
       Y |-> IF yearEnds THEN d.Y + 1 ELSE d.Y]

\* With the century only after 1900, where it can be told from no century.
YearArgs(Y) == {Y - 1900} \cup (IF Y > 1900 THEN {Y} ELSE {})

\* The objects of a moment.
Make(d, t) ==
  \E Y \in YearArgs(d.Y) :
    LET u == UTC(d.M, d.D, Y, t) IN
    /\ utc' = u
    /\ received' = UTCOfBCD(u.mjd, getBCD(u))

Later(t, u) ==
  \/ t[1] > u[1]
  \/ t[1] = u[1] /\ t[2] > u[2]
  \/ t[1] = u[1] /\ t[2] = u[2] /\ t[3] > u[3]

Init ==
  /\ today \in Starts /\ now \in Times
  /\ utc = UTC(today.M, today.D, today.Y - 1900, now)
  /\ received = UTCOfBCD(utc.mjd, getBCD(utc))

TimePasses ==
  \E t \in Times :
    /\ Later(t, now)
    /\ now' = t /\ UNCHANGED today
    /\ Make(today, t)

Midnight ==
  /\ today.mjd < LastDay
  /\ today' = DayAfter(today)
  /\ \E t \in Times : /\ \A u \in Times : t = u \/ Later(u, t)
                      /\ now' = t
                      /\ Make(today', t)

Next == TimePasses \/ Midnight

Spec == Init /\ [][Next]_vars

-----------------------------------------------------------------------------
\* The two formulas agree with the calendar on every day of the MJD's 16 bits since
\* March 1900, however the year is given, and the time survives its BCD: what a
\* receiver makes of the bytes of a TDT is the date and the time sent.
DatesConvert ==
  /\ utc.mjd = today.mjd /\ utc.time = now
  /\ received = utc
  /\ MJD2Date(received.mjd) = [D |-> today.D, M |-> today.M, Y |-> today.Y]

\* operator== orders: of two moments the later is 1, the earlier -1, over midnights
\* and ends of months and years, and a moment is 0 to what is received of it.
ClockAdvances ==
  [][eq(utc', utc) = 1 /\ eq(utc, utc') = -1 /\ eq(utc', received') = 0]_vars
=============================================================================

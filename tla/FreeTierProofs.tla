--------------------------- MODULE FreeTierProofs ---------------------------
(***************************************************************************)
(* What FreeTier promises of its counters, for any workers, callers,       *)
(* limits, crashes and failures of Redis.                                  *)
(*                                                                         *)
(* None of the properties is inductive.  The invariant of any number of     *)
(* workers, Inv, adds the shape of a block (each INCR has its EXPIRE after  *)
(* it, and no counter is raised twice), that a window has counted whatever  *)
(* it let through (Counted), and the attempts still to be recorded          *)
(* (Ledger).  A step of a worker replaces its job by Settled(j) for some j; *)
(* WorkerStep says what j has to satisfy, and one lemma for each action     *)
(* shows that it does.                                                      *)
(*                                                                         *)
(* The two properties of one worker need DayInv beside it: what is left of  *)
(* the block of an anomaly check (Blocks), that ten minutes have counted    *)
(* what they let through and the day what they have counted, the INCRs      *)
(* still due included (Fits), and that what a check has read still bounds   *)
(* what the counters are (ReadRight).                                       *)
(***************************************************************************)
EXTENDS FreeTier, FiniteSetTheorems, TLAPS

-----------------------------------------------------------------------------
(* Types of what the actions are built from. *)

LEMMA Routes == \A c \in Callers : RouteOf[c] \in {"http", "llm"}
BY ConstantsAssumption

LEMMA CallersAre ==
    ASSUME NEW c \in Callers
    PROVE  /\ c # Nobody /\ AccountOf[c] \in Accounts /\ IpOf[c] \in Ips /\ NoIp \in Ips
           /\ StickyOf[c] \in Stickies /\ PrintOf[c] \in Prints
BY ConstantsAssumption DEF Accounts, Ips, Stickies, Prints

LEMMA CounterOf ==
    ASSUME NEW c \in Callers, NEW family \in Families \ {"attempts"}
    PROVE  Key(family, c) \in Counters
<1>1. CASE family = "ip"
  BY <1>1, CallersAre DEF Key, Counters
<1>2. CASE family = "sticky"
  BY <1>2, CallersAre DEF Key, Counters
<1>3. CASE family \notin {"ip", "sticky"}
  <2>1. family \in Families \ {"ip", "sticky", "attempts"}
    BY <1>3
  <2>2. Key(family, c) = <<family, AccountOf[c]>>
    BY <1>3 DEF Key
  <2> QED BY <2>1, <2>2, CallersAre DEF Counters
<1> QED BY <1>1, <1>2, <1>3

LEMMA AttemptsOf ==
    ASSUME NEW s \in Accounts \union Ips
    PROVE  <<"attempts", s>> \in Counters
BY DEF Counters

LEMMA CommandsOf ==
    ASSUME NEW k \in Counters
    PROVE  <<"incr", k>> \in Commands /\ <<"expire", k>> \in Commands
BY DEF Commands

LEMMA BothType ==
    ASSUME NEW k \in Counters
    PROVE  /\ Both(k) \in Seq(Commands) /\ Len(Both(k)) = 2
           /\ Both(k)[1] = <<"incr", k>> /\ Both(k)[2] = <<"expire", k>>
BY CommandsOf DEF Both

LEMMA AttemptType ==
    ASSUME NEW a \in Accounts, NEW ip \in Ips
    PROVE  Attempt(a, ip) \in Seq(Commands)
BY BothType, AttemptsOf DEF Attempt

LEMMA AfterType ==
    ASSUME NEW c \in Callers, NEW stage
    PROVE  After(c, stage) \in Stages \union Verdicts
<1> DEFINE route == Checks[RouteOf[c]]
           later == {i \in DOMAIN route : i > 1 /\ route[i - 1] = stage}
<1>1. \A i \in DOMAIN route : route[i] \in Stages
  <2>1. CASE RouteOf[c] = "http"
    <3>1. route = <<"ip", "account", "sticky", "anomaly">>
      BY <2>1 DEF Checks
    <3> QED BY <3>1 DEF Stages
  <2>2. CASE RouteOf[c] = "llm"
    <3>1. route = <<"ban", "ip", "burst", "account", "usage", "print">>
      BY <2>2 DEF Checks
    <3> QED BY <3>1 DEF Stages
  <2> QED BY <2>1, <2>2, Routes
<1>2. CASE later = {}
  BY <1>2 DEF After, Features, Verdicts
<1>3. CASE later # {}
  <2>1. (CHOOSE i \in later : TRUE) \in DOMAIN route
    BY <1>3
  <2>2. route[CHOOSE i \in later : TRUE] \in Stages
    BY <1>1, <2>1
  <2> QED BY <1>3, <2>2 DEF After
<1> QED BY <1>2, <1>3

LEMMA RecordTypes ==
    ASSUME NEW c \in Callers, NEW stage
    PROVE  OwnRecord(c, stage) \in Seq(Commands) /\ RouteRecord(c) \in Seq(Commands)
BY CallersAre, AttemptType, BothType, AttemptsOf DEF OwnRecord, RouteRecord

LEMMA JoinParts ==
    ASSUME NEW s \in Seq(Commands), NEW t \in Seq(Commands)
    PROVE  /\ s \o t \in Seq(Commands) /\ Len(s) \in Nat /\ Len(t) \in Nat
           /\ DOMAIN s = 1..Len(s) /\ DOMAIN t = 1..Len(t)
           /\ DOMAIN (s \o t) = 1..Len(s) + Len(t)
           /\ \A i \in 1..Len(s) : (s \o t)[i] = s[i]
           /\ \A i \in 1..Len(t) : (s \o t)[Len(s) + i] = t[i]
<1> DEFINE r == s \o t
<1>1. /\ r \in Seq(Commands) /\ Len(r) = Len(s) + Len(t) /\ Len(s) \in Nat /\ Len(t) \in Nat
      /\ DOMAIN s = 1..Len(s) /\ DOMAIN t = 1..Len(t) /\ DOMAIN r = 1..Len(s) + Len(t)
      /\ \A i \in 1..Len(s) : r[i] = s[i]
      /\ \A i \in 1..Len(t) : r[Len(s) + i] = t[i]
  OBVIOUS
<1> QED BY <1>1

-----------------------------------------------------------------------------
(* Blocks of commands.                                                     *)

\* Each INCR of a block is followed by the EXPIRE of its counter.
Paired(seq) ==
    \A i \in DOMAIN seq : seq[i][1] = "incr" =>
        \E n \in DOMAIN seq : n > i /\ seq[n] = <<"expire", seq[i][2]>>

\* No block raises a counter twice.
Single(q) == \A i, n \in DOMAIN q : q[i][1] = "incr" /\ q[i] = q[n] => i = n

Sound(q) == Paired(q) /\ Single(q)

Raise(s) == <<"incr", <<"attempts", s>>>>

\* A block raises the attempts of s.
Has(q, s) == \E i \in DOMAIN q : q[i] = Raise(s)

LEMMA NothingToDo == Sound(<<>>) /\ About(<<>>) = {} /\ \A s : ~Has(<<>>, s)
BY DEF Paired, Single, Sound, About, Has

LEMMA PairedJoin ==
    ASSUME NEW s \in Seq(Commands), NEW t \in Seq(Commands), Paired(s), Paired(t)
    PROVE  s \o t \in Seq(Commands) /\ Paired(s \o t)
<1> DEFINE r == s \o t
<1>1. /\ r \in Seq(Commands) /\ Len(s) \in Nat /\ Len(t) \in Nat
      /\ DOMAIN s = 1..Len(s) /\ DOMAIN t = 1..Len(t) /\ DOMAIN r = 1..Len(s) + Len(t)
      /\ \A i \in 1..Len(s) : r[i] = s[i]
      /\ \A i \in 1..Len(t) : r[Len(s) + i] = t[i]
  BY JoinParts
<1>2. ASSUME NEW i \in DOMAIN r, r[i][1] = "incr"
      PROVE  \E n \in DOMAIN r : n > i /\ r[n] = <<"expire", r[i][2]>>
  <2>1. CASE i <= Len(s)
    <3>1. i \in DOMAIN s /\ r[i] = s[i]
      BY <1>1, <2>1
    <3>2. PICK n \in DOMAIN s : n > i /\ s[n] = <<"expire", s[i][2]>>
      BY <1>2, <3>1 DEF Paired
    <3>3. n \in DOMAIN r /\ r[n] = s[n]
      BY <1>1, <3>2
    <3> QED BY <3>1, <3>2, <3>3
  <2>2. CASE ~(i <= Len(s))
    <3> DEFINE m == i - Len(s)
    <3>1. m \in DOMAIN t /\ r[i] = t[m]
      <4>1. m \in 1..Len(t) /\ Len(s) + m = i
        BY <1>1, <2>2
      <4> QED BY <1>1, <4>1
    <3>2. PICK n \in DOMAIN t : n > m /\ t[n] = <<"expire", t[m][2]>>
      BY <1>2, <3>1 DEF Paired
    <3>3. Len(s) + n \in DOMAIN r /\ r[Len(s) + n] = t[n] /\ Len(s) + n > i
      BY <1>1, <2>2, <3>2
    <3> QED BY <3>1, <3>2, <3>3
  <2> QED BY <2>1, <2>2
<1> QED BY <1>1, <1>2 DEF Paired

LEMMA BothPaired ==
    ASSUME NEW k \in Counters
    PROVE  Both(k) \in Seq(Commands) /\ Paired(Both(k))
<1>1. Both(k) = <<<<"incr", k>>, <<"expire", k>>>> /\ Both(k) \in Seq(Commands)
  BY BothType DEF Both
<1>2. DOMAIN Both(k) = {1, 2} /\ Both(k)[1] = <<"incr", k>> /\ Both(k)[2] = <<"expire", k>>
  BY <1>1
<1>3. Both(k)[1][2] = k /\ Both(k)[2][1] # "incr"
  BY <1>2
<1> QED BY <1>1, <1>2, <1>3 DEF Paired

LEMMA TwoBoth ==
    ASSUME NEW a \in Counters, NEW b \in Counters, a # b
    PROVE  /\ Single(Both(a)) /\ Single(Both(a) \o Both(b))
           /\ \A s : Has(Both(a), s) => a = <<"attempts", s>>
           /\ \A s : Has(Both(a) \o Both(b), s) => a = <<"attempts", s>> \/ b = <<"attempts", s>>
<1> DEFINE q == Both(a) \o Both(b)
<1>1. /\ DOMAIN Both(a) = {1, 2} /\ Both(a)[1] = <<"incr", a>> /\ Both(a)[2] = <<"expire", a>>
  BY DEF Both
<1>2. \A x, y \in Seq(Commands) : Len(x) = 2 /\ Len(y) = 2 =>
        /\ DOMAIN (x \o y) = {1, 2, 3, 4} /\ (x \o y)[1] = x[1] /\ (x \o y)[2] = x[2]
        /\ (x \o y)[3] = y[1] /\ (x \o y)[4] = y[2]
  <2> SUFFICES ASSUME NEW x \in Seq(Commands), NEW y \in Seq(Commands), Len(x) = 2, Len(y) = 2
               PROVE  /\ DOMAIN (x \o y) = {1, 2, 3, 4} /\ (x \o y)[1] = x[1]
                      /\ (x \o y)[2] = x[2] /\ (x \o y)[3] = y[1] /\ (x \o y)[4] = y[2]
    OBVIOUS
  <2> DEFINE z == x \o y
  <2>1. /\ DOMAIN z = 1..Len(x) + Len(y)
        /\ \A i \in 1..Len(x) : z[i] = x[i]
        /\ \A i \in 1..Len(y) : z[Len(x) + i] = y[i]
    BY JoinParts
  <2> HIDE DEF z
  <2>2. \A i \in 1..2 : z[i] = x[i] /\ z[2 + i] = y[i]
    BY <2>1
  <2>3. DOMAIN z = 1..4
    BY <2>1
  <2>4. z[1] = x[1] /\ z[2] = x[2] /\ z[3] = y[1] /\ z[4] = y[2]
    <3>1. 1 \in 1..2 /\ 2 \in 1..2 /\ 2 + 1 = 3 /\ 2 + 2 = 4
      OBVIOUS
    <3> QED BY <2>2, <3>1
  <2>5. DOMAIN z = {1, 2, 3, 4}
    BY <2>3
  <2> QED BY <2>4, <2>5 DEF z
<1>3. /\ DOMAIN q = {1, 2, 3, 4} /\ q[1] = <<"incr", a>> /\ q[2] = <<"expire", a>>
      /\ q[3] = <<"incr", b>> /\ q[4] = <<"expire", b>>
  BY <1>2, BothType
<1>4. <<"incr", a>> # <<"incr", b>>
  OBVIOUS
<1>5. /\ <<"incr", a>>[1] = "incr" /\ <<"expire", a>>[1] = "expire" /\ <<"incr", b>>[1] = "incr"
      /\ <<"expire", b>>[1] = "expire"
  OBVIOUS
<1>6. Single(Both(a))
  <2> SUFFICES ASSUME NEW i \in {1, 2}, NEW n \in {1, 2},
                      Both(a)[i][1] = "incr", Both(a)[i] = Both(a)[n]
               PROVE  i = n
    BY <1>1 DEF Single
  <2> QED BY <1>1, <1>5
<1>7. Single(q)
  <2> SUFFICES ASSUME NEW i \in {1, 2, 3, 4}, NEW n \in {1, 2, 3, 4}, q[i][1] = "incr", q[i] = q[n]
               PROVE  i = n
    BY <1>3 DEF Single
  <2> HIDE DEF q
  <2>1. i \in {1, 3} /\ n \in {1, 3}
    BY <1>3, <1>5
  <2> QED BY <1>3, <1>4, <2>1
<1>8. ASSUME NEW s
      PROVE  /\ Raise(s)[1] = "incr" /\ Raise(s)[2] = <<"attempts", s>>
             /\ Raise(s) = <<"incr", a>> => a = <<"attempts", s>>
             /\ Raise(s) = <<"incr", b>> => b = <<"attempts", s>>
  BY DEF Raise
<1>9. ASSUME NEW s, Has(Both(a), s)
      PROVE  a = <<"attempts", s>>
  <2>1. PICK i \in {1, 2} : Both(a)[i] = Raise(s)
    BY <1>1, <1>9 DEF Has
  <2> QED BY <1>1, <1>5, <1>8, <2>1
<1>10. ASSUME NEW s, Has(q, s)
       PROVE  a = <<"attempts", s>> \/ b = <<"attempts", s>>
  <2>1. PICK i \in {1, 2, 3, 4} : q[i] = Raise(s)
    BY <1>3, <1>10 DEF Has
  <2> HIDE DEF q
  <2> QED BY <1>3, <1>5, <1>8, <2>1
<1> QED BY <1>6, <1>7, <1>9, <1>10

LEMMA OneCommand ==
    ASSUME NEW x \in Commands, x[1] # "incr"
    PROVE  /\ <<x>> \in Seq(Commands) /\ Sound(<<x>>) /\ \A s : ~Has(<<x>>, s)
           /\ <<x, x>> \in Seq(Commands) /\ Sound(<<x, x>>) /\ \A s : ~Has(<<x, x>>, s)
<1>1. \A s : Raise(s)[1] = "incr"
  BY DEF Raise
<1> QED BY <1>1 DEF Paired, Single, Sound, Has

LEMMA ExpireSound ==
    ASSUME NEW k \in Counters
    PROVE  /\ <<<<"expire", k>>>> \in Seq(Commands) /\ Sound(<<<<"expire", k>>>>)
           /\ k \in About(<<<<"expire", k>>>>) /\ \A s : ~Has(<<<<"expire", k>>>>, s)
<1> DEFINE x == <<"expire", k>>
<1>1. x \in Commands /\ x[1] = "expire" /\ x[2] = k
  BY CommandsOf
<1>2. DOMAIN <<x>> = {1} /\ <<x>>[1] = x
  OBVIOUS
<1>3. k \in About(<<x>>)
  BY <1>1, <1>2 DEF About
<1> QED BY <1>1, <1>3, OneCommand

LEMMA RecordsSound ==
    ASSUME NEW c \in Callers, NEW stage
    PROVE  /\ Sound(OwnRecord(c, stage)) /\ Sound(RouteRecord(c))
           /\ \A s : Has(RouteRecord(c), s) => s \in {AccountOf[c], IpOf[c]}
           /\ \A s : Has(OwnRecord(c, stage), s) =>
                 /\ s \in {AccountOf[c], IpOf[c]} \/ (s = NoIp /\ stage = "account")
                 /\ stage \in {"ip", "account"}
<1>1. ASSUME NEW a \in Accounts, NEW ip \in Ips
      PROVE  Sound(Attempt(a, ip)) /\ \A s : Has(Attempt(a, ip), s) => s \in {a, ip}
  <2>1. /\ <<"attempts", a>> \in Counters /\ <<"attempts", ip>> \in Counters
        /\ <<"attempts", a>> # <<"attempts", ip>>
    BY AttemptsOf, ConstantsAssumption
  <2> QED BY <2>1, TwoBoth, BothPaired, PairedJoin DEF Attempt, Sound
<1>2. ASSUME NEW ip \in Ips
      PROVE  /\ Sound(Both(<<"attempts", ip>>))
             /\ \A s : Has(Both(<<"attempts", ip>>), s) => s = ip
  <2>1. <<"attempts", ip>> \in Counters /\ <<"attempts", AccountOf[c]>> \in Counters
        /\ <<"attempts", ip>> # <<"attempts", AccountOf[c]>>
    BY AttemptsOf, CallersAre, ConstantsAssumption
  <2> QED BY <2>1, TwoBoth, BothPaired DEF Sound
<1>3. /\ AccountOf[c] \in Accounts /\ IpOf[c] \in Ips /\ NoIp \in Ips
  BY CallersAre
<1>4. CASE stage = "ip"
  BY <1>1, <1>2, <1>3, <1>4, NothingToDo DEF OwnRecord, RouteRecord
<1>5. CASE stage = "account"
  BY <1>1, <1>3, <1>5, NothingToDo DEF OwnRecord, RouteRecord
<1>6. CASE stage \notin {"ip", "account"}
  <2>1. OwnRecord(c, stage) = <<>>
    BY <1>6 DEF OwnRecord
  <2> QED BY <1>1, <1>3, <2>1, NothingToDo DEF RouteRecord
<1> QED BY <1>4, <1>5, <1>6

LEMMA AboutTail ==
    ASSUME NEW seq \in Seq(Commands), seq # <<>>
    PROVE  /\ Tail(seq) \in Seq(Commands) /\ Head(seq) \in Commands /\ Head(seq) = seq[1]
           /\ Head(seq)[1] = "set" => About(seq) \subseteq About(Tail(seq))
           /\ About(seq) \subseteq About(Tail(seq)) \union {Head(seq)[2]}
           /\ About(Tail(seq)) \subseteq About(seq)
           /\ Head(seq)[1] # "set" => Head(seq)[2] \in About(seq)
<1> DEFINE rest == Tail(seq)
<1>1. /\ rest \in Seq(Commands) /\ Len(rest) = Len(seq) - 1 /\ Len(seq) \in Nat \ {0}
      /\ DOMAIN seq = 1..Len(seq) /\ DOMAIN rest = 1..Len(seq) - 1 /\ seq[1] \in Commands
      /\ Head(seq) = seq[1] /\ \A i \in 1..Len(seq) - 1 : rest[i] = seq[i + 1]
  OBVIOUS
<1>2. ASSUME NEW k \in About(seq)
      PROVE  k \in About(rest) \/ (seq[1][1] # "set" /\ k = seq[1][2])
  <2>1. PICK i \in 1..Len(seq) : seq[i][1] # "set" /\ k = seq[i][2]
    BY <1>1 DEF About
  <2>2. CASE i = 1
    BY <2>1, <2>2
  <2>3. CASE i # 1
    <3>1. i - 1 \in 1..Len(seq) - 1 /\ rest[i - 1] = seq[i]
      BY <1>1, <2>3
    <3> QED BY <1>1, <2>1, <3>1 DEF About
  <2> QED BY <2>2, <2>3
<1>3. ASSUME NEW k \in About(rest)
      PROVE  k \in About(seq)
  <2>1. PICK i \in 1..Len(seq) - 1 : rest[i][1] # "set" /\ k = rest[i][2]
    BY <1>1 DEF About
  <2>2. i + 1 \in 1..Len(seq) /\ rest[i] = seq[i + 1]
    BY <1>1
  <2> QED BY <1>1, <2>1, <2>2 DEF About
<1>4. seq[1][1] # "set" => seq[1][2] \in About(seq)
  BY <1>1 DEF About
<1> QED BY <1>1, <1>2, <1>3, <1>4

LEMMA PairedTail ==
    ASSUME NEW seq \in Seq(Commands), seq # <<>>, Paired(seq)
    PROVE  /\ Paired(Tail(seq))
           /\ Head(seq)[1] = "incr" => Head(seq)[2] \in About(Tail(seq))
<1> DEFINE rest == Tail(seq)
<1>1. /\ rest \in Seq(Commands) /\ Len(rest) = Len(seq) - 1 /\ Len(seq) \in Nat \ {0}
      /\ DOMAIN seq = 1..Len(seq) /\ DOMAIN rest = 1..Len(seq) - 1
      /\ Head(seq) = seq[1] /\ \A i \in 1..Len(seq) - 1 : rest[i] = seq[i + 1]
  OBVIOUS
<1>2. ASSUME NEW i \in 1..Len(seq) - 1, rest[i][1] = "incr"
      PROVE  \E n \in DOMAIN rest : n > i /\ rest[n] = <<"expire", rest[i][2]>>
  <2>1. i + 1 \in DOMAIN seq /\ seq[i + 1][1] = "incr" /\ rest[i] = seq[i + 1]
    BY <1>1, <1>2
  <2>2. PICK n \in DOMAIN seq : n > i + 1 /\ seq[n] = <<"expire", seq[i + 1][2]>>
    BY <2>1 DEF Paired
  <2>3. n - 1 \in 1..Len(seq) - 1 /\ rest[n - 1] = seq[n] /\ n - 1 > i
    BY <1>1, <2>2
  <2> QED BY <1>1, <2>1, <2>2, <2>3
<1>3. ASSUME seq[1][1] = "incr"
      PROVE  seq[1][2] \in About(rest)
  <2>1. 1 \in DOMAIN seq
    BY <1>1
  <2>2. PICK n \in DOMAIN seq : n > 1 /\ seq[n] = <<"expire", seq[1][2]>>
    BY <1>3, <2>1 DEF Paired
  <2>3. n - 1 \in DOMAIN rest /\ rest[n - 1] = <<"expire", seq[1][2]>>
    BY <1>1, <2>2
  <2>4. rest[n - 1][1] # "set" /\ rest[n - 1][2] = seq[1][2]
    BY <2>3
  <2> QED BY <2>3, <2>4 DEF About
<1> QED BY <1>1, <1>2, <1>3 DEF Paired

LEMMA BlockTail ==
    ASSUME NEW q \in Seq(Commands), q # <<>>, Single(q)
    PROVE  /\ Single(Tail(q))
           /\ \A s : Has(q, s) <=> (Head(q) = Raise(s) \/ Has(Tail(q), s))
           /\ \A s : Head(q) = Raise(s) => ~Has(Tail(q), s)
<1> DEFINE r == Tail(q)
<1>1. /\ Len(q) \in Nat \ {0} /\ DOMAIN q = 1..Len(q) /\ DOMAIN r = 1..Len(q) - 1
      /\ Head(q) = q[1] /\ \A i \in 1..Len(q) - 1 : r[i] = q[i + 1]
  OBVIOUS
<1>2. Single(r)
  <2> SUFFICES ASSUME NEW i \in DOMAIN r, NEW n \in DOMAIN r, r[i][1] = "incr", r[i] = r[n]
               PROVE  i = n
    BY DEF Single
  <2>1. i + 1 \in DOMAIN q /\ n + 1 \in DOMAIN q /\ r[i] = q[i + 1] /\ r[n] = q[n + 1]
    BY <1>1
  <2>2. i + 1 = n + 1
    BY <2>1 DEF Single
  <2> QED BY <1>1, <2>2
<1>3. ASSUME NEW s
      PROVE  /\ Has(r, s) => \E i \in DOMAIN q : i > 1 /\ q[i] = Raise(s)
             /\ \A i \in DOMAIN q : i > 1 /\ q[i] = Raise(s) => Has(r, s)
  <2>1. ASSUME NEW i \in DOMAIN r, r[i] = Raise(s)
        PROVE  \E n \in DOMAIN q : n > 1 /\ q[n] = Raise(s)
    <3>1. i + 1 \in DOMAIN q /\ i + 1 > 1 /\ q[i + 1] = Raise(s)
      BY <1>1, <2>1
    <3> QED BY <3>1
  <2>2. ASSUME NEW i \in DOMAIN q, i > 1, q[i] = Raise(s)
        PROVE  Has(r, s)
    <3>1. i - 1 \in DOMAIN r /\ r[i - 1] = q[i]
      BY <1>1, <2>2
    <3> QED BY <2>2, <3>1 DEF Has
  <2> QED BY <2>1, <2>2 DEF Has
<1>4. ASSUME NEW s
      PROVE  Has(q, s) <=> (q[1] = Raise(s) \/ Has(r, s))
  <2>1. 1 \in DOMAIN q /\ \A i \in DOMAIN q : i = 1 \/ i > 1
    BY <1>1
  <2> QED BY <1>3, <2>1 DEF Has
<1>5. ASSUME NEW s, q[1] = Raise(s)
      PROVE  ~Has(r, s)
  <2>1. 1 \in DOMAIN q /\ q[1][1] = "incr"
    BY <1>1, <1>5 DEF Raise
  <2>2. ASSUME NEW i \in DOMAIN q, i > 1
        PROVE  q[i] # Raise(s)
    BY <1>1, <1>5, <2>1, <2>2 DEF Single
  <2> QED BY <1>3, <2>2
<1> QED BY <1>1, <1>2, <1>4, <1>5

-----------------------------------------------------------------------------
(* What becomes of a job.                                                  *)

Shape(j) ==
    /\ Sound(j.todo) /\ Sound(j.late)
    /\ j.todo = <<>> => j.late = <<>>
    /\ j.at = "idle" => j.todo = <<>>

\* What may be settled: a job at work for a caller, or one that has only its caller.
Working(j) ==
    /\ j \in Jobs /\ j.who \in Callers
    /\ j.at = "idle" => j.todo = <<>> /\ j.late = <<>>

\* How often a job will still raise the attempts of s.
Owed(j, s) == (IF Has(j.todo, s) THEN 1 ELSE 0) + (IF Has(j.late, s) THEN 1 ELSE 0)

LEMMA IdleType ==
    ASSUME NEW verdict \in Stages \union Verdicts
    PROVE  /\ Idle(verdict) \in Jobs /\ Shape(Idle(verdict))
           /\ Idle(verdict).at = "idle" /\ Idle(verdict).who = Nobody
           /\ Idle(verdict).todo = <<>> /\ Idle(verdict).late = <<>>
BY NothingToDo DEF Idle, Jobs, Shape

LEMMA SettledParts ==
    ASSUME NEW j, Working(j)
    PROVE  /\ Settled(j) \in Jobs
           /\ (Settled(j).at = "idle") <=> (Settled(j).who = Nobody)
           /\ Settled(j).who \in {j.who, Nobody}
           /\ Settled(j).at = "idle" => Settled(j).todo = <<>>
           /\ j.todo # <<>> => Settled(j) = j
           /\ j.todo = <<>> => Settled(j).todo = j.late /\ Settled(j).late = <<>>
<1> USE DEF Working
<1>1. /\ j.who # Nobody /\ j.who \in Callers /\ "idle" \notin Stages
      /\ j.next \in Stages \union Verdicts
  BY ConstantsAssumption DEF Stages, Jobs
<1>2. CASE j.todo # <<>>
  <2>1. Settled(j) = j
    BY <1>2 DEF Settled
  <2> QED BY <2>1, <1>1, <1>2
<1>3. CASE j.todo = <<>> /\ j.late # <<>>
  <2>1. Settled(j) = [j EXCEPT !.todo = j.late, !.late = <<>>]
    BY <1>3 DEF Settled
  <2> QED BY <2>1, <1>1, <1>3 DEF Jobs
<1>4. CASE j.todo = <<>> /\ j.late = <<>> /\ j.next \in Stages
  <2>1. Settled(j) = [j EXCEPT !.at = j.next, !.seen = <<>>]
    BY <1>4 DEF Settled
  <2>2. Settled(j) = [who |-> j.who, at |-> j.next, todo |-> j.todo, late |-> j.late,
                      next |-> j.next, seen |-> <<>>, by |-> j.by]
    BY <2>1 DEF Jobs
  <2>3. Settled(j) \in Jobs
    <3>1. j.next \in Stages \union {"idle"} /\ j.next \in Stages \union Verdicts
      BY <1>4
    <3>2. <<>> \in Seq(Nat)
      OBVIOUS
    <3> QED BY <2>2, <3>1, <3>2 DEF Jobs
  <2> QED BY <2>2, <2>3, <1>1, <1>4
<1>5. CASE j.todo = <<>> /\ j.late = <<>> /\ j.next \notin Stages
  <2>1. Settled(j) = Idle(j.next)
    BY <1>5 DEF Settled
  <2> QED BY <2>1, <1>1, <1>5, IdleType
<1> QED BY <1>2, <1>3, <1>4, <1>5

LEMMA SettledShape ==
    ASSUME NEW j, Working(j), Sound(j.todo), Sound(j.late)
    PROVE  Shape(Settled(j))
<1>1. Sound(<<>>)
  BY NothingToDo
<1>2. CASE j.todo # <<>>
  BY <1>2, SettledParts DEF Shape, Working
<1>3. CASE j.todo = <<>>
  <2>1. /\ Settled(j).todo = j.late /\ Settled(j).late = <<>>
        /\ Settled(j).at = "idle" => Settled(j).todo = <<>>
    BY <1>3, SettledParts
  <2>2. Sound(Settled(j).todo) /\ Sound(Settled(j).late)
    BY <1>1, <2>1
  <2> QED BY <2>1, <2>2 DEF Shape
<1> QED BY <1>2, <1>3

LEMMA SettledBy ==
    ASSUME NEW j, Working(j), NEW k
    PROVE  /\ k \in Settled(j).by => k \in j.by
           /\ Settled(j).at = "idle" => Settled(j).by = {}
<1>1. j \in Jobs /\ "idle" \notin Stages
  BY DEF Working, Stages
<1>2. CASE j.todo # <<>>
  BY <1>2, SettledParts DEF Settled, Working
<1>3. CASE j.todo = <<>> /\ j.late # <<>>
  <2>1. Settled(j) = [j EXCEPT !.todo = j.late, !.late = <<>>]
    BY <1>3 DEF Settled
  <2> QED BY <2>1, <1>1, <1>3 DEF Jobs, Working
<1>4. CASE j.todo = <<>> /\ j.late = <<>> /\ j.next \in Stages
  <2>1. Settled(j) = [j EXCEPT !.at = j.next, !.seen = <<>>]
    BY <1>4 DEF Settled
  <2> QED BY <2>1, <1>1, <1>4 DEF Jobs
<1>5. CASE j.todo = <<>> /\ j.late = <<>> /\ j.next \notin Stages
  <2>1. Settled(j) = Idle(j.next)
    BY <1>5 DEF Settled
  <2> QED BY <2>1 DEF Idle
<1> QED BY <1>2, <1>3, <1>4, <1>5

LEMMA OwedTypes ==
    ASSUME NEW j, NEW s
    PROVE  /\ Owed(j, s) \in 0..2 /\ Owed(j, s) \in Nat
           /\ ~Has(j.todo, s) /\ ~Has(j.late, s) => Owed(j, s) = 0
BY DEF Owed

LEMMA OwedSettled ==
    ASSUME NEW j, Working(j), NEW s
    PROVE  Owed(Settled(j), s) = Owed(j, s)
<1>1. CASE j.todo # <<>>
  BY <1>1, SettledParts
<1>2. CASE j.todo = <<>>
  <2>1. Settled(j).todo = j.late /\ Settled(j).late = <<>>
    BY <1>2, SettledParts
  <2>2. ~Has(<<>>, s)
    BY NothingToDo
  <2> QED BY <1>2, <2>1, <2>2 DEF Owed
<1> QED BY <1>1, <1>2

LEMMA Becoming ==
    ASSUME TypeOK, NEW w \in Workers, NEW j, Working(j), Becomes(w, j)
    PROVE  /\ job' \in [Workers -> Jobs]
           /\ \A v \in Workers : (job'[v].at = "idle") <=> (job'[v].who = Nobody)
           /\ job'[w] = Settled(j) /\ \A v \in Workers \ {w} : job'[v] = job[v]
           /\ served' \in [Counters -> Nat]
<1>1. job' = [job EXCEPT ![w] = Settled(j)]
  BY DEF Becomes
<1>2. served' \in [Counters -> Nat]
  BY DEF Becomes, TypeOK
<1> QED BY <1>1, <1>2, SettledParts DEF TypeOK

-----------------------------------------------------------------------------
(* The invariant.                                                          *)

\* The workers at a request that counter k has counted and let through.
In(k) == {w \in Workers : k \in job[w].by}

IsWindow(k) == k \in Counters /\ k[1] \in Windows

\* What makes WithinWindow inductive: all it counts was counted by the counter.
Counted ==
    \A k \in Counters : k[1] \in Windows =>
        /\ served[k] + Cardinality(In(k)) <= count[k]
        /\ served[k] + Cardinality(In(k)) <= Limit[k[1]]

\* The workers that will raise the attempts of s, in this block and in the next.
Soon(s)  == {w \in Workers : Has(job[w].todo, s)}
Later(s) == {w \in Workers : Has(job[w].late, s)}

\* What makes AttemptsAreRefusals inductive: the attempts to come are counted, too.
Ledger ==
    \A s \in Accounts \union Ips :
        count[<<"attempts", s>>] + Cardinality(Soon(s)) + Cardinality(Later(s)) <= 2 * refused[s]

Inv == TypeOK /\ (\A w \in Workers : Shape(job[w])) /\ StuckOnlyIfTorn /\ Counted /\ Ledger

\* A worker more or less in a set of workers.
LEMMA Tally ==
    ASSUME NEW X, NEW Y, X \subseteq Workers, Y \subseteq Workers, NEW w, X \ {w} = Y \ {w}
    PROVE  /\ Cardinality(X) \in Nat /\ Cardinality(Y) \in Nat
           /\ Cardinality(Y) = Cardinality(X) + (IF w \in Y THEN 1 ELSE 0)
                                              - (IF w \in X THEN 1 ELSE 0)
<1>1. IsFiniteSet(X) /\ IsFiniteSet(Y)
  BY ConstantsAssumption, FS_Subset
<1>2. Cardinality(X) \in Nat /\ Cardinality(Y) \in Nat
  BY <1>1, FS_CardinalityType
<1>3. Cardinality(X \ {w}) = IF w \in X THEN Cardinality(X) - 1 ELSE Cardinality(X)
  BY <1>1, FS_RemoveElement
<1>4. Cardinality(Y \ {w}) = IF w \in Y THEN Cardinality(Y) - 1 ELSE Cardinality(Y)
  BY <1>1, FS_RemoveElement
<1> QED BY <1>2, <1>3, <1>4

\* What a step of w has to show of the counters it leaves without a time to live.
LEMMA StuckStep ==
    ASSUME Inv, NEW w \in Workers, NEW j, Working(j), Becomes(w, j),
           \A k \in Counters : count'[k] > 0 /\ k \notin ttl' =>
               \/ k \in torn' \/ k \in About(j.todo)
               \/ k \notin torn /\ count[k] > 0 /\ k \notin ttl /\ k \notin About(job[w].todo)
    PROVE  StuckOnlyIfTorn'
<1> SUFFICES ASSUME NEW k \in Counters, count'[k] > 0, k \notin ttl', k \notin torn'
             PROVE  \E v \in Workers : k \in About(job'[v].todo)
  BY DEF StuckOnlyIfTorn, Pending
<1>1. job'[w] = Settled(j) /\ \A v \in Workers \ {w} : job'[v] = job[v]
  BY Becoming DEF Inv
<1>2. CASE k \in About(j.todo)
  <2>1. j.todo # <<>>
    BY <1>2 DEF About
  <2> QED BY <1>1, <1>2, <2>1, SettledParts
<1>3. CASE k \notin torn /\ count[k] > 0 /\ k \notin ttl /\ k \notin About(job[w].todo)
  <2>1. PICK v \in Workers : k \in About(job[v].todo)
    BY <1>3 DEF Inv, StuckOnlyIfTorn, Pending
  <2> QED BY <1>1, <1>3, <2>1
<1> QED BY <1>2, <1>3

LEMMA ShapeStep ==
    ASSUME Inv, NEW w \in Workers, NEW j, Working(j), Becomes(w, j),
           Sound(j.todo), Sound(j.late)
    PROVE  \A v \in Workers : Shape(job'[v])
BY Becoming, SettledShape DEF Inv

LEMMA TypeStep ==
    ASSUME TypeOK, NEW w \in Workers, NEW j, Working(j), Becomes(w, j),
           count' \in [Counters -> Nat], ttl' \subseteq Counters, torn' \subseteq Counters,
           print' \in [Accounts -> Prints \union {NoPrint}],
           refused' \in [Accounts \union Ips -> Nat],
           left' \in 0..MaxRequests, crashes' \in 0..MaxCrashes, faults' \in 0..MaxFaults
    PROVE  TypeOK'
BY Becoming DEF TypeOK

LEMMA InTypes ==
    ASSUME Inv, NEW k, IsWindow(k)
    PROVE  /\ served[k] \in Nat /\ Cardinality(In(k)) \in Nat /\ count[k] \in Nat
           /\ Limit[k[1]] \in Nat
BY ConstantsAssumption, Tally DEF In, Inv, TypeOK, IsWindow

\* What a step of w adds to the requests of a window.
LEMMA WindowStep ==
    ASSUME Inv, NEW w \in Workers, NEW j, Working(j), Becomes(w, j), NEW k, IsWindow(k)
    PROVE  /\ served'[k] + Cardinality(In(k)') <= served[k] + Cardinality(In(k))
                 + (IF k \in j.by /\ k \notin job[w].by THEN 1 ELSE 0)
           /\ served'[k] \in Nat /\ Cardinality(In(k)') \in Nat
<1> DEFINE X == In(k)
           Y == {v \in Workers : k \in job'[v].by}
<1>1. /\ job'[w] = Settled(j) /\ \A v \in Workers \ {w} : job'[v] = job[v]
      /\ served' \in [Counters -> Nat]
  BY Becoming DEF Inv
<1>2. In(k)' = Y /\ X \subseteq Workers /\ Y \subseteq Workers /\ X \ {w} = Y \ {w}
  BY <1>1 DEF In
<1>3. /\ Cardinality(X) \in Nat /\ Cardinality(Y) \in Nat
      /\ Cardinality(Y) = Cardinality(X) + (IF w \in Y THEN 1 ELSE 0) - (IF w \in X THEN 1 ELSE 0)
  BY <1>2, Tally
<1>4. (w \in Y) <=> (k \in Settled(j).by)
  BY <1>1
<1>5. (w \in X) <=> (k \in job[w].by)
  BY DEF In
<1>6. k \in Counters /\ served[k] \in Nat /\ served'[k] \in Nat
  BY <1>1 DEF IsWindow, Inv, TypeOK
<1>7. CASE Settled(j).at = "idle" /\ j.next = "served"
  <2>1. served'[k] = served[k] + (IF k \in j.by THEN 1 ELSE 0)
    BY <1>6, <1>7 DEF Becomes
  <2>2. w \notin Y
    BY <1>4, <1>7, SettledBy
  <2> QED BY <1>2, <1>3, <1>5, <1>6, <2>1, <2>2
<1>8. CASE ~(Settled(j).at = "idle" /\ j.next = "served")
  <2>1. served'[k] = served[k]
    BY <1>8 DEF Becomes
  <2>2. w \in Y => k \in j.by
    BY <1>4, SettledBy
  <2> QED BY <1>2, <1>3, <1>5, <1>6, <2>1, <2>2
<1> QED BY <1>7, <1>8

LEMMA CountedStep ==
    ASSUME Inv, NEW w \in Workers, NEW j, Working(j), Becomes(w, j),
           count' \in [Counters -> Nat],
           \A k \in Counters : k[1] \in Windows =>
              /\ count[k] <= count'[k]
              /\ k \in j.by /\ k \notin job[w].by =>
                    count[k] + 1 <= count'[k] /\ count[k] + 1 <= Limit[k[1]]
    PROVE  Counted'
<1> SUFFICES ASSUME NEW k \in Counters, k[1] \in Windows
             PROVE  /\ served'[k] + Cardinality(In(k)') <= count'[k]
                    /\ served'[k] + Cardinality(In(k)') <= Limit[k[1]]
  BY DEF Counted
<1> DEFINE one == IF k \in j.by /\ k \notin job[w].by THEN 1 ELSE 0
           old == served[k] + Cardinality(In(k))
           new == served'[k] + Cardinality(In(k)')
<1>1. IsWindow(k)
  BY DEF IsWindow
<1>2. new <= old + one /\ new \in Nat /\ old \in Nat
  BY <1>1, WindowStep, InTypes
<1>3. old <= count[k] /\ old <= Limit[k[1]] /\ count[k] <= count'[k]
  BY DEF Counted, Inv
<1>4. count[k] \in Nat /\ count'[k] \in Nat /\ Limit[k[1]] \in Nat
  BY <1>1, InTypes
<1>5. CASE one = 0
  <2> HIDE DEF one, old, new
  <2>1. new <= count'[k] /\ new <= Limit[k[1]]
    BY <1>2, <1>3, <1>4, <1>5
  <2> QED BY <2>1 DEF new
<1>6. CASE one # 0
  <2>1. count[k] + 1 <= count'[k] /\ count[k] + 1 <= Limit[k[1]] /\ one = 1
    BY <1>6
  <2> HIDE DEF one, old, new
  <2>2. new <= count'[k] /\ new <= Limit[k[1]]
    BY <1>2, <1>3, <1>4, <2>1
  <2> QED BY <2>2 DEF new
<1> QED BY <1>5, <1>6

LEMMA LedgerStep ==
    ASSUME Inv, NEW w \in Workers, NEW j, Working(j), Becomes(w, j),
           count' \in [Counters -> Nat], refused' \in [Accounts \union Ips -> Nat],
           \A s \in Accounts \union Ips :
              count'[<<"attempts", s>>] + Owed(j, s) + 2 * refused[s]
                <= count[<<"attempts", s>>] + Owed(job[w], s) + 2 * refused'[s]
    PROVE  Ledger'
<1> SUFFICES ASSUME NEW s \in Accounts \union Ips
             PROVE  count'[<<"attempts", s>>] + Cardinality(Soon(s)') + Cardinality(Later(s)')
                      <= 2 * refused'[s]
  BY DEF Ledger
<1>1. job'[w] = Settled(j) /\ \A v \in Workers \ {w} : job'[v] = job[v]
  BY Becoming DEF Inv
<1>2. Soon(s) \ {w} = Soon(s)' \ {w} /\ Later(s) \ {w} = Later(s)' \ {w}
  BY <1>1 DEF Soon, Later
<1>3. /\ Soon(s) \subseteq Workers /\ Soon(s)' \subseteq Workers
      /\ Later(s) \subseteq Workers /\ Later(s)' \subseteq Workers
  BY DEF Soon, Later
<1>4. /\ Cardinality(Soon(s)) \in Nat /\ Cardinality(Soon(s)') \in Nat
      /\ Cardinality(Soon(s)') = Cardinality(Soon(s)) + (IF w \in Soon(s)' THEN 1 ELSE 0)
                                                      - (IF w \in Soon(s) THEN 1 ELSE 0)
  BY <1>2, <1>3, Tally
<1>5. /\ Cardinality(Later(s)) \in Nat /\ Cardinality(Later(s)') \in Nat
      /\ Cardinality(Later(s)') = Cardinality(Later(s)) + (IF w \in Later(s)' THEN 1 ELSE 0)
                                                        - (IF w \in Later(s) THEN 1 ELSE 0)
  BY <1>2, <1>3, Tally
<1>6. Owed(job[w], s) = (IF w \in Soon(s) THEN 1 ELSE 0) + (IF w \in Later(s) THEN 1 ELSE 0)
  BY DEF Owed, Soon, Later
<1>7. Owed(j, s) = (IF w \in Soon(s)' THEN 1 ELSE 0) + (IF w \in Later(s)' THEN 1 ELSE 0)
  <2>1. Owed(j, s) = Owed(job'[w], s)
    BY <1>1, OwedSettled
  <2> QED BY <2>1 DEF Owed, Soon, Later
<1>8. /\ count[<<"attempts", s>>] \in Nat /\ count'[<<"attempts", s>>] \in Nat
      /\ refused[s] \in Nat /\ refused'[s] \in Nat
  BY AttemptsOf DEF Inv, TypeOK
<1>9. count[<<"attempts", s>>] + Cardinality(Soon(s)) + Cardinality(Later(s)) <= 2 * refused[s]
  BY DEF Inv, Ledger
<1>10. count'[<<"attempts", s>>] + Owed(j, s) + 2 * refused[s]
         <= count[<<"attempts", s>>] + Owed(job[w], s) + 2 * refused'[s]
  OBVIOUS
<1> HIDE DEF Soon, Later, Owed
<1> QED BY <1>4, <1>5, <1>6, <1>7, <1>8, <1>9, <1>10

\* What a step of a worker has to show to keep the invariant.
LEMMA WorkerStep ==
    ASSUME Inv, NEW w \in Workers, NEW j, Working(j), Becomes(w, j),
           Sound(j.todo), Sound(j.late),
           count' \in [Counters -> Nat], ttl' \subseteq Counters, torn' \subseteq Counters,
           print' \in [Accounts -> Prints \union {NoPrint}],
           refused' \in [Accounts \union Ips -> Nat],
           left' \in 0..MaxRequests, crashes' \in 0..MaxCrashes, faults' \in 0..MaxFaults,
           \A k \in Counters : count'[k] > 0 /\ k \notin ttl' =>
               \/ k \in torn' \/ k \in About(j.todo)
               \/ k \notin torn /\ count[k] > 0 /\ k \notin ttl /\ k \notin About(job[w].todo),
           \A k \in Counters : k[1] \in Windows =>
              /\ count[k] <= count'[k]
              /\ k \in j.by /\ k \notin job[w].by =>
                    count[k] + 1 <= count'[k] /\ count[k] + 1 <= Limit[k[1]],
           \A s \in Accounts \union Ips :
              count'[<<"attempts", s>>] + Owed(j, s) + 2 * refused[s]
                <= count[<<"attempts", s>>] + Owed(job[w], s) + 2 * refused'[s]
    PROVE  Inv'
<1>1. TypeOK'
  BY TypeStep DEF Inv
<1>2. \A v \in Workers : Shape(job'[v])
  BY ShapeStep
<1>3. StuckOnlyIfTorn'
  BY StuckStep
<1>4. Counted'
  BY CountedStep
<1>5. Ledger'
  BY LedgerStep
<1> QED BY <1>1, <1>2, <1>3, <1>4, <1>5 DEF Inv

LEMMA AtWork ==
    ASSUME Inv, NEW w \in Workers, job[w].at # "idle"
    PROVE  /\ Working(job[w]) /\ job[w].who \in Callers
           /\ job[w].todo \in Seq(Commands) /\ job[w].late \in Seq(Commands)
           /\ job[w].by \subseteq Counters /\ job[w].seen \in Seq(Nat)
BY DEF Inv, TypeOK, Jobs, Working

LEMMA Raised ==
    ASSUME TypeOK, NEW k \in Counters, Incr(k)
    PROVE  /\ count' \in [Counters -> Nat] /\ count'[k] = count[k] + 1
           /\ \A m \in Counters \ {k} : count'[m] = count[m]
BY DEF TypeOK, Incr

\* A step that leaves the counters alone and starts a block or none.
LEMMA QuietStep ==
    ASSUME Inv, NEW w \in Workers, NEW j, Working(j), Becomes(w, j),
           Sound(j.todo), Sound(j.late), job[w].todo = <<>>,
           \A s : ~Has(j.todo, s) /\ ~Has(j.late, s),
           \A k \in Counters : k[1] \in Windows /\ k \in j.by => k \in job[w].by,
           UNCHANGED <<count, ttl, print, torn, refused, crashes, faults>>,
           left' \in 0..MaxRequests
    PROVE  Inv'
<1>1. \A k \in Counters : count'[k] > 0 /\ k \notin ttl' =>
               \/ k \in torn' \/ k \in About(j.todo)
               \/ k \notin torn /\ count[k] > 0 /\ k \notin ttl /\ k \notin About(job[w].todo)
  BY NothingToDo
<1>2. \A k \in Counters : k[1] \in Windows =>
              /\ count[k] <= count'[k]
              /\ k \in j.by /\ k \notin job[w].by =>
                    count[k] + 1 <= count'[k] /\ count[k] + 1 <= Limit[k[1]]
  BY DEF Inv, TypeOK
<1>3. \A s \in Accounts \union Ips :
              count'[<<"attempts", s>>] + Owed(j, s) + 2 * refused[s]
                <= count[<<"attempts", s>>] + Owed(job[w], s) + 2 * refused'[s]
  <2> SUFFICES ASSUME NEW s \in Accounts \union Ips
               PROVE  count[<<"attempts", s>>] + Owed(j, s) + 2 * refused[s]
                        <= count[<<"attempts", s>>] + Owed(job[w], s) + 2 * refused[s]
    OBVIOUS
  <2>1. Owed(j, s) = 0 /\ Owed(job[w], s) \in Nat
    BY OwedTypes
  <2>2. count[<<"attempts", s>>] \in Nat /\ refused[s] \in Nat
    BY AttemptsOf DEF Inv, TypeOK
  <2> QED BY <2>1, <2>2
<1>4. /\ count' \in [Counters -> Nat] /\ ttl' \subseteq Counters /\ torn' \subseteq Counters
      /\ print' \in [Accounts -> Prints \union {NoPrint}]
      /\ refused' \in [Accounts \union Ips -> Nat]
      /\ crashes' \in 0..MaxCrashes /\ faults' \in 0..MaxFaults
  BY DEF Inv, TypeOK
<1> QED BY <1>1, <1>2, <1>3, <1>4, WorkerStep

\* One more refusal pays for the attempts a check is about to record.
LEMMA RefusalCovers ==
    ASSUME NEW n \in Nat, NEW old \in Nat, NEW new \in Nat, NEW r \in Nat, NEW q \in Nat,
           new + 2 * r <= 2 * q
    PROVE  n + new + 2 * r <= n + old + 2 * q
OBVIOUS

\* A step that raises one counter, not of attempts, and starts a block or none.
LEMMA CountingStep ==
    ASSUME Inv, NEW w \in Workers, NEW j, Working(j), Becomes(w, j),
           Sound(j.todo), Sound(j.late), job[w].todo = <<>>,
           NEW k \in Counters, Incr(k), k[1] # "attempts",
           k \in About(j.todo) \/ k \in torn' \/ count[k] > 0,
           \A m \in Counters : m[1] \in Windows /\ m \in j.by =>
                m \in job[w].by \/ (m = k /\ count[k] + 1 <= Limit[k[1]]),
           \A s \in Accounts \union Ips : Owed(j, s) + 2 * refused[s] <= 2 * refused'[s],
           UNCHANGED <<ttl, print, left, crashes>>, torn \subseteq torn', torn' \subseteq Counters,
           refused' \in [Accounts \union Ips -> Nat], faults' \in 0..MaxFaults
    PROVE  Inv'
<1>1. /\ count' \in [Counters -> Nat] /\ count'[k] = count[k] + 1
      /\ \A m \in Counters \ {k} : count'[m] = count[m]
      /\ \A m \in Counters : count[m] \in Nat
  BY Raised DEF Inv, TypeOK
<1>2. \A m \in Counters : count'[m] > 0 /\ m \notin ttl' =>
               \/ m \in torn' \/ m \in About(j.todo)
               \/ m \notin torn /\ count[m] > 0 /\ m \notin ttl /\ m \notin About(job[w].todo)
  BY <1>1, NothingToDo
<1>3. \A m \in Counters : m[1] \in Windows =>
              /\ count[m] <= count'[m]
              /\ m \in j.by /\ m \notin job[w].by =>
                    count[m] + 1 <= count'[m] /\ count[m] + 1 <= Limit[m[1]]
  BY <1>1
<1>4. \A s \in Accounts \union Ips :
              count'[<<"attempts", s>>] + Owed(j, s) + 2 * refused[s]
                <= count[<<"attempts", s>>] + Owed(job[w], s) + 2 * refused'[s]
  <2> SUFFICES ASSUME NEW s \in Accounts \union Ips
               PROVE  count'[<<"attempts", s>>] + Owed(j, s) + 2 * refused[s]
                        <= count[<<"attempts", s>>] + Owed(job[w], s) + 2 * refused'[s]
    OBVIOUS
  <2>1. <<"attempts", s>> \in Counters /\ <<"attempts", s>> # k
    BY AttemptsOf
  <2>2. count'[<<"attempts", s>>] = count[<<"attempts", s>>] /\ count[<<"attempts", s>>] \in Nat
    BY <1>1, <2>1
  <2>3. refused[s] \in Nat /\ refused'[s] \in Nat
    BY DEF Inv, TypeOK
  <2>4. Owed(j, s) \in 0..2 /\ Owed(job[w], s) \in 0..2
    BY OwedTypes
  <2>5. Owed(j, s) + 2 * refused[s] <= 2 * refused'[s]
    OBVIOUS
  <2> HIDE DEF Owed
  <2> QED BY ONLY <2>2, <2>3, <2>4, <2>5, RefusalCovers
<1>5. /\ ttl' \subseteq Counters /\ print' \in [Accounts -> Prints \union {NoPrint}]
      /\ left' \in 0..MaxRequests /\ crashes' \in 0..MaxCrashes
  BY DEF Inv, TypeOK
<1> QED BY <1>1, <1>2, <1>3, <1>4, <1>5, WorkerStep

-----------------------------------------------------------------------------
(* One lemma for each action.                                              *)

LEMMA PassingStep ==
    ASSUME Inv, NEW w \in Workers, job[w].at # "idle", job[w].todo = <<>>, Passes(w),
           UNCHANGED <<count, ttl, print, torn, refused, bounds>>
    PROVE  Inv'
<1> DEFINE j == [job[w] EXCEPT !.next = After(job[w].who, job[w].at)]
<1>1. Working(j) /\ j.todo = <<>> /\ j.late = <<>> /\ j.by = job[w].by
  BY AtWork, AfterType DEF Working, Jobs, Inv, Shape
<1>2. Becomes(w, j)
  BY DEF Passes
<1> QED BY <1>1, <1>2, NothingToDo, QuietStep DEF bounds, Inv, TypeOK

LEMMA ArriveStep ==
    ASSUME Inv, NEW w \in Workers, NEW c \in Callers, Arrive(w, c)
    PROVE  Inv'
<1> DEFINE first == IF RouteOf[c] = "llm" /\ KindOf[c] = "stream" THEN "not_for_free"
                    ELSE Head(Checks[RouteOf[c]])
           j == [Idle(first) EXCEPT !.who = c]
<1>1. first \in Stages \union Verdicts
  BY Routes DEF Checks, Stages, Verdicts
<1>2. Working(j) /\ j.todo = <<>> /\ j.late = <<>> /\ j.by = {}
  <2>1. Idle(first) \in Jobs
    BY <1>1, IdleType
  <2>2. /\ j = [who |-> c, at |-> "idle", todo |-> <<>>, late |-> <<>>, next |-> first,
                seen |-> <<>>, by |-> {}]
    BY DEF Idle
  <2>3. j \in Jobs
    BY <2>1, <2>2 DEF Idle, Jobs
  <2> QED BY <2>2, <2>3 DEF Working
<1>3. Becomes(w, j) /\ job[w].todo = <<>>
  BY DEF Arrive, Inv, Shape
<1>4. left' \in 0..MaxRequests
  BY ConstantsAssumption DEF Arrive, Inv, TypeOK
<1> QED BY <1>2, <1>3, <1>4, QuietStep, NothingToDo DEF Arrive

LEMMA CheckBanStep ==
    ASSUME Inv, NEW w \in Workers, CheckBan(w)
    PROVE  Inv'
<1>1. job[w].at # "idle" /\ job[w].todo = <<>>
  BY DEF CheckBan, Asks
<1>2. CASE Banned(job[w].who)
  <2> DEFINE j == [job[w] EXCEPT !.next = "banned"]
  <2>1. Working(j) /\ j.todo = <<>> /\ j.late = <<>> /\ j.by = job[w].by
    BY <1>1, AtWork DEF Working, Jobs, Verdicts, Inv, Shape
  <2>2. Becomes(w, j)
    BY <1>2 DEF CheckBan
  <2> QED BY <1>1, <2>1, <2>2, NothingToDo, QuietStep DEF CheckBan, bounds, Inv, TypeOK
<1>3. CASE ~Banned(job[w].who)
  BY <1>1, <1>3, PassingStep DEF CheckBan
<1> QED BY <1>2, <1>3

LEMMA CountRequestStep ==
    ASSUME Inv, NEW w \in Workers, CountRequest(w)
    PROVE  Inv'
<1>1. PICK stage \in Windows :
        /\ Asks(w, stage)
        /\ LET j == job[w]
               c == j.who
               k == Key(stage, c)
               in == [j EXCEPT !.next = After(c, stage), !.by = @ \union {k}]
           IN /\ Incr(k)
              /\ CASE Over(k) -> Becomes(w, [j EXCEPT
                                  !.next = "limited", !.todo = OwnRecord(c, stage),
                                  !.late = IF stage = "sticky" THEN <<>> ELSE RouteRecord(c)])
                   [] ~Over(k) /\ First(k) -> Becomes(w, [in EXCEPT !.todo = <<<<"expire", k>>>>])
                   [] OTHER -> Becomes(w, in)
              /\ refused' = IF Over(k) /\ stage # "sticky"
                            THEN [s \in DOMAIN refused |-> refused[s] +
                                    (IF s \in {AccountOf[c], IpOf[c]}
                                          \/ (s = NoIp /\ stage = "account") THEN 1 ELSE 0)]
                            ELSE refused
  BY DEF CountRequest
<1> DEFINE j == job[w]
           c == j.who
           k == Key(stage, c)
           in == [j EXCEPT !.next = After(c, stage), !.by = @ \union {k}]
<1>2. /\ job[w].at # "idle" /\ job[w].todo = <<>> /\ job[w].late = <<>>
      /\ UNCHANGED <<ttl, print, torn, bounds>>
  BY <1>1 DEF CountRequest, Asks, Windows, Inv, Shape
<1>3. c \in Callers /\ k \in Counters /\ k[1] = stage /\ Incr(k) /\ j \in Jobs
  BY <1>1, <1>2, AtWork, CounterOf DEF Families, Windows, Key, Working
<1>4. refused' \in [Accounts \union Ips -> Nat] /\ k[1] # "attempts"
  BY <1>1, <1>3 DEF Inv, TypeOK, Windows
<1>5. count[k] \in Nat /\ Limit[stage] \in Nat \ {0}
  BY <1>3, ConstantsAssumption DEF Inv, TypeOK
<1>6. CASE Over(k)
  <2> DEFINE J == [j EXCEPT !.next = "limited", !.todo = OwnRecord(c, stage),
                            !.late = IF stage = "sticky" THEN <<>> ELSE RouteRecord(c)]
  <2>1. Becomes(w, J) /\ count[k] > 0
    BY <1>1, <1>3, <1>5, <1>6 DEF Over
  <2>2. /\ J.todo = OwnRecord(c, stage) /\ Working(J) /\ J.by = job[w].by
        /\ J.late = IF stage = "sticky" THEN <<>> ELSE RouteRecord(c)
    BY <1>2, <1>3, RecordTypes DEF Working, Jobs, Verdicts
  <2>3. Sound(J.todo) /\ Sound(J.late)
    <3>1. Sound(OwnRecord(c, stage)) /\ Sound(RouteRecord(c)) /\ Sound(<<>>)
      BY <1>3, RecordsSound, NothingToDo
    <3> HIDE DEF J
    <3> QED BY <2>2, <3>1
  <2>4. ASSUME NEW s \in Accounts \union Ips
        PROVE  Owed(J, s) + 2 * refused[s] <= 2 * refused'[s]
    <3> DEFINE mine == s \in {AccountOf[c], IpOf[c]} \/ (s = NoIp /\ stage = "account")
    <3>1. refused[s] \in Nat /\ Owed(J, s) \in 0..2
      BY OwedTypes DEF Inv, TypeOK
    <3>2. CASE stage # "sticky" /\ mine
      <4>1. refused'[s] = refused[s] + 1
        BY <1>1, <1>6, <3>2 DEF Inv, TypeOK
      <4> QED BY <3>1, <4>1
    <3>3. CASE ~(stage # "sticky" /\ mine)
      <4>1. ~Has(J.todo, s) /\ ~Has(J.late, s)
        BY <1>3, <2>2, <3>3, RecordsSound, NothingToDo
      <4>2. Owed(J, s) = 0
        BY <4>1, OwedTypes
      <4>3. refused'[s] = refused[s]
        BY <1>1, <1>6, <3>1, <3>3 DEF Inv, TypeOK
      <4> HIDE DEF J
      <4> QED BY <3>1, <4>2, <4>3
    <3> QED BY <3>2, <3>3
  <2> QED BY <1>2, <1>3, <1>4, <2>1, <2>2, <2>3, <2>4, CountingStep DEF Inv, TypeOK, bounds
<1>7. refused' = refused \/ Over(k)
  BY <1>1
<1>8. \A s \in Accounts \union Ips : refused[s] \in Nat
  BY DEF Inv, TypeOK
<1>9. CASE ~Over(k) /\ First(k)
  <2> DEFINE J == [in EXCEPT !.todo = <<<<"expire", k>>>>]
  <2>1. Becomes(w, J)
    BY <1>1, <1>9
  <2>2. J.todo = <<<<"expire", k>>>> /\ J.late = <<>> /\ Working(J) /\ J.by = job[w].by \union {k}
    BY <1>2, <1>3, ExpireSound, AfterType DEF Working, Jobs
  <2>3. Sound(J.todo) /\ Sound(J.late) /\ k \in About(J.todo) /\ \A s : Owed(J, s) = 0
    BY <1>3, <2>2, ExpireSound, NothingToDo, OwedTypes
  <2>4. /\ \A s \in Accounts \union Ips : Owed(J, s) + 2 * refused[s] <= 2 * refused'[s]
        /\ count[k] + 1 <= Limit[k[1]]
    BY <1>3, <1>5, <1>7, <1>8, <1>9, <2>3 DEF Over
  <2> QED BY <1>2, <1>3, <1>4, <2>1, <2>2, <2>3, <2>4, CountingStep DEF Inv, TypeOK, bounds
<1>10. CASE ~Over(k) /\ ~First(k)
  <2>1. Becomes(w, in)
    BY <1>1, <1>10
  <2>2. in.todo = <<>> /\ in.late = <<>> /\ Working(in) /\ in.by = job[w].by \union {k}
    BY <1>2, <1>3, AfterType DEF Working, Jobs
  <2>3. count[k] > 0 /\ \A s : Owed(in, s) = 0
    <3>1. count[k] > 0
      BY <1>5, <1>10 DEF First
    <3>2. \A s : ~Has(in.todo, s) /\ ~Has(in.late, s)
      BY <2>2, NothingToDo
    <3> HIDE DEF in
    <3> QED BY <3>1, <3>2, OwedTypes
  <2>4. /\ \A s \in Accounts \union Ips : Owed(in, s) + 2 * refused[s] <= 2 * refused'[s]
        /\ count[k] + 1 <= Limit[k[1]]
    BY <1>3, <1>5, <1>7, <1>8, <1>10, <2>3 DEF Over
  <2>5. Sound(in.todo) /\ Sound(in.late)
    <3> HIDE DEF in
    <3> QED BY <2>2, NothingToDo
  <2> HIDE DEF in
  <2> QED BY <1>2, <1>3, <1>4, <2>1, <2>2, <2>3, <2>4, <2>5, CountingStep DEF Inv, TypeOK, bounds
<1> QED BY <1>6, <1>9, <1>10

LEMMA ReadTenStep ==
    ASSUME Inv, NEW w \in Workers, ReadTen(w)
    PROVE  Inv'
<1>1. PICK stage \in {"usage", "anomaly"} :
        /\ Asks(w, stage) /\ job[w].seen = <<>>
        /\ job' = [job EXCEPT ![w].seen = <<count[Key(Ten(stage), job[w].who)]>>]
        /\ UNCHANGED <<count, ttl, print, ghosts, bounds>>
  BY DEF ReadTen
<1> DEFINE n == count[Key(Ten(stage), job[w].who)]
           J == [job[w] EXCEPT !.seen = <<n>>]
<1>2. job[w].at # "idle"
  BY <1>1 DEF Asks
<1>3. n \in Nat
  <2>1. Ten(stage) \in Families \ {"attempts"}
    BY DEF Ten, Families
  <2> QED BY <1>2, <2>1, AtWork, CounterOf DEF Inv, TypeOK
<1>4. <<n>> \in Seq(Nat)
  BY <1>3
<1>5. /\ J \in Jobs /\ J.at = job[w].at /\ J.who = job[w].who
      /\ J.todo = job[w].todo /\ J.late = job[w].late
      /\ J.by = job[w].by
  BY <1>2, <1>4, AtWork DEF Jobs, Working
<1>6. job'[w] = J /\ \A v \in Workers \ {w} : job'[v] = job[v]
  BY <1>1 DEF Inv, TypeOK
<1>7. job' \in [Workers -> Jobs]
  BY <1>1, <1>5 DEF Inv, TypeOK
<1>8. TypeOK'
  BY <1>1, <1>5, <1>6, <1>7 DEF Inv, TypeOK, ghosts, bounds
<1>9. \A v \in Workers : Shape(job'[v])
  <2>1. \A v \in Workers : Shape(job[v])
    BY DEF Inv
  <2>2. Shape(J)
    <3> HIDE DEF J
    <3> QED BY <1>5, <2>1 DEF Shape
  <2> QED BY <1>6, <2>1, <2>2
<1>10. StuckOnlyIfTorn'
  <2>1. \A v \in Workers : job'[v].todo = job[v].todo
    BY <1>5, <1>6
  <2> QED BY <1>1, <2>1 DEF Inv, StuckOnlyIfTorn, Pending, ghosts
<1>11. \A v \in Workers :
          job'[v].todo = job[v].todo /\ job'[v].late = job[v].late /\ job'[v].by = job[v].by
  BY <1>5, <1>6
<1>12. Counted'
  <2>1. \A k : In(k)' = In(k)
    BY <1>11 DEF In
  <2> QED BY <1>1, <2>1 DEF Inv, Counted, ghosts
<1>13. Ledger'
  <2>1. \A s : Soon(s)' = Soon(s) /\ Later(s)' = Later(s)
    BY <1>11 DEF Soon, Later
  <2> QED BY <1>1, <2>1 DEF Inv, Ledger, ghosts
<1> QED BY <1>8, <1>9, <1>10, <1>12, <1>13 DEF Inv

LEMMA ReadDayStep ==
    ASSUME Inv, NEW w \in Workers, ReadDay(w)
    PROVE  Inv'
<1>1. PICK stage \in {"usage", "anomaly"} :
        /\ Asks(w, stage) /\ job[w].seen # <<>>
        /\ LET j == job[w]
               ten == Key(Ten(stage), j.who)
               day == Key(Day(stage), j.who)
           IN Becomes(w, [j EXCEPT
                !.todo = Both(ten) \o Both(day),
                !.next = IF Spike(stage, j.seen[1], count[day]) THEN Anomaly(stage)
                         ELSE After(j.who, stage),
                !.by = @ \union {ten}])
        /\ UNCHANGED <<count, ttl, print, torn, refused, bounds>>
  BY DEF ReadDay
<1> DEFINE j == job[w]
           ten == Key(Ten(stage), j.who)
           day == Key(Day(stage), j.who)
           next == IF Spike(stage, j.seen[1], count[day]) THEN Anomaly(stage)
                   ELSE After(j.who, stage)
           J == [j EXCEPT !.todo = Both(ten) \o Both(day), !.next = next, !.by = @ \union {ten}]
<1>2. job[w].at # "idle" /\ job[w].todo = <<>> /\ job[w].late = <<>>
  BY <1>1 DEF Asks, Inv, Shape
<1>3. /\ ten \in Counters /\ day \in Counters /\ ten # day
      /\ ten[1] \notin Windows \union {"attempts"} /\ day[1] # "attempts"
  <2>1. /\ Ten(stage) # Day(stage) /\ Ten(stage) \notin Windows \union {"attempts"}
        /\ Day(stage) # "attempts"
    BY DEF Ten, Day, Windows
  <2>2. ten[1] = Ten(stage) /\ day[1] = Day(stage)
    BY DEF Key
  <2>3. Ten(stage) \in Families \ {"attempts"} /\ Day(stage) \in Families \ {"attempts"}
    BY DEF Ten, Day, Families
  <2> QED BY <1>2, <2>1, <2>2, <2>3, AtWork, CounterOf
<1>4. Both(ten) \o Both(day) \in Seq(Commands) /\ Sound(Both(ten) \o Both(day))
      /\ \A s : ~Has(Both(ten) \o Both(day), s)
  BY <1>3, BothPaired, PairedJoin, TwoBoth DEF Sound
<1>5. next \in Stages \union Verdicts
  BY <1>2, AtWork, AfterType DEF Anomaly, Verdicts
<1>6. Working(J) /\ J.todo = Both(ten) \o Both(day) /\ J.late = <<>> /\ J.by = j.by \union {ten}
  BY <1>2, <1>3, <1>4, <1>5, AtWork DEF Working, Jobs
<1>7. Becomes(w, J)
  BY <1>1
<1>8. Sound(J.todo) /\ Sound(J.late) /\ \A s : ~Has(J.todo, s) /\ ~Has(J.late, s)
  <2> HIDE DEF J
  <2> QED BY <1>4, <1>6, NothingToDo
<1>9. \A k \in Counters : k[1] \in Windows /\ k \in J.by => k \in job[w].by
  <2> HIDE DEF J
  <2> QED BY <1>3, <1>6
<1> HIDE DEF J, ten, day
<1> QED BY <1>1, <1>2, <1>6, <1>7, <1>8, <1>9, QuietStep DEF bounds, Inv, TypeOK

LEMMA CheckPrintStep ==
    ASSUME Inv, NEW w \in Workers, CheckPrint(w)
    PROVE  Inv'
<1> DEFINE j == job[w]
           a == AccountOf[j.who]
           in == [j EXCEPT !.next = After(j.who, "print")]
           J2 == [in EXCEPT !.todo = <<<<"set", a>>, <<"set", a>>>>]
           J1 == [in EXCEPT !.todo = <<<<"set", a>>>>]
           J0 == [j EXCEPT !.next = "mismatch"]
<1>1. /\ j.at # "idle" /\ j.todo = <<>> /\ j.late = <<>>
      /\ UNCHANGED <<count, ttl, print, torn, refused, crashes, faults>> /\ left' \in 0..MaxRequests
  BY DEF CheckPrint, Asks, Inv, Shape, TypeOK, bounds
<1>2. j.who \in Callers /\ a \in Accounts /\ j \in Jobs
  BY <1>1, AtWork, CallersAre DEF Working
<1>3. /\ <<<<"set", a>>, <<"set", a>>>> \in Seq(Commands) /\ Sound(<<<<"set", a>>, <<"set", a>>>>)
      /\ <<<<"set", a>>>> \in Seq(Commands) /\ Sound(<<<<"set", a>>>>)
      /\ \A s : ~Has(<<<<"set", a>>>>, s) /\ ~Has(<<<<"set", a>>, <<"set", a>>>>, s)
  <2>1. <<"set", a>> \in Commands /\ <<"set", a>>[1] # "incr"
    BY <1>2 DEF Commands
  <2> QED BY <2>1, OneCommand
<1>4. Working(J2) /\ J2.todo = <<<<"set", a>>, <<"set", a>>>> /\ J2.late = <<>> /\ J2.by = j.by
  BY <1>1, <1>2, <1>3, AfterType DEF Working, Jobs
<1>5. Working(J1) /\ J1.todo = <<<<"set", a>>>> /\ J1.late = <<>> /\ J1.by = j.by
  BY <1>1, <1>2, <1>3, AfterType DEF Working, Jobs
<1>6. Working(J0) /\ J0.todo = <<>> /\ J0.late = <<>> /\ J0.by = j.by
  BY <1>1, <1>2 DEF Working, Jobs, Stages
<1>7. Becomes(w, J2) \/ Becomes(w, J1) \/ Becomes(w, J0)
  BY DEF CheckPrint
<1>8. CASE Becomes(w, J2)
  BY <1>1, <1>3, <1>4, <1>8, NothingToDo, QuietStep
<1>9. CASE Becomes(w, J1)
  BY <1>1, <1>3, <1>5, <1>9, NothingToDo, QuietStep
<1>10. CASE Becomes(w, J0)
  BY <1>1, <1>6, <1>10, NothingToDo, QuietStep
<1> QED BY <1>7, <1>8, <1>9, <1>10

LEMMA CountMismatchStep ==
    ASSUME Inv, NEW w \in Workers, CountMismatch(w)
    PROVE  Inv'
<1> DEFINE j == job[w]
           k == Key("mismatches", j.who)
           next == IF count[k] + 1 > MaxMismatches THEN "banned" ELSE "mismatch_found"
           J == [j EXCEPT !.todo = <<<<"expire", k>>>>, !.next = next]
<1>1. /\ j.at # "idle" /\ j.todo = <<>> /\ j.late = <<>>
      /\ UNCHANGED <<ttl, print, torn, refused, bounds>>
  BY DEF CountMismatch, Asks, Inv, Shape
<1>2. j.who \in Callers /\ k \in Counters /\ j \in Jobs
  BY <1>1, AtWork, CounterOf DEF Working, Families
<1>3. Incr(k) /\ Becomes(w, J)
  BY DEF CountMismatch
<1>4. Working(J) /\ J.todo = <<<<"expire", k>>>> /\ J.late = <<>> /\ J.by = j.by
  BY <1>1, <1>2, ExpireSound DEF Working, Jobs, Verdicts
<1>5. Sound(J.todo) /\ Sound(J.late) /\ k \in About(J.todo) /\ \A s : Owed(J, s) = 0
  BY <1>2, <1>4, ExpireSound, NothingToDo, OwedTypes
<1>6. k[1] # "attempts"
  BY DEF Key
<1>7. /\ \A s \in Accounts \union Ips : Owed(J, s) + 2 * refused[s] <= 2 * refused'[s]
      /\ refused' \in [Accounts \union Ips -> Nat]
  BY <1>1, <1>5 DEF Inv, TypeOK
<1> HIDE DEF J, k
<1> QED BY <1>1, <1>2, <1>3, <1>4, <1>5, <1>6, <1>7, CountingStep DEF Inv, TypeOK, bounds

\* What is known of a job in the middle of a block.
LEMMA InBlock ==
    ASSUME Inv, NEW w \in Workers, job[w].todo # <<>>
    PROVE  LET op == Head(job[w].todo)
               J  == [job[w] EXCEPT !.todo = Tail(@)]
           IN /\ job[w].at # "idle" /\ op \in Commands
              /\ op[1] # "set" => op[2] \in Counters
              /\ op[1] = "set" => op[2] \in Accounts
              /\ Working(job[w]) /\ Working(J) /\ J.todo = Tail(job[w].todo)
              /\ J.late = job[w].late /\ J.by = job[w].by /\ Sound(J.todo) /\ Sound(J.late)
              /\ op[1] = "incr" => op[2] \in About(J.todo)
              /\ op[1] = "set" => About(job[w].todo) \subseteq About(J.todo)
              /\ About(job[w].todo) \subseteq About(J.todo) \union {op[2]}
              /\ About(job[w].todo) \subseteq Counters
              /\ \A s : op = Raise(s) => Owed(J, s) + 1 = Owed(job[w], s) /\ Has(job[w].todo, s)
              /\ \A s : op # Raise(s) => Owed(J, s) = Owed(job[w], s)
<1> DEFINE op == Head(job[w].todo)
           J  == [job[w] EXCEPT !.todo = Tail(@)]
<1>1. job[w].at # "idle"
  BY DEF Inv, Shape
<1>2. /\ Working(job[w]) /\ job[w].todo \in Seq(Commands) /\ Tail(job[w].todo) \in Seq(Commands)
      /\ op \in Commands
  BY <1>1, AtWork, AboutTail
<1>3. (op[1] # "set" => op[2] \in Counters) /\ (op[1] = "set" => op[2] \in Accounts)
  BY <1>2 DEF Commands
<1>4. Working(J) /\ J.todo = Tail(job[w].todo) /\ J.late = job[w].late
      /\ J.by = job[w].by
  BY <1>1, <1>2 DEF Working, Jobs
<1>5. Sound(job[w].todo) /\ Sound(job[w].late)
  BY DEF Inv, Shape
<1>6. About(job[w].todo) \subseteq Counters
  <2> SUFFICES ASSUME NEW i \in DOMAIN job[w].todo, job[w].todo[i][1] # "set"
               PROVE  job[w].todo[i][2] \in Counters
    BY DEF About
  <2>1. job[w].todo[i] \in Commands
    BY <1>2
  <2> QED BY <2>1 DEF Commands
<1>7. /\ Sound(Tail(job[w].todo))
      /\ op[1] = "incr" => op[2] \in About(Tail(job[w].todo))
  BY <1>2, <1>5, PairedTail, BlockTail DEF Sound
<1>8. \A s : Has(job[w].todo, s) <=> (op = Raise(s) \/ Has(Tail(job[w].todo), s))
  BY <1>2, <1>5, BlockTail DEF Sound
<1>9. \A s : op = Raise(s) => ~Has(Tail(job[w].todo), s)
  BY <1>2, <1>5, BlockTail DEF Sound
<1>10. ASSUME NEW s
       PROVE  /\ op = Raise(s) => Owed(J, s) + 1 = Owed(job[w], s) /\ Has(job[w].todo, s)
              /\ op # Raise(s) => Owed(J, s) = Owed(job[w], s)
  <2> HIDE DEF J
  <2> QED BY <1>4, <1>8, <1>9 DEF Owed
<1>11. /\ op[1] = "set" => About(job[w].todo) \subseteq About(Tail(job[w].todo))
       /\ About(job[w].todo) \subseteq About(Tail(job[w].todo)) \union {op[2]}
  BY <1>2, AboutTail
<1> HIDE DEF J, op
<1>12. Sound(J.todo) /\ Sound(J.late)
  BY <1>4, <1>5, <1>7
<1>13. (op[1] = "incr" => op[2] \in About(J.todo)) /\ J.todo = Tail(job[w].todo)
  BY <1>4, <1>7
<1> QED BY <1>1, <1>2, <1>3, <1>4, <1>6, <1>10, <1>11, <1>12, <1>13 DEF J, op

LEMMA IncrementsStep ==
    ASSUME Inv, NEW w \in Workers, Increments(w)
    PROVE  Inv'
<1> DEFINE op == Head(job[w].todo)
           J  == [job[w] EXCEPT !.todo = Tail(@)]
           k  == op[2]
<1>1. /\ job[w].todo # <<>> /\ op[1] = "incr" /\ Incr(k) /\ Becomes(w, J)
      /\ UNCHANGED <<ttl, print, torn, refused, bounds>>
  BY DEF Increments, Next1
<1>2. /\ k \in Counters /\ Working(J) /\ Sound(J.todo) /\ Sound(J.late) /\ k \in About(J.todo)
      /\ About(job[w].todo) \subseteq About(J.todo) \union {k} /\ J.by = job[w].by
      /\ op \in Commands
      /\ \A s : op = Raise(s) => Owed(J, s) + 1 = Owed(job[w], s)
      /\ \A s : op # Raise(s) => Owed(J, s) = Owed(job[w], s)
  BY <1>1, InBlock
<1>3. op = <<"incr", k>>
  BY <1>1, <1>2 DEF Commands
<1>4. /\ count' \in [Counters -> Nat] /\ count'[k] = count[k] + 1
      /\ \A m \in Counters \ {k} : count'[m] = count[m]
      /\ \A m \in Counters : count[m] \in Nat
  BY <1>1, <1>2, Raised DEF Inv, TypeOK
<1>5. \A m \in Counters : count'[m] > 0 /\ m \notin ttl' =>
               \/ m \in torn' \/ m \in About(J.todo)
               \/ m \notin torn /\ count[m] > 0 /\ m \notin ttl /\ m \notin About(job[w].todo)
  BY <1>1, <1>2, <1>4
<1>6. \A m \in Counters : m[1] \in Windows =>
              /\ count[m] <= count'[m]
              /\ m \in J.by /\ m \notin job[w].by =>
                    count[m] + 1 <= count'[m] /\ count[m] + 1 <= Limit[m[1]]
  BY <1>1, <1>2, <1>4
<1>7. \A s \in Accounts \union Ips :
              count'[<<"attempts", s>>] + Owed(J, s) + 2 * refused[s]
                <= count[<<"attempts", s>>] + Owed(job[w], s) + 2 * refused'[s]
  <2> SUFFICES ASSUME NEW s \in Accounts \union Ips
               PROVE  count'[<<"attempts", s>>] + Owed(J, s) + 2 * refused[s]
                        <= count[<<"attempts", s>>] + Owed(job[w], s) + 2 * refused'[s]
    OBVIOUS
  <2>1. Owed(J, s) \in Nat /\ Owed(job[w], s) \in Nat
    BY OwedTypes
  <2>2. refused'[s] = refused[s] /\ refused[s] \in Nat
    BY <1>1 DEF Inv, TypeOK
  <2>3. CASE k = <<"attempts", s>>
    <3>1. op = Raise(s)
      BY <1>3, <2>3 DEF Raise
    <3> HIDE DEF J, k
    <3> QED BY <1>2, <1>4, <2>1, <2>3, <2>2, <3>1
  <2>4. CASE k # <<"attempts", s>>
    <3>1. op # Raise(s) /\ <<"attempts", s>> \in Counters
      BY <1>3, <2>4, AttemptsOf DEF Raise
    <3> HIDE DEF J, k
    <3> QED BY <1>2, <1>4, <2>1, <2>4, <2>2, <3>1
  <2> QED BY <2>3, <2>4
<1>8. /\ count' \in [Counters -> Nat] /\ ttl' \subseteq Counters /\ torn' \subseteq Counters
      /\ print' \in [Accounts -> Prints \union {NoPrint}]
      /\ refused' \in [Accounts \union Ips -> Nat] /\ left' \in 0..MaxRequests
      /\ crashes' \in 0..MaxCrashes /\ faults' \in 0..MaxFaults
  BY <1>1, <1>4 DEF Inv, TypeOK, bounds
<1> HIDE DEF J
<1> QED BY <1>1, <1>2, <1>5, <1>6, <1>7, <1>8, WorkerStep

LEMMA ExpiresStep ==
    ASSUME Inv, NEW w \in Workers, Expires(w)
    PROVE  Inv'
<1> DEFINE op == Head(job[w].todo)
           J  == [job[w] EXCEPT !.todo = Tail(@)]
           k  == op[2]
<1>1. /\ job[w].todo # <<>> /\ op[1] = "expire" /\ Becomes(w, J)
      /\ ttl' = IF count[k] > 0 THEN ttl \union {k} ELSE ttl
      /\ UNCHANGED <<count, print, torn, refused, bounds>>
  BY DEF Expires, Next1
<1>2. /\ k \in Counters /\ Working(J) /\ Sound(J.todo) /\ Sound(J.late) /\ J.by = job[w].by
      /\ About(job[w].todo) \subseteq About(J.todo) \union {k}
      /\ \A s : Owed(J, s) = Owed(job[w], s)
  <2>1. \A s : op # Raise(s)
    BY <1>1 DEF Raise
  <2> QED BY <1>1, <2>1, InBlock
<1>3. \A m \in Counters : count'[m] > 0 /\ m \notin ttl' =>
               \/ m \in torn' \/ m \in About(J.todo)
               \/ m \notin torn /\ count[m] > 0 /\ m \notin ttl /\ m \notin About(job[w].todo)
  BY <1>1, <1>2
<1>4. \A m \in Counters : m[1] \in Windows =>
              /\ count[m] <= count'[m]
              /\ m \in J.by /\ m \notin job[w].by =>
                    count[m] + 1 <= count'[m] /\ count[m] + 1 <= Limit[m[1]]
  BY <1>1, <1>2 DEF Inv, TypeOK
<1>5. \A s \in Accounts \union Ips :
              count'[<<"attempts", s>>] + Owed(J, s) + 2 * refused[s]
                <= count[<<"attempts", s>>] + Owed(job[w], s) + 2 * refused'[s]
  <2> SUFFICES ASSUME NEW s \in Accounts \union Ips
               PROVE  count'[<<"attempts", s>>] + Owed(J, s) + 2 * refused[s]
                        <= count[<<"attempts", s>>] + Owed(job[w], s) + 2 * refused'[s]
    OBVIOUS
  <2> HIDE DEF J
  <2>1. Owed(J, s) = Owed(job[w], s) /\ Owed(job[w], s) \in Nat
    BY <1>2, OwedTypes
  <2>2. /\ refused'[s] = refused[s] /\ refused[s] \in Nat
        /\ count'[<<"attempts", s>>] = count[<<"attempts", s>>] /\ count[<<"attempts", s>>] \in Nat
    BY <1>1, AttemptsOf DEF Inv, TypeOK
  <2> HIDE DEF J
  <2> QED BY <2>1, <2>2
<1>6. /\ count' \in [Counters -> Nat] /\ ttl' \subseteq Counters /\ torn' \subseteq Counters
      /\ print' \in [Accounts -> Prints \union {NoPrint}]
      /\ refused' \in [Accounts \union Ips -> Nat] /\ left' \in 0..MaxRequests
      /\ crashes' \in 0..MaxCrashes /\ faults' \in 0..MaxFaults
  BY <1>1, <1>2 DEF Inv, TypeOK, bounds
<1> HIDE DEF J
<1> QED BY <1>1, <1>2, <1>3, <1>4, <1>5, <1>6, WorkerStep

LEMMA StoresStep ==
    ASSUME Inv, NEW w \in Workers, Stores(w)
    PROVE  Inv'
<1> DEFINE op == Head(job[w].todo)
           J  == [job[w] EXCEPT !.todo = Tail(@)]
<1>1. /\ job[w].todo # <<>> /\ op[1] = "set" /\ Becomes(w, J)
      /\ print' = [print EXCEPT ![op[2]] = PrintOf[job[w].who]]
      /\ UNCHANGED <<count, ttl, torn, refused, bounds>>
  BY DEF Stores, Next1
<1>2. /\ op[2] \in Accounts /\ Working(J) /\ Sound(J.todo) /\ Sound(J.late) /\ J.by = job[w].by
      /\ About(job[w].todo) \subseteq About(J.todo) /\ PrintOf[job[w].who] \in Prints
      /\ \A s : Owed(J, s) = Owed(job[w], s)
  <2>1. \A s : op # Raise(s)
    BY <1>1 DEF Raise
  <2> QED BY <1>1, <2>1, InBlock, CallersAre DEF Working
<1>3. \A m \in Counters : count'[m] > 0 /\ m \notin ttl' =>
               \/ m \in torn' \/ m \in About(J.todo)
               \/ m \notin torn /\ count[m] > 0 /\ m \notin ttl /\ m \notin About(job[w].todo)
  BY <1>1, <1>2
<1>4. \A m \in Counters : m[1] \in Windows =>
              /\ count[m] <= count'[m]
              /\ m \in J.by /\ m \notin job[w].by =>
                    count[m] + 1 <= count'[m] /\ count[m] + 1 <= Limit[m[1]]
  BY <1>1, <1>2 DEF Inv, TypeOK
<1>5. \A s \in Accounts \union Ips :
              count'[<<"attempts", s>>] + Owed(J, s) + 2 * refused[s]
                <= count[<<"attempts", s>>] + Owed(job[w], s) + 2 * refused'[s]
  <2> SUFFICES ASSUME NEW s \in Accounts \union Ips
               PROVE  count'[<<"attempts", s>>] + Owed(J, s) + 2 * refused[s]
                        <= count[<<"attempts", s>>] + Owed(job[w], s) + 2 * refused'[s]
    OBVIOUS
  <2> HIDE DEF J
  <2>1. Owed(J, s) = Owed(job[w], s) /\ Owed(job[w], s) \in Nat
    BY <1>2, OwedTypes
  <2>2. /\ refused'[s] = refused[s] /\ refused[s] \in Nat
        /\ count'[<<"attempts", s>>] = count[<<"attempts", s>>] /\ count[<<"attempts", s>>] \in Nat
    BY <1>1, AttemptsOf DEF Inv, TypeOK
  <2> HIDE DEF J
  <2> QED BY <2>1, <2>2
<1>6. /\ count' \in [Counters -> Nat] /\ ttl' \subseteq Counters /\ torn' \subseteq Counters
      /\ print' \in [Accounts -> Prints \union {NoPrint}]
      /\ refused' \in [Accounts \union Ips -> Nat] /\ left' \in 0..MaxRequests
      /\ crashes' \in 0..MaxCrashes /\ faults' \in 0..MaxFaults
  BY <1>1, <1>2 DEF Inv, TypeOK, bounds
<1> HIDE DEF J
<1> QED BY <1>1, <1>2, <1>3, <1>4, <1>5, <1>6, WorkerStep

LEMMA CrashStep ==
    ASSUME Inv, NEW w \in Workers, Crash(w)
    PROVE  Inv'
<1>1. /\ job[w].at # "idle" /\ job' = [job EXCEPT ![w] = Idle("died")]
      /\ torn' = torn \union About(job[w].todo) /\ crashes < MaxCrashes /\ crashes' = crashes + 1
      /\ UNCHANGED <<count, ttl, print, served, refused, left, faults>>
  BY DEF Crash
<1>2. /\ Idle("died") \in Jobs /\ Shape(Idle("died")) /\ Idle("died").at = "idle"
      /\ Idle("died").who = Nobody
  BY IdleType DEF Verdicts
<1>3. /\ job' \in [Workers -> Jobs] /\ job'[w] = Idle("died")
      /\ \A v \in Workers \ {w} : job'[v] = job[v]
  BY <1>1, <1>2 DEF Inv, TypeOK
<1>4. About(job[w].todo) \subseteq Counters
  BY InBlock, NothingToDo
<1>5. TypeOK'
  BY <1>1, <1>2, <1>3, <1>4, ConstantsAssumption DEF Inv, TypeOK
<1>6. \A v \in Workers : Shape(job'[v])
  BY <1>2, <1>3 DEF Inv
<1>7. StuckOnlyIfTorn'
  <2> SUFFICES ASSUME NEW k \in Counters, count'[k] > 0, k \notin ttl', k \notin torn'
               PROVE  \E v \in Workers : k \in About(job'[v].todo)
    BY DEF StuckOnlyIfTorn, Pending
  <2>1. PICK v \in Workers : k \in About(job[v].todo)
    BY <1>1 DEF Inv, StuckOnlyIfTorn, Pending
  <2>2. v # w
    BY <1>1, <2>1
  <2> QED BY <1>3, <2>1, <2>2
<1>8. /\ Idle("died").by = {} /\ Idle("died").todo = <<>> /\ Idle("died").late = <<>>
  BY DEF Idle
<1>9. Counted'
  <2> SUFFICES ASSUME NEW k \in Counters, k[1] \in Windows
               PROVE  /\ served[k] + Cardinality(In(k)') <= count[k]
                      /\ served[k] + Cardinality(In(k)') <= Limit[k[1]]
    BY <1>1 DEF Counted
  <2>1. In(k)' \subseteq In(k) /\ In(k) \subseteq Workers
    BY <1>3, <1>8 DEF In
  <2>2. /\ Cardinality(In(k)') <= Cardinality(In(k))
        /\ Cardinality(In(k)') \in Nat /\ Cardinality(In(k)) \in Nat
    BY <2>1, ConstantsAssumption, FS_Subset, FS_CardinalityType
  <2>3. /\ served[k] + Cardinality(In(k)) <= count[k]
        /\ served[k] + Cardinality(In(k)) <= Limit[k[1]]
    BY DEF Inv, Counted
  <2>4. served[k] \in Nat /\ count[k] \in Nat /\ Limit[k[1]] \in Nat
    BY InTypes DEF IsWindow
  <2> HIDE DEF In
  <2> QED BY <2>2, <2>3, <2>4
<1>10. Ledger'
  <2> SUFFICES ASSUME NEW s \in Accounts \union Ips
               PROVE  count[<<"attempts", s>>] + Cardinality(Soon(s)') + Cardinality(Later(s)')
                        <= 2 * refused[s]
    BY <1>1 DEF Ledger
  <2>1. /\ Soon(s)' \subseteq Soon(s) /\ Soon(s) \subseteq Workers
        /\ Later(s)' \subseteq Later(s) /\ Later(s) \subseteq Workers
    BY <1>3, <1>8, NothingToDo DEF Soon, Later
  <2>2. /\ Cardinality(Soon(s)') <= Cardinality(Soon(s))
        /\ Cardinality(Soon(s)') \in Nat /\ Cardinality(Soon(s)) \in Nat
        /\ Cardinality(Later(s)') <= Cardinality(Later(s))
        /\ Cardinality(Later(s)') \in Nat /\ Cardinality(Later(s)) \in Nat
    BY <2>1, ConstantsAssumption, FS_Subset, FS_CardinalityType
  <2>3. count[<<"attempts", s>>] + Cardinality(Soon(s)) + Cardinality(Later(s)) <= 2 * refused[s]
    BY DEF Inv, Ledger
  <2>4. count[<<"attempts", s>>] \in Nat /\ refused[s] \in Nat
    BY AttemptsOf DEF Inv, TypeOK
  <2> HIDE DEF Soon, Later
  <2> QED BY <2>2, <2>3, <2>4
<1> QED BY <1>5, <1>6, <1>7, <1>9, <1>10 DEF Inv

LEMMA SkippedBlock ==
    ASSUME NEW j, Working(j), j.at # "idle", NEW next \in Stages \union Verdicts
    PROVE  LET e == [j EXCEPT !.todo = <<>>, !.next = next]
           IN  Working(e) /\ e.todo = <<>> /\ e.late = j.late /\ e.by = j.by
<1> DEFINE e == [j EXCEPT !.todo = <<>>, !.next = next]
<1>1. j \in Jobs /\ j.who \in Callers /\ <<>> \in Seq(Commands)
  BY DEF Working
<1> DEFINE d == [j EXCEPT !.todo = <<>>]
<1>2. d \in Jobs /\ d.who = j.who /\ d.at = j.at /\ d.todo = <<>> /\ d.late = j.late /\ d.by = j.by
  BY <1>1 DEF Jobs
<1>3. e = [d EXCEPT !.next = next]
  BY <1>1 DEF Jobs
<1> HIDE DEF d
<1>4. [d EXCEPT !.next = next] \in Jobs
  BY <1>2 DEF Jobs
<1> QED BY <1>1, <1>2, <1>3, <1>4 DEF Working, Jobs

LEMMA BlockFailsStep ==
    ASSUME Inv, NEW w \in Workers, RedisFails(w), BlockFails(w)
    PROVE  Inv'
<1> DEFINE j  == job[w]
           op == Head(j.todo)
           J  == [j EXCEPT !.todo = Tail(@)]
           N  == CASE j.at \in {"usage", "anomaly"} -> After(j.who, j.at)
                   [] j.at = "mismatch" -> "mismatch_found"
                   [] OTHER -> j.next
           E  == [j EXCEPT !.todo = <<>>, !.next = N]
<1>1. /\ j.todo # <<>> /\ torn' = torn \union About(j.todo)
      /\ (UNCHANGED count \/ (op[1] = "incr" /\ Incr(op[2])))
      /\ UNCHANGED <<ttl, print, refused, left, crashes>>
      /\ faults < MaxFaults /\ faults' = faults + 1
  BY DEF BlockFails, RedisFails
<1>2. /\ op[1] = "incr" => op[2] \in Counters /\ op[2] \in About(j.todo)
      /\ About(j.todo) \subseteq Counters /\ op \in Commands
      /\ Working(J) /\ Sound(J.todo) /\ Sound(J.late) /\ j.at # "idle" /\ J.by = j.by
      /\ Working(j) /\ Sound(j.late)
      /\ \A s : op = Raise(s) => Owed(J, s) + 1 = Owed(j, s) /\ Has(j.todo, s)
      /\ \A s : op # Raise(s) => Owed(J, s) = Owed(j, s)
  <2>1. op[1] = "incr" => op[2] \in About(j.todo)
    BY <1>1, InBlock, AtWork, AboutTail
  <2> QED BY <1>1, <2>1, InBlock DEF Inv, Shape
<1>3. Working(E) /\ E.todo = <<>> /\ E.late = j.late /\ E.by = j.by
  <2>1. N \in Stages \union Verdicts
    BY <1>2, AfterType DEF Working, Jobs, Verdicts
  <2> QED BY <1>2, <2>1, SkippedBlock
<1>4. Sound(E.todo) /\ Sound(E.late)
  <2> HIDE DEF E
  <2> QED BY <1>2, <1>3, NothingToDo
<1>5. /\ count' \in [Counters -> Nat]
      /\ \A m \in Counters \ About(j.todo) : count'[m] = count[m]
      /\ \A m \in Counters : count'[m] >= count[m]
      /\ \A s \in Accounts \union Ips : count'[<<"attempts", s>>] =
            count[<<"attempts", s>>] \/ (op = Raise(s)
               /\ count'[<<"attempts", s>>] = count[<<"attempts", s>>] + 1)
  <2>1. \A m \in Counters : count[m] \in Nat
    BY DEF Inv, TypeOK
  <2>2. CASE UNCHANGED count
    BY <2>1, <2>2, AttemptsOf DEF Inv, TypeOK
  <2>3. CASE op[1] = "incr" /\ Incr(op[2])
    <3>1. /\ count' \in [Counters -> Nat] /\ count'[op[2]] = count[op[2]] + 1
          /\ \A m \in Counters \ {op[2]} : count'[m] = count[m]
      BY <1>2, <2>3, Raised DEF Inv
    <3>2. op = <<"incr", op[2]>>
      BY <1>2, <2>3 DEF Commands
    <3> HIDE DEF op
    <3>3. \A s : op[2] = <<"attempts", s>> => op = Raise(s)
      BY <3>2 DEF Raise
    <3> QED BY <1>2, <2>1, <2>3, <3>1, <3>3, AttemptsOf
  <2> QED BY <1>1, <2>2, <2>3
<1>6. faults' \in 0..MaxFaults
  BY <1>1, ConstantsAssumption DEF Inv, TypeOK
<1>7. ASSUME NEW G, Becomes(w, G), Working(G), Sound(G.todo), Sound(G.late), G.by = j.by,
             \A s \in Accounts \union Ips :
               count'[<<"attempts", s>>] + Owed(G, s) <= count[<<"attempts", s>>] + Owed(j, s)
      PROVE  Inv'
  <2>1. \A m \in Counters : count'[m] > 0 /\ m \notin ttl' =>
               \/ m \in torn' \/ m \in About(G.todo)
               \/ m \notin torn /\ count[m] > 0 /\ m \notin ttl /\ m \notin About(job[w].todo)
    BY <1>1, <1>5
  <2>2. \A m \in Counters : m[1] \in Windows =>
              /\ count[m] <= count'[m]
              /\ m \in G.by /\ m \notin job[w].by =>
                    count[m] + 1 <= count'[m] /\ count[m] + 1 <= Limit[m[1]]
    BY <1>5, <1>7 DEF Inv, TypeOK
  <2>3. \A s \in Accounts \union Ips :
              count'[<<"attempts", s>>] + Owed(G, s) + 2 * refused[s]
                <= count[<<"attempts", s>>] + Owed(job[w], s) + 2 * refused'[s]
    <3> SUFFICES ASSUME NEW s \in Accounts \union Ips
                 PROVE  count'[<<"attempts", s>>] + Owed(G, s) + 2 * refused[s]
                          <= count[<<"attempts", s>>] + Owed(job[w], s) + 2 * refused'[s]
      OBVIOUS
    <3>1. /\ refused'[s] = refused[s] /\ refused[s] \in Nat
          /\ count[<<"attempts", s>>] \in Nat /\ count'[<<"attempts", s>>] \in Nat
      BY <1>1, <1>5, AttemptsOf DEF Inv, TypeOK
    <3>2. Owed(G, s) \in Nat /\ Owed(job[w], s) \in Nat
      BY OwedTypes
    <3> QED BY <1>7, <3>1, <3>2
  <2>4. /\ ttl' \subseteq Counters /\ torn' \subseteq Counters
        /\ print' \in [Accounts -> Prints \union {NoPrint}]
        /\ refused' \in [Accounts \union Ips -> Nat] /\ left' \in 0..MaxRequests
        /\ crashes' \in 0..MaxCrashes
    BY <1>1, <1>2 DEF Inv, TypeOK
  <2> QED BY <1>5, <1>6, <1>7, <2>1, <2>2, <2>3, <2>4, WorkerStep
<1>8. ASSUME op[1] = "set", NEW s \in Accounts \union Ips
      PROVE  count'[<<"attempts", s>>] + Owed(J, s) <= count[<<"attempts", s>>] + Owed(j, s)
  <2>1. op # Raise(s) /\ count[<<"attempts", s>>] \in Nat
    BY <1>8, AttemptsOf DEF Raise, Inv, TypeOK
  <2>2. Owed(J, s) = Owed(j, s) /\ count'[<<"attempts", s>>] = count[<<"attempts", s>>]
    BY <1>2, <1>5, <2>1
  <2>3. Owed(j, s) \in Nat
    BY OwedTypes
  <2> QED BY <2>1, <2>2, <2>3
<1>9. ASSUME NEW s \in Accounts \union Ips
       PROVE  count'[<<"attempts", s>>] + Owed(E, s) <= count[<<"attempts", s>>] + Owed(j, s)
  <2>1. count[<<"attempts", s>>] \in Nat
    BY AttemptsOf DEF Inv, TypeOK
  <2> HIDE DEF E, J, op
  <2>2. /\ Owed(E, s) \in Nat /\ Owed(j, s) \in Nat /\ Owed(E, s) <= Owed(j, s)
        /\ Has(j.todo, s) => Owed(E, s) + 1 = Owed(j, s)
    BY <1>3, NothingToDo DEF Owed
  <2>3. op = Raise(s) => Has(j.todo, s)
    BY <1>2
  <2>4. \/ count'[<<"attempts", s>>] = count[<<"attempts", s>>]
        \/ op = Raise(s) /\ count'[<<"attempts", s>>] = count[<<"attempts", s>>] + 1
    BY <1>5
  <2> QED BY <2>1, <2>2, <2>3, <2>4
<1>10. (op[1] = "set" /\ Becomes(w, J)) \/ Becomes(w, E)
  <2>1. E = [j EXCEPT !.todo = <<>>,
                  !.next = CASE j.at \in {"usage", "anomaly"} -> After(j.who, j.at)
                             [] j.at = "mismatch" -> "mismatch_found"
                             [] OTHER -> @]
    OBVIOUS
  <2>2. CASE op[1] = "set"
    BY <2>2 DEF BlockFails, Next1
  <2>3. CASE op[1] # "set"
    BY <2>1, <2>3 DEF BlockFails
  <2> QED BY <2>2, <2>3
<1> HIDE DEF J, E, op
<1> QED BY <1>2, <1>3, <1>4, <1>7, <1>8, <1>9, <1>10

LEMMA CheckFailsStep ==
    ASSUME Inv, NEW w \in Workers, RedisFails(w), CheckFails(w)
    PROVE  Inv'
<1> DEFINE j == job[w]
           k == Key(j.at, j.who)
           P == [j EXCEPT !.next = After(j.who, "print"),
                          !.todo = <<<<"set", AccountOf[j.who]>>>>]
           M == [j EXCEPT !.next = "mismatch_found"]
           A == [j EXCEPT !.next = After(j.who, j.at)]
<1>1. /\ j.at # "idle" /\ j.todo = <<>> /\ j.late = <<>>
      /\ UNCHANGED <<ttl, print, refused, left, crashes>>
      /\ faults < MaxFaults /\ faults' = faults + 1
      /\ (UNCHANGED <<count, torn>>
            \/ (j.at \in Windows /\ Incr(k) /\ torn' = torn \union {k}))
  BY DEF CheckFails, RedisFails, Inv, Shape
<1>2. Becomes(w, P) \/ Becomes(w, M) \/ Becomes(w, A)
  BY DEF CheckFails, Passes
<1>3. j \in Jobs /\ j.who \in Callers /\ AccountOf[j.who] \in Accounts
  BY <1>1, AtWork, CallersAre DEF Working
<1>4. /\ <<<<"set", AccountOf[j.who]>>>> \in Seq(Commands) /\ Sound(<<<<"set", AccountOf[j.who]>>>>)
      /\ \A s : ~Has(<<<<"set", AccountOf[j.who]>>>>, s)
  <2>1. <<"set", AccountOf[j.who]>> \in Commands /\ <<"set", AccountOf[j.who]>>[1] # "incr"
    BY <1>3 DEF Commands
  <2> QED BY <2>1, OneCommand
<1>5. /\ Working(P) /\ P.todo = <<<<"set", AccountOf[j.who]>>>> /\ P.late = <<>> /\ P.by = j.by
      /\ Working(M) /\ M.todo = <<>> /\ M.late = <<>> /\ M.by = j.by
      /\ Working(A) /\ A.todo = <<>> /\ A.late = <<>> /\ A.by = j.by
  BY <1>1, <1>3, <1>4, AfterType DEF Working, Jobs, Verdicts
<1>6. faults' \in 0..MaxFaults
  BY <1>1, ConstantsAssumption DEF Inv, TypeOK
<1>7. ASSUME NEW G, Becomes(w, G), Working(G), Sound(G.todo), Sound(G.late), G.by = j.by,
             \A s : ~Has(G.todo, s) /\ ~Has(G.late, s)
      PROVE  Inv'
  <2>1. \A s : Owed(G, s) = 0
    BY <1>7, OwedTypes
  <2>2. /\ \A s \in Accounts \union Ips : Owed(G, s) + 2 * refused[s] <= 2 * refused'[s]
        /\ refused' \in [Accounts \union Ips -> Nat]
    <3>1. refused' = refused /\ refused \in [Accounts \union Ips -> Nat]
      BY <1>1 DEF Inv, TypeOK
    <3> QED BY <2>1, <3>1
  <2>3. CASE UNCHANGED <<count, torn>>
    <3>1. \A m \in Counters : count'[m] > 0 /\ m \notin ttl' =>
                 \/ m \in torn' \/ m \in About(G.todo)
                 \/ m \notin torn /\ count[m] > 0 /\ m \notin ttl /\ m \notin About(job[w].todo)
      BY <1>1, <2>3, NothingToDo
    <3>2. \A m \in Counters : m[1] \in Windows =>
                /\ count[m] <= count'[m]
                /\ m \in G.by /\ m \notin job[w].by =>
                      count[m] + 1 <= count'[m] /\ count[m] + 1 <= Limit[m[1]]
      BY <1>7, <2>3 DEF Inv, TypeOK
    <3>3. \A s \in Accounts \union Ips :
              count'[<<"attempts", s>>] + Owed(G, s) + 2 * refused[s]
                <= count[<<"attempts", s>>] + Owed(job[w], s) + 2 * refused'[s]
      <4> SUFFICES ASSUME NEW s \in Accounts \union Ips
                   PROVE  count'[<<"attempts", s>>] + Owed(G, s) + 2 * refused[s]
                            <= count[<<"attempts", s>>] + Owed(job[w], s) + 2 * refused'[s]
        OBVIOUS
      <4>1. /\ refused'[s] = refused[s] /\ refused[s] \in Nat
            /\ count'[<<"attempts", s>>] = count[<<"attempts", s>>]
            /\ count[<<"attempts", s>>] \in Nat
        BY <1>1, <2>3, AttemptsOf DEF Inv, TypeOK
      <4>2. Owed(G, s) = 0 /\ Owed(job[w], s) \in Nat
        BY <2>1, OwedTypes
      <4> QED BY <4>1, <4>2
    <3>4. /\ count' \in [Counters -> Nat] /\ ttl' \subseteq Counters /\ torn' \subseteq Counters
          /\ print' \in [Accounts -> Prints \union {NoPrint}]
          /\ left' \in 0..MaxRequests /\ crashes' \in 0..MaxCrashes
      BY <1>1, <2>3 DEF Inv, TypeOK
    <3> QED BY <1>6, <1>7, <2>2, <3>1, <3>2, <3>3, <3>4, WorkerStep
  <2>4. CASE j.at \in Windows /\ Incr(k) /\ torn' = torn \union {k}
    <3>1. k \in Counters /\ k[1] # "attempts"
      BY <1>3, <2>4, CounterOf DEF Windows, Families, Key
    <3>2. torn \subseteq torn' /\ torn' \subseteq Counters /\ k \in torn'
      BY <2>4, <3>1 DEF Inv, TypeOK
    <3> HIDE DEF k
    <3> QED BY <1>1, <1>6, <1>7, <2>2, <2>4, <3>1, <3>2, CountingStep
  <2> QED BY <1>1, <2>3, <2>4
<1>8. Sound(P.todo) /\ Sound(P.late) /\ \A s : ~Has(P.todo, s) /\ ~Has(P.late, s)
  <2> HIDE DEF P
  <2> QED BY <1>4, <1>5, NothingToDo
<1>9. /\ Sound(M.todo) /\ Sound(M.late) /\ \A s : ~Has(M.todo, s) /\ ~Has(M.late, s)
      /\ Sound(A.todo) /\ Sound(A.late) /\ \A s : ~Has(A.todo, s) /\ ~Has(A.late, s)
  <2> HIDE DEF M, A
  <2> QED BY <1>5, NothingToDo
<1> HIDE DEF P, M, A
<1> QED BY <1>2, <1>5, <1>7, <1>8, <1>9

LEMMA LapseStep ==
    ASSUME Inv, NEW k \in Counters, Lapse(k)
    PROVE  Inv'
<1>1. /\ count' = [count EXCEPT ![k] = 0] /\ ttl' = ttl \ {k}
      /\ torn' \in {torn, torn \ {k}, torn \union {k}}
      /\ job' = [w \in Workers |-> [job[w] EXCEPT !.by = @ \ {k}]]
      /\ served' = [served EXCEPT ![k] = 0]
      /\ UNCHANGED <<print, bounds>>
  BY DEF Lapse
<1>2. refused' \in [Accounts \union Ips -> Nat]
  <2> DEFINE W == {w \in Workers : k \in About(job[w].todo \o job[w].late)}
  <2>1. Cardinality(W) \in Nat
    BY ConstantsAssumption, FS_Subset, FS_CardinalityType
  <2> QED BY <2>1 DEF Lapse, Inv, TypeOK
<1>3. \A w \in Workers :
        /\ job'[w] \in Jobs /\ job'[w].todo = job[w].todo /\ job'[w].late = job[w].late
        /\ job'[w].at = job[w].at /\ job'[w].who = job[w].who
        /\ job'[w].by = job[w].by \ {k}
  <2> SUFFICES ASSUME NEW w \in Workers
               PROVE  /\ job'[w] \in Jobs /\ job'[w].todo = job[w].todo
                      /\ job'[w].late = job[w].late
                      /\ job'[w].at = job[w].at /\ job'[w].who = job[w].who
                      /\ job'[w].by = job[w].by \ {k}
    OBVIOUS
  <2>1. job[w] \in Jobs /\ job'[w] = [job[w] EXCEPT !.by = @ \ {k}]
    BY <1>1 DEF Inv, TypeOK
  <2> QED BY <2>1 DEF Jobs
<1>4. TypeOK'
  BY <1>1, <1>2, <1>3 DEF Inv, TypeOK, bounds
<1>5. \A w \in Workers : Shape(job'[w])
  BY <1>3 DEF Inv, Shape
<1>6. StuckOnlyIfTorn'
  <2> SUFFICES ASSUME NEW m \in Counters, count'[m] > 0, m \notin ttl', m \notin torn'
               PROVE  \E v \in Workers : m \in About(job'[v].todo)
    BY DEF StuckOnlyIfTorn, Pending
  <2>1. m # k /\ count[m] > 0 /\ m \notin ttl /\ m \notin torn
    BY <1>1 DEF Inv, TypeOK
  <2>2. PICK v \in Workers : m \in About(job[v].todo)
    BY <2>1 DEF Inv, StuckOnlyIfTorn, Pending
  <2> QED BY <1>3, <2>2
<1>7. Counted'
  <2> SUFFICES ASSUME NEW m \in Counters, m[1] \in Windows
               PROVE  /\ served'[m] + Cardinality(In(m)') <= count'[m]
                      /\ served'[m] + Cardinality(In(m)') <= Limit[m[1]]
    BY DEF Counted
  <2>1. CASE m = k
    <3>1. In(m)' = {}
      BY <1>3, <2>1 DEF In
    <3>2. served'[m] = 0 /\ count'[m] = 0 /\ Limit[m[1]] \in Nat
      BY <1>1, <2>1, ConstantsAssumption DEF Inv, TypeOK
    <3> QED BY <3>1, <3>2, FS_EmptySet
  <2>2. CASE m # k
    <3>1. In(m)' = In(m)
      BY <1>3, <2>2 DEF In
    <3>2. served'[m] = served[m] /\ count'[m] = count[m]
      BY <1>1, <2>2 DEF Inv, TypeOK
    <3> QED BY <3>1, <3>2 DEF Inv, Counted
  <2> QED BY <2>1, <2>2
<1>8. Ledger'
  <2> SUFFICES ASSUME NEW s \in Accounts \union Ips
               PROVE  count'[<<"attempts", s>>] + Cardinality(Soon(s)') + Cardinality(Later(s)')
                        <= 2 * refused'[s]
    BY DEF Ledger
  <2>1. Soon(s)' = Soon(s) /\ Later(s)' = Later(s)
    BY <1>3 DEF Soon, Later
  <2>2. CASE k = <<"attempts", s>>
    <3> DEFINE W == {w \in Workers : k \in About(job[w].todo \o job[w].late)}
    <3>1. ASSUME NEW w \in Workers, Has(job[w].todo, s) \/ Has(job[w].late, s)
          PROVE  w \in W
      <4> DEFINE q == job[w].todo
                 t == job[w].late
      <4>1. q \in Seq(Commands) /\ t \in Seq(Commands)
        BY DEF Inv, TypeOK, Jobs
      <4>2. Raise(s)[1] # "set" /\ Raise(s)[2] = k
        BY <2>2 DEF Raise
      <4>3. \E i \in DOMAIN (q \o t) : (q \o t)[i] = Raise(s)
        <5>1. /\ Len(q) \in Nat /\ Len(t) \in Nat
              /\ DOMAIN q = 1..Len(q) /\ DOMAIN t = 1..Len(t)
              /\ DOMAIN (q \o t) = 1..Len(q) + Len(t)
              /\ \A i \in 1..Len(q) : (q \o t)[i] = q[i]
              /\ \A i \in 1..Len(t) : (q \o t)[Len(q) + i] = t[i]
          BY <4>1, JoinParts
        <5> HIDE DEF q, t
        <5>2. CASE Has(q, s)
          <6>1. PICK i \in 1..Len(q) : q[i] = Raise(s)
            BY <5>1, <5>2 DEF Has
          <6>2. i \in 1..Len(q) + Len(t)
            BY <5>1
          <6> QED BY <5>1, <6>1, <6>2
        <5>3. CASE Has(t, s)
          <6>1. PICK i \in 1..Len(t) : t[i] = Raise(s)
            BY <5>1, <5>3 DEF Has
          <6>2. Len(q) + i \in 1..Len(q) + Len(t)
            BY <5>1
          <6>3. Len(q) + i \in DOMAIN (q \o t) /\ (q \o t)[Len(q) + i] = Raise(s)
            BY <5>1, <6>1, <6>2
          <6> QED BY <6>3
        <5> QED BY <3>1, <5>2, <5>3 DEF q, t
      <4> QED BY <4>2, <4>3 DEF About
    <3>2. Soon(s) \subseteq W /\ Later(s) \subseteq W /\ IsFiniteSet(W)
      BY <3>1, ConstantsAssumption, FS_Subset DEF Soon, Later
    <3>3. /\ Cardinality(Soon(s)) \in Nat /\ Cardinality(Soon(s)) <= Cardinality(W)
          /\ Cardinality(Later(s)) \in Nat /\ Cardinality(Later(s)) <= Cardinality(W)
          /\ Cardinality(W) \in Nat
      BY <3>2, FS_Subset, FS_CardinalityType
    <3>4. refused'[s] = Cardinality(W) /\ count'[<<"attempts", s>>] = 0
      BY <1>1, <2>2 DEF Lapse, Inv, TypeOK
    <3> HIDE DEF W
    <3> QED BY <2>1, <3>3, <3>4
  <2>3. CASE k # <<"attempts", s>>
    <3>1. count'[<<"attempts", s>>] = count[<<"attempts", s>>]
      BY <1>1, <2>3, AttemptsOf DEF Inv, TypeOK
    <3>2. refused'[s] = refused[s]
      <4>1. CASE k[1] = "attempts"
        <5>1. k[2] # s
          BY <2>3, <4>1 DEF Counters
        <5> QED BY <4>1, <5>1 DEF Lapse, Inv, TypeOK
      <4>2. CASE k[1] # "attempts"
        BY <4>2 DEF Lapse
      <4> QED BY <4>1, <4>2
    <3> QED BY <2>1, <3>1, <3>2 DEF Inv, Ledger
  <2> QED BY <2>2, <2>3
<1> QED BY <1>4, <1>5, <1>6, <1>7, <1>8 DEF Inv

LEMMA LapsePrintStep ==
    ASSUME Inv, NEW a \in Accounts, LapsePrint(a)
    PROVE  Inv'
<1>1. TypeOK'
  BY DEF Inv, TypeOK, LapsePrint, ghosts, bounds
<1>2. StuckOnlyIfTorn'
  BY DEF Inv, StuckOnlyIfTorn, Pending, LapsePrint, ghosts
<1>3. Counted' /\ Ledger'
  BY DEF Inv, Counted, In, Ledger, Soon, Later, LapsePrint, ghosts
<1> QED BY <1>1, <1>2, <1>3 DEF Inv, LapsePrint

-----------------------------------------------------------------------------
(* The theorems.                                                           *)

LEMMA InvInit == Init => Inv
<1> SUFFICES ASSUME Init
             PROVE  Inv
  OBVIOUS
<1>1. /\ Idle("served") \in Jobs /\ Shape(Idle("served")) /\ Idle("served").at = "idle"
      /\ Idle("served").who = Nobody
  BY IdleType DEF Verdicts
<1>2. TypeOK
  BY <1>1, ConstantsAssumption DEF Init, TypeOK
<1>3. Counted
  <2>1. \A k \in Counters : In(k) = {} /\ served[k] = 0 /\ count[k] = 0
    BY DEF Init, In, Idle
  <2>2. \A k \in Counters : k[1] \in Windows => Limit[k[1]] \in Nat
    BY ConstantsAssumption
  <2> QED BY <2>1, <2>2, FS_EmptySet DEF Counted
<1>4. Ledger
  <2> SUFFICES ASSUME NEW s \in Accounts \union Ips
               PROVE  count[<<"attempts", s>>] + Cardinality(Soon(s)) + Cardinality(Later(s))
                        <= 2 * refused[s]
    BY DEF Ledger
  <2>1. Soon(s) = {} /\ Later(s) = {}
    BY NothingToDo DEF Init, Idle, Soon, Later
  <2>2. count[<<"attempts", s>>] = 0 /\ refused[s] = 0
    BY AttemptsOf DEF Init
  <2> QED BY <2>1, <2>2, FS_EmptySet
<1>5. StuckOnlyIfTorn
  BY DEF Init, StuckOnlyIfTorn
<1> QED BY <1>1, <1>2, <1>3, <1>4, <1>5 DEF Init, Inv

LEMMA InvStep == Inv /\ [Next]_vars => Inv'
<1> SUFFICES ASSUME Inv, [Next]_vars
             PROVE  Inv'
  OBVIOUS
<1>1. ASSUME NEW w \in Workers, NEW c \in Callers, Arrive(w, c)
      PROVE  Inv'
  BY <1>1, ArriveStep
<1>2. ASSUME NEW w \in Workers, Check(w)
      PROVE  Inv'
  BY <1>2, CheckBanStep, CountRequestStep, ReadTenStep, ReadDayStep, CheckPrintStep,
     CountMismatchStep, IncrementsStep, ExpiresStep, StoresStep DEF Check
<1>3. ASSUME NEW w \in Workers, RedisFails(w)
      PROVE  Inv'
  BY <1>3, BlockFailsStep, CheckFailsStep DEF RedisFails
<1>4. ASSUME NEW w \in Workers, Crash(w)
      PROVE  Inv'
  BY <1>4, CrashStep
<1>5. ASSUME NEW k \in Counters, Lapse(k)
      PROVE  Inv'
  BY <1>5, LapseStep
<1>6. ASSUME NEW a \in Accounts, LapsePrint(a)
      PROVE  Inv'
  BY <1>6, LapsePrintStep
<1>7. CASE UNCHANGED vars
  BY <1>7 DEF Inv, TypeOK, StuckOnlyIfTorn, Pending, Counted, In, Ledger, Soon, Later,
     vars, ghosts, bounds
<1> QED BY <1>1, <1>2, <1>3, <1>4, <1>5, <1>6, <1>7 DEF Next

\* Every variable, and the job of every worker, keeps its type.
THEOREM TypeCorrect == Spec => []TypeOK
<1>1. Inv => TypeOK
  BY DEF Inv
<1> QED BY <1>1, InvInit, InvStep, PTL DEF Spec

\* However the commands of the workers mix, a window lets through no more requests than
\* its limit.
THEOREM WindowsHold == Spec => []WithinWindow
<1>1. Inv => WithinWindow
  BY DEF Inv, Counted, In, WithinWindow
<1> QED BY <1>1, InvInit, InvStep, PTL DEF Spec

\* A counter that would never lapse is one whose EXPIRE was lost to a crash or an error,
\* or is about to be sent.
THEOREM StuckAlwaysTorn == Spec => []StuckOnlyIfTorn
<1>1. Inv => StuckOnlyIfTorn
  BY DEF Inv
<1> QED BY <1>1, InvInit, InvStep, PTL DEF Spec

\* The attempts that ban an account or an address are of its own refused requests, two
\* for each at most.
THEOREM AttemptsAlwaysRefusals == Spec => []AttemptsAreRefusals
<1>1. Inv => AttemptsAreRefusals
  <2> SUFFICES ASSUME Inv, NEW s \in Accounts \union Ips
               PROVE  count[<<"attempts", s>>] <= 2 * refused[s]
    BY DEF AttemptsAreRefusals
  <2>1. count[<<"attempts", s>>] + Cardinality(Soon(s)) + Cardinality(Later(s)) <= 2 * refused[s]
    BY DEF Inv, Ledger
  <2>2. Cardinality(Soon(s)) \in Nat /\ Cardinality(Later(s)) \in Nat
    BY ConstantsAssumption, FS_Subset, FS_CardinalityType DEF Soon, Later
  <2>3. count[<<"attempts", s>>] \in Nat /\ refused[s] \in Nat
    BY AttemptsOf DEF Inv, TypeOK
  <2> HIDE DEF Soon, Later
  <2> QED BY <2>1, <2>2, <2>3
<1> QED BY <1>1, InvInit, InvStep, PTL DEF Spec
-----------------------------------------------------------------------------
(* Ten minutes beside their day. *)

Pairs == {"usage", "anomaly"}
Daily == {"usage10", "usage24", "anomaly10", "anomaly24"}

TenKey(stage, a) == <<Ten(stage), a>>
DayKey(stage, a) == <<Day(stage), a>>

\* A block raises the counter k.
Raises(q, k) == \E i \in DOMAIN q : q[i] = <<"incr", k>>

\* What can be left of the block of an anomaly check.
Rests(t, d) ==
    {<<>>,
     <<<<"incr", t>>, <<"expire", t>>, <<"incr", d>>, <<"expire", d>>>>,
     <<<<"expire", t>>, <<"incr", d>>, <<"expire", d>>>>,
     <<<<"incr", d>>, <<"expire", d>>>>,
     <<<<"expire", d>>>>}

NoneDaily(q) == \A k \in About(q) : k[1] \notin Daily

\* A job raises the counters of ten minutes and of a day in the anomaly checks alone.
Blocks(j) ==
    /\ IF j.at \in Pairs
       THEN /\ j.late = <<>>
            /\ j.todo \in Rests(TenKey(j.at, AccountOf[j.who]), DayKey(j.at, AccountOf[j.who]))
       ELSE NoneDaily(j.todo) /\ NoneDaily(j.late)
    /\ j.next = "usage_anomaly" /\ (j.todo # <<>> \/ j.late # <<>>) => j.at = "usage"
    /\ \A k \in j.by : k[1] = "usage10" => k[2] = AccountOf[j.who]

\* A job with nothing to do is about to ask what it is at.
Asking(j) == j.at # "idle" /\ j.todo = <<>> => j.next \in Stages

Due(q, k) == IF Raises(q, k) THEN 1 ELSE 0
Holds(j, k) == IF k \in j.by THEN 1 ELSE 0
Passing(j, k) == IF k \in j.by /\ j.next # "usage_anomaly" THEN 1 ELSE 0

Whole(stage, a) == {TenKey(stage, a), DayKey(stage, a)} \intersect torn = {}

\* Ten minutes have counted all they have let through; the day all they have counted; and
\* the last request they let through found them within the average.
Fits(w, stage, a) ==
    LET t == TenKey(stage, a)
        d == DayKey(stage, a)
        j == job[w]
    IN /\ t \notin torn => served[t] + Holds(j, t) <= count[t] + Due(j.todo, t)
       /\ Whole(stage, a) => count[t] + Due(j.todo, t) <= count[d] + Due(j.todo, d)
       /\ Whole(stage, a) /\ stage = "usage" =>
            (served[t] + Passing(j, t) - 1) * WindowsPerDay <= Multiplier * count[d]

\* What was read of the ten minutes is at least what they are, and within the day.
ReadRight(w) ==
    LET j == job[w]
        a == AccountOf[j.who]
        d == DayKey(j.at, a)
    IN j.at \in Pairs /\ j.todo = <<>> /\ j.seen # <<>> =>
         /\ count[TenKey(j.at, a)] <= j.seen[1]
         /\ Whole(j.at, a) => j.seen[1] <= count[d] \/ count[d] = 0

DayInv(w) ==
    /\ Blocks(job[w]) /\ Asking(job[w]) /\ ReadRight(w)
    /\ \A stage \in Pairs, a \in Accounts : Fits(w, stage, a)

LEMMA PairKeys ==
    ASSUME NEW stage \in Pairs, NEW a \in Accounts
    PROVE  LET t == TenKey(stage, a)
               d == DayKey(stage, a)
           IN /\ t \in Counters /\ d \in Counters /\ t # d /\ t[1] \in Daily /\ d[1] \in Daily
              /\ t[2] = a /\ d[2] = a /\ t[1] = Ten(stage) /\ d[1] = Day(stage)
<1>1. Ten(stage) \in Daily /\ Day(stage) \in Daily /\ Ten(stage) # Day(stage)
  BY DEF Pairs, Daily, Ten, Day
<1>2. Daily \subseteq Families \ {"ip", "sticky", "attempts"}
  BY DEF Daily, Families
<1>3. \A f \in Daily : <<f, a>> \in Counters
  BY <1>2 DEF Counters
<1> QED BY <1>1, <1>3 DEF TenKey, DayKey

LEMMA PairsApart ==
    ASSUME NEW stage \in Pairs, NEW a, NEW st \in Pairs, NEW b, stage # st \/ a # b
    PROVE  {TenKey(stage, a), DayKey(stage, a)} \intersect {TenKey(st, b), DayKey(st, b)} = {}
BY DEF Pairs, TenKey, DayKey, Ten, Day

LEMMA RestsAre ==
    ASSUME NEW t \in Counters, NEW d \in Counters, t # d, NEW q \in Rests(t, d)
    PROVE  /\ q \in Seq(Commands) /\ About(q) \subseteq {t, d} /\ (q # <<>> => d \in About(q))
           /\ \A k : Raises(q, k) => k \in About(q)
           /\ Raises(q, t) => Raises(q, d)
<1>1. \A k \in Counters : <<"incr", k>> \in Commands /\ <<"expire", k>> \in Commands
  BY CommandsOf
<1>2. /\ <<"incr", t>>[1] = "incr" /\ <<"expire", t>>[1] = "expire" /\ <<"incr", d>>[1] = "incr"
      /\ <<"expire", d>>[1] = "expire" /\ <<"incr", t>>[2] = t /\ <<"expire", t>>[2] = t
      /\ <<"incr", d>>[2] = d /\ <<"expire", d>>[2] = d
  OBVIOUS
<1>3. ASSUME NEW k, Raises(q, k)
      PROVE  k \in About(q)
  <2>1. PICK i \in DOMAIN q : q[i] = <<"incr", k>>
    BY <1>3 DEF Raises
  <2> QED BY <2>1 DEF About
<1>4. CASE q = <<>>
  BY <1>3, <1>4, NothingToDo DEF Raises
<1>5. CASE q = <<<<"incr", t>>, <<"expire", t>>, <<"incr", d>>, <<"expire", d>>>>
  <2>1. /\ DOMAIN q = {1, 2, 3, 4} /\ q[1] = <<"incr", t>> /\ q[2] = <<"expire", t>>
        /\ q[3] = <<"incr", d>> /\ q[4] = <<"expire", d>> /\ q \in Seq(Commands)
    BY <1>1, <1>5
  <2> QED BY <1>2, <1>3, <2>1 DEF About, Raises
<1>6. CASE q = <<<<"expire", t>>, <<"incr", d>>, <<"expire", d>>>>
  <2>1. /\ DOMAIN q = {1, 2, 3} /\ q[1] = <<"expire", t>>
        /\ q[2] = <<"incr", d>> /\ q[3] = <<"expire", d>>
    BY <1>6
  <2>2. ~Raises(q, t)
    BY <2>1 DEF Raises
  <2>3. About(q) \subseteq {t, d}
    BY <1>2, <2>1 DEF About
  <2>4. d \in About(q)
    BY <1>2, <2>1 DEF About
  <2>5. q \in Seq(Commands)
    <3>1. \A x, y, z \in Commands : <<x, y, z>> \in Seq(Commands)
      OBVIOUS
    <3> QED BY <1>1, <1>6, <3>1
  <2> QED BY <1>3, <2>1, <2>2, <2>3, <2>4, <2>5
<1>7. CASE q = <<<<"incr", d>>, <<"expire", d>>>>
  <2>1. /\ DOMAIN q = {1, 2} /\ q[1] = <<"incr", d>> /\ q[2] = <<"expire", d>> /\ q \in Seq(Commands)
    BY <1>1, <1>7
  <2> QED BY <1>2, <1>3, <2>1 DEF About, Raises
<1>8. CASE q = <<<<"expire", d>>>>
  <2>1. DOMAIN q = {1} /\ q[1] = <<"expire", d>>
    BY <1>8
  <2>2. ~Raises(q, t)
    BY <2>1 DEF Raises
  <2>3. About(q) \subseteq {t, d} /\ d \in About(q)
    BY <1>2, <2>1 DEF About
  <2>4. q \in Seq(Commands)
    BY <1>8, ExpireSound
  <2> QED BY <1>3, <2>1, <2>2, <2>3, <2>4
<1> QED BY <1>4, <1>5, <1>6, <1>7, <1>8 DEF Rests

\* One command of such a block.
LEMMA RestsGoOn ==
    ASSUME NEW t \in Counters, NEW d \in Counters, t # d, NEW q \in Rests(t, d), q # <<>>
    PROVE  /\ Tail(q) \in Rests(t, d)
           /\ \/ /\ Head(q) = <<"incr", t>> /\ Raises(q, t) /\ Raises(q, d)
                 /\ ~Raises(Tail(q), t) /\ Raises(Tail(q), d) /\ {t, d} \subseteq About(q)
              \/ /\ Head(q) = <<"expire", t>> /\ ~Raises(q, t) /\ Raises(q, d)
                 /\ ~Raises(Tail(q), t) /\ Raises(Tail(q), d) /\ {t, d} \subseteq About(q)
              \/ /\ Head(q) = <<"incr", d>> /\ ~Raises(q, t) /\ Raises(q, d)
                 /\ ~Raises(Tail(q), t) /\ ~Raises(Tail(q), d)
              \/ /\ Head(q) = <<"expire", d>> /\ ~Raises(q, t) /\ ~Raises(q, d)
                 /\ ~Raises(Tail(q), t) /\ ~Raises(Tail(q), d)
<1> DEFINE q4 == <<<<"incr", t>>, <<"expire", t>>, <<"incr", d>>, <<"expire", d>>>>
           q3 == <<<<"expire", t>>, <<"incr", d>>, <<"expire", d>>>>
           q2 == <<<<"incr", d>>, <<"expire", d>>>>
           q1 == <<<<"expire", d>>>>
<1>1. /\ Head(q4) = <<"incr", t>> /\ Tail(q4) = q3 /\ Head(q3) = <<"expire", t>> /\ Tail(q3) = q2
      /\ Head(q2) = <<"incr", d>> /\ Tail(q2) = q1 /\ Head(q1) = <<"expire", d>> /\ Tail(q1) = <<>>
  OBVIOUS
<1>2. Raises(q4, t) /\ Raises(q4, d) /\ {t, d} \subseteq About(q4)
  <2>1. /\ DOMAIN q4 = {1, 2, 3, 4} /\ q4[1] = <<"incr", t>> /\ q4[3] = <<"incr", d>>
    OBVIOUS
  <2> QED BY <2>1 DEF Raises, About
<1>3. ~Raises(q3, t) /\ Raises(q3, d) /\ {t, d} \subseteq About(q3)
  <2>1. /\ DOMAIN q3 = {1, 2, 3} /\ q3[1] = <<"expire", t>>
        /\ q3[2] = <<"incr", d>> /\ q3[3] = <<"expire", d>>
    OBVIOUS
  <2> QED BY <2>1 DEF Raises, About
<1>4. ~Raises(q2, t) /\ Raises(q2, d)
  <2>1. DOMAIN q2 = {1, 2} /\ q2[1] = <<"incr", d>> /\ q2[2] = <<"expire", d>>
    OBVIOUS
  <2> QED BY <2>1 DEF Raises
<1>5. ~Raises(q1, t) /\ ~Raises(q1, d) /\ ~Raises(<<>>, t) /\ ~Raises(<<>>, d)
  <2>1. DOMAIN q1 = {1} /\ q1[1] = <<"expire", d>>
    OBVIOUS
  <2> QED BY <2>1 DEF Raises
<1>6. q \in {q4, q3, q2, q1} /\ {q3, q2, q1, <<>>} \subseteq Rests(t, d)
  BY DEF Rests
<1> HIDE DEF q4, q3, q2, q1
<1> QED BY <1>1, <1>2, <1>3, <1>4, <1>5, <1>6

LEMMA SettledBlocks ==
    ASSUME NEW j, Working(j), Blocks(j)
    PROVE  /\ Blocks(Settled(j)) /\ Asking(Settled(j))
           /\ Settled(j).at \in Pairs /\ Settled(j).seen # <<>> => Settled(j).todo # <<>>
           /\ Settled(j).next = j.next
           /\ \A k \in Counters : k[1] \in Daily => Due(Settled(j).todo, k) = Due(j.todo, k)
<1>1. /\ j \in Jobs /\ "idle" \notin Stages /\ "idle" \notin Pairs /\ "usage_anomaly" \notin Stages
      /\ NoneDaily(<<>>) /\ \A k : ~Raises(<<>>, k)
  BY NothingToDo DEF Working, Stages, Pairs, NoneDaily, Raises
<1>2. CASE j.todo # <<>>
  <2>1. Settled(j) = j
    BY <1>2 DEF Settled
  <2> QED BY <2>1, <1>2 DEF Asking
<1>3. CASE j.todo = <<>> /\ j.late # <<>>
  <2>1. Settled(j) = [j EXCEPT !.todo = j.late, !.late = <<>>]
    BY <1>3 DEF Settled
  <2>2. /\ Settled(j).todo = j.late /\ Settled(j).late = <<>> /\ Settled(j).at = j.at
        /\ Settled(j).next = j.next /\ Settled(j).who = j.who /\ Settled(j).by = j.by
    BY <2>1, <1>1 DEF Jobs
  <2>3. j.at \notin Pairs /\ NoneDaily(j.late)
    BY <1>3 DEF Blocks
  <2>4. ASSUME NEW k \in Counters, k[1] \in Daily
        PROVE  ~Raises(j.late, k)
    BY <2>3, <2>4 DEF NoneDaily, About, Raises
  <2> QED BY <1>1, <1>3, <2>2, <2>3, <2>4 DEF Blocks, Asking, Due
<1>4. CASE j.todo = <<>> /\ j.late = <<>> /\ j.next \in Stages
  <2>1. Settled(j) = [j EXCEPT !.at = j.next, !.seen = <<>>]
    BY <1>4 DEF Settled
  <2>2. /\ Settled(j).todo = <<>> /\ Settled(j).late = <<>> /\ Settled(j).at = j.next
        /\ Settled(j).next = j.next /\ Settled(j).seen = <<>> /\ Settled(j).who = j.who
        /\ Settled(j).by = j.by
    BY <2>1, <1>1, <1>4 DEF Jobs
  <2> QED BY <1>1, <1>4, <2>2 DEF Blocks, Asking, Rests
<1>5. CASE j.todo = <<>> /\ j.late = <<>> /\ j.next \notin Stages
  <2>1. Settled(j) = Idle(j.next)
    BY <1>5 DEF Settled
  <2>2. /\ Settled(j).todo = <<>> /\ Settled(j).late = <<>> /\ Settled(j).at = "idle"
        /\ Settled(j).next = j.next /\ Settled(j).by = {}
    BY <2>1 DEF Idle
  <2> QED BY <1>1, <1>5, <2>2 DEF Blocks, Asking
<1> QED BY <1>2, <1>3, <1>4, <1>5

\* A request that is served passes from those under way to those served.
LEMMA ServedMoves ==
    ASSUME TypeOK, NEW w \in Workers, NEW j, Working(j), Blocks(j), Becomes(w, j), NEW k \in Counters
    PROVE  /\ served'[k] \in Nat /\ served[k] \in Nat /\ job'[w] = Settled(j)
           /\ served'[k] + Holds(job'[w], k) <= served[k] + Holds(j, k)
           /\ served'[k] + Passing(job'[w], k) <= served[k] + Passing(j, k)
<1>1. /\ job'[w] = Settled(j) /\ served'[k] \in Nat /\ served[k] \in Nat
      /\ Settled(j).next = j.next /\ (k \in Settled(j).by => k \in j.by)
      /\ Settled(j).at = "idle" => Settled(j).by = {}
  BY Becoming, SettledBlocks, SettledBy DEF TypeOK
<1>2. CASE Settled(j).at = "idle" /\ j.next = "served"
  <2>1. served'[k] = served[k] + (IF k \in j.by THEN 1 ELSE 0)
    BY <1>2 DEF Becomes
  <2> QED BY <1>1, <1>2, <2>1 DEF Holds, Passing
<1>3. CASE ~(Settled(j).at = "idle" /\ j.next = "served")
  <2>1. served' = served
    BY <1>3 DEF Becomes
  <2> QED BY <1>1, <2>1 DEF Holds, Passing
<1> QED BY <1>2, <1>3

LEMMA Within ==
    ASSUME NEW n \in Int, NEW m \in Int, m <= n, NEW x \in Nat, NEW y \in Nat, x <= y,
           NEW p \in Nat, NEW q \in Nat, n * p <= q * x
    PROVE  m * p <= q * y
<1>1. m * p <= n * p
  <2>1. PICK z \in Nat : n = m + z
    <3>1. n - m \in Nat /\ n = m + (n - m)
      OBVIOUS
    <3> QED BY <3>1
  <2>2. n * p = m * p + z * p /\ z * p >= 0 /\ m * p \in Int /\ z * p \in Int
    BY <2>1
  <2> QED BY <2>2
<1>2. q * x <= q * y
  <2>1. PICK z \in Nat : y = x + z
    <3>1. y - x \in Nat /\ y = x + (y - x)
      OBVIOUS
    <3> QED BY <3>1
  <2>2. q * y = q * x + q * z /\ q * z >= 0 /\ q * x \in Int /\ q * z \in Int
    BY <2>1
  <2> QED BY <2>2
<1>3. m * p \in Int /\ n * p \in Int /\ q * x \in Int /\ q * y \in Int
  OBVIOUS
<1> QED BY <1>1, <1>2, <1>3

\* What a step of w has to show of one pair of counters.
LEMMA BecomesFits ==
    ASSUME TypeOK, NEW w \in Workers, NEW j, Working(j), Blocks(j), Becomes(w, j),
           NEW stage \in Pairs, NEW a \in Accounts, count' \in [Counters -> Nat],
           NEW t, t = TenKey(stage, a), NEW d, d = DayKey(stage, a),
           t \notin torn' => served[t] + Holds(j, t) <= count'[t] + Due(j.todo, t),
           Whole(stage, a)' => count'[t] + Due(j.todo, t) <= count'[d] + Due(j.todo, d),
           Whole(stage, a)' /\ stage = "usage" =>
              (served[t] + Passing(j, t) - 1) * WindowsPerDay <= Multiplier * count'[d]
    PROVE  Fits(w, stage, a)'
<1>1. t \in Counters /\ d \in Counters /\ t[1] \in Daily /\ d[1] \in Daily
  BY PairKeys
<1>2. /\ served'[t] \in Nat /\ served[t] \in Nat /\ job'[w] = Settled(j)
      /\ served'[t] + Holds(job'[w], t) <= served[t] + Holds(j, t)
      /\ served'[t] + Passing(job'[w], t) <= served[t] + Passing(j, t)
  BY <1>1, ServedMoves
<1>3. /\ Due(job'[w].todo, t) = Due(j.todo, t) /\ Due(job'[w].todo, d) = Due(j.todo, d)
  BY <1>1, <1>2, SettledBlocks
<1>4. \A i, k, q : /\ Holds(i, k) \in 0..1 /\ Passing(i, k) \in 0..1 /\ Due(q, k) \in 0..1
  BY DEF Holds, Passing, Due
<1>5. count'[t] \in Nat /\ count'[d] \in Nat /\ WindowsPerDay \in Nat /\ Multiplier \in Nat
  BY <1>1, ConstantsAssumption
<1>6. Whole(stage, a)' /\ stage = "usage" =>
        (served'[t] + Passing(job'[w], t) - 1) * WindowsPerDay <= Multiplier * count'[d]
  <2> SUFFICES ASSUME Whole(stage, a)', stage = "usage"
               PROVE  (served'[t] + Passing(job'[w], t) - 1) * WindowsPerDay <= Multiplier * count'[d]
    OBVIOUS
  <2> DEFINE n == served[t] + Passing(j, t) - 1
             m == served'[t] + Passing(job'[w], t) - 1
  <2>1. n \in Int /\ m \in Int /\ m <= n
    <3>1. Passing(j, t) \in 0..1 /\ Passing(job'[w], t) \in 0..1
      BY <1>4
    <3> QED BY <1>2, <3>1
  <2>2. n * WindowsPerDay <= Multiplier * count'[d]
    OBVIOUS
  <2> HIDE DEF n, m
  <2>3. m * WindowsPerDay <= Multiplier * count'[d]
    BY <1>5, <2>1, <2>2, Within
  <2> QED BY <2>3 DEF m
<1>7. t \notin torn' => served'[t] + Holds(job'[w], t) <= count'[t] + Due(job'[w].todo, t)
  BY <1>2, <1>3, <1>4, <1>5
<1>8. Whole(stage, a)' => count'[t] + Due(job'[w].todo, t) <= count'[d] + Due(job'[w].todo, d)
  BY <1>3
<1> QED BY <1>6, <1>7, <1>8 DEF Fits

\* A step that leaves a pair of counters alone.
LEMMA SameFits ==
    ASSUME TypeOK, NEW w \in Workers, NEW j, Working(j), Blocks(j), Becomes(w, j),
           NEW stage \in Pairs, NEW a \in Accounts, count' \in [Counters -> Nat],
           Fits(w, stage, a), torn \subseteq torn',
           NEW t, t = TenKey(stage, a), NEW d, d = DayKey(stage, a),
           count'[t] = count[t], count'[d] = count[d],
           Due(j.todo, t) = Due(job[w].todo, t), Due(j.todo, d) = Due(job[w].todo, d),
           Holds(j, t) <= Holds(job[w], t),
           Whole(stage, a)' /\ stage = "usage" => Passing(j, t) <= Passing(job[w], t)
    PROVE  Fits(w, stage, a)'
<1>1. t \in Counters /\ d \in Counters
  BY PairKeys
<1>2. /\ served[t] \in Nat /\ count[t] \in Nat /\ count[d] \in Nat
      /\ WindowsPerDay \in Nat /\ Multiplier \in Nat
  BY <1>1, ConstantsAssumption DEF TypeOK
<1>3. \A i, k, q : /\ Holds(i, k) \in 0..1 /\ Passing(i, k) \in 0..1 /\ Due(q, k) \in 0..1
  BY DEF Holds, Passing, Due
<1>4. Whole(stage, a)' => Whole(stage, a)
  BY DEF Whole
<1>5. t \notin torn' => served[t] + Holds(j, t) <= count'[t] + Due(j.todo, t)
  <2>1. t \notin torn' => served[t] + Holds(job[w], t) <= count[t] + Due(job[w].todo, t)
    BY DEF Fits
  <2>2. Holds(j, t) \in 0..1 /\ Holds(job[w], t) \in 0..1 /\ Due(j.todo, t) \in 0..1
    BY <1>3
  <2> QED BY <1>2, <2>1, <2>2
<1>6. Whole(stage, a)' => count'[t] + Due(j.todo, t) <= count'[d] + Due(j.todo, d)
  BY <1>4 DEF Fits
<1>7. Whole(stage, a)' /\ stage = "usage" =>
        (served[t] + Passing(j, t) - 1) * WindowsPerDay <= Multiplier * count'[d]
  <2> SUFFICES ASSUME Whole(stage, a)', stage = "usage"
               PROVE  (served[t] + Passing(j, t) - 1) * WindowsPerDay <= Multiplier * count[d]
    OBVIOUS
  <2> DEFINE n == served[t] + Passing(job[w], t) - 1
             m == served[t] + Passing(j, t) - 1
  <2>1. n \in Int /\ m \in Int /\ m <= n
    <3>1. Passing(j, t) \in 0..1 /\ Passing(job[w], t) \in 0..1
      BY <1>3
    <3> QED BY <1>2, <3>1
  <2>2. n * WindowsPerDay <= Multiplier * count[d]
    BY <1>4 DEF Fits
  <2> HIDE DEF n, m
  <2>3. m * WindowsPerDay <= Multiplier * count[d]
    BY <1>2, <2>1, <2>2, Within
  <2> QED BY <2>3 DEF m
<1> QED BY <1>5, <1>6, <1>7, BecomesFits

LEMMA ReadRightBecomes ==
    ASSUME TypeOK, NEW w \in Workers, NEW j, Working(j), Blocks(j), Becomes(w, j)
    PROVE  Blocks(job'[w]) /\ Asking(job'[w]) /\ ReadRight(w)'
<1>1. job'[w] = Settled(j)
  BY Becoming
<1> QED BY <1>1, SettledBlocks DEF ReadRight

\* A step of a request that is not at an anomaly check.
LEMMA Elsewhere ==
    ASSUME Inv, NEW w \in Workers, DayInv(w), NEW j, Working(j), Becomes(w, j),
           job[w].at \notin Pairs, j.at \notin Pairs, j.next # "usage_anomaly",
           NoneDaily(j.todo), NoneDaily(j.late),
           j.by = {} \/ (job[w].at # "idle" /\ j.who = job[w].who),
           \A k \in Counters : k[1] \in Daily => count'[k] = count[k] /\ (k \in j.by => k \in job[w].by),
           count' \in [Counters -> Nat], torn \subseteq torn'
    PROVE  DayInv(w)'
<1>1. Blocks(j)
  <2>1. \A k \in j.by : k \in Counters
    BY DEF Working, Jobs
  <2> QED BY <2>1 DEF DayInv, Blocks, Daily
<1>2. NoneDaily(job[w].todo)
  BY DEF DayInv, Blocks
<1>3. job[w].at # "idle" => job[w].next # "usage_anomaly"
  BY DEF DayInv, Blocks, Asking, Stages, Pairs
<1>4. ASSUME NEW stage \in Pairs, NEW a \in Accounts
      PROVE  Fits(w, stage, a)'
  <2> DEFINE t == TenKey(stage, a)
             d == DayKey(stage, a)
  <2>1. t \in Counters /\ d \in Counters /\ t[1] \in Daily /\ d[1] \in Daily
    BY PairKeys
  <2>2. ASSUME NEW k \in Counters, k[1] \in Daily
        PROVE  ~Raises(j.todo, k) /\ ~Raises(job[w].todo, k)
    BY <1>2, <2>2 DEF NoneDaily, About, Raises
  <2>3. Due(j.todo, t) = Due(job[w].todo, t) /\ Due(j.todo, d) = Due(job[w].todo, d)
    BY <2>1, <2>2 DEF Due
  <2>4. Holds(j, t) <= Holds(job[w], t) /\ Passing(j, t) <= Passing(job[w], t)
    BY <1>3, <2>1 DEF Holds, Passing
  <2>5. count'[t] = count[t] /\ count'[d] = count[d] /\ Fits(w, stage, a) /\ TypeOK
    BY <2>1 DEF DayInv, Inv
  <2> HIDE DEF t, d
  <2> QED BY <1>1, <2>3, <2>4, <2>5, SameFits DEF t, d
<1> QED BY <1>1, <1>4, ReadRightBecomes DEF DayInv, Inv

LEMMA AfterVerdict ==
    ASSUME NEW c \in Callers, NEW stage
    PROVE  After(c, stage) \notin {"usage_anomaly", "anomaly_detected"}
<1> DEFINE route == Checks[RouteOf[c]]
           later == {i \in DOMAIN route : i > 1 /\ route[i - 1] = stage}
<1>1. \A i \in DOMAIN route : route[i] \in Stages
  <2>1. CASE RouteOf[c] = "http"
    <3>1. route = <<"ip", "account", "sticky", "anomaly">>
      BY <2>1 DEF Checks
    <3> QED BY <3>1 DEF Stages
  <2>2. CASE RouteOf[c] = "llm"
    <3>1. route = <<"ban", "ip", "burst", "account", "usage", "print">>
      BY <2>2 DEF Checks
    <3> QED BY <3>1 DEF Stages
  <2> QED BY <2>1, <2>2, Routes
<1>2. CASE later = {}
  BY <1>2 DEF After, Features
<1>3. CASE later # {}
  <2>1. (CHOOSE i \in later : TRUE) \in DOMAIN route
    BY <1>3
  <2>2. route[CHOOSE i \in later : TRUE] \in Stages
    BY <1>1, <2>1
  <2> QED BY <1>3, <2>2 DEF After, Stages
<1> QED BY <1>2, <1>3

\* The commands of a check that is not of the anomalies.
LEMMA RecordsNotDaily ==
    /\ NoneDaily(<<>>)
    /\ \A c \in Callers : \A stage : NoneDaily(OwnRecord(c, stage)) /\ NoneDaily(RouteRecord(c))
    /\ \A k : k[1] \notin Daily => NoneDaily(<<<<"expire", k>>>>)
    /\ \A a : NoneDaily(<<<<"set", a>>>>) /\ NoneDaily(<<<<"set", a>>, <<"set", a>>>>)
<1>1. NoneDaily(<<>>)
  BY NothingToDo DEF NoneDaily
<1>2. ASSUME NEW q \in Seq(Commands), NEW r \in Seq(Commands), NoneDaily(q), NoneDaily(r)
      PROVE  NoneDaily(q \o r)
  <2> DEFINE z == q \o r
  <2> SUFFICES ASSUME NEW i \in DOMAIN z, z[i][1] # "set"
               PROVE  z[i][2][1] \notin Daily
    BY DEF NoneDaily, About
  <2>1. /\ Len(q) \in Nat /\ Len(r) \in Nat /\ DOMAIN q = 1..Len(q) /\ DOMAIN r = 1..Len(r)
        /\ DOMAIN z = 1..Len(q) + Len(r)
        /\ \A n \in 1..Len(q) : z[n] = q[n]
        /\ \A n \in 1..Len(r) : z[Len(q) + n] = r[n]
    BY JoinParts
  <2> HIDE DEF z
  <2>2. CASE i <= Len(q)
    <3>1. i \in DOMAIN q /\ z[i] = q[i]
      BY <2>1, <2>2
    <3>2. q[i][2] \in About(q)
      BY <3>1 DEF About
    <3> QED BY <1>2, <3>1, <3>2 DEF NoneDaily
  <2>3. CASE ~(i <= Len(q))
    <3> DEFINE n == i - Len(q)
    <3>1. n \in 1..Len(r) /\ Len(q) + n = i
      BY <2>1, <2>3
    <3>2. n \in DOMAIN r /\ z[i] = r[n]
      BY <2>1, <3>1
    <3>3. r[n][2] \in About(r)
      BY <3>2 DEF About
    <3> QED BY <1>2, <3>2, <3>3 DEF NoneDaily
  <2> QED BY <2>2, <2>3
<1>3. ASSUME NEW s \in Accounts \union Ips
      PROVE  Both(<<"attempts", s>>) \in Seq(Commands) /\ NoneDaily(Both(<<"attempts", s>>))
  <2> DEFINE k == <<"attempts", s>>
  <2>1. /\ Both(k) \in Seq(Commands) /\ DOMAIN Both(k) = {1, 2}
        /\ Both(k)[1] = <<"incr", k>> /\ Both(k)[2] = <<"expire", k>>
    BY AttemptsOf, BothType DEF Both
  <2>2. k[1] \notin Daily
    BY DEF Daily
  <2> HIDE DEF k
  <2>3. Both(k)[1][2] = k /\ Both(k)[2][2] = k
    BY <2>1
  <2>4. About(Both(k)) \subseteq {k}
    BY <2>1, <2>3 DEF About
  <2>5. NoneDaily(Both(k))
    BY <2>2, <2>4 DEF NoneDaily
  <2> QED BY <2>1, <2>5 DEF k
<1>4. ASSUME NEW a \in Accounts, NEW ip \in Ips
      PROVE  NoneDaily(Attempt(a, ip))
  BY <1>2, <1>3 DEF Attempt
<1>5. ASSUME NEW c \in Callers, NEW stage
      PROVE  NoneDaily(OwnRecord(c, stage)) /\ NoneDaily(RouteRecord(c))
  BY <1>1, <1>3, <1>4, CallersAre DEF OwnRecord, RouteRecord
<1>6. \A k : k[1] \notin Daily => NoneDaily(<<<<"expire", k>>>>)
  BY DEF NoneDaily, About
<1>7. \A a : NoneDaily(<<<<"set", a>>>>) /\ NoneDaily(<<<<"set", a>>, <<"set", a>>>>)
  BY DEF NoneDaily, About
<1> QED BY <1>1, <1>5, <1>6, <1>7

LEMMA ArriveDay ==
    ASSUME Inv, NEW w \in Workers, DayInv(w), NEW c \in Callers, Arrive(w, c)
    PROVE  DayInv(w)'
<1> DEFINE first == IF RouteOf[c] = "llm" /\ KindOf[c] = "stream" THEN "not_for_free"
                    ELSE Head(Checks[RouteOf[c]])
           j == [Idle(first) EXCEPT !.who = c]
<1>1. first \in Stages \union {"not_for_free"}
  BY Routes DEF Checks, Stages
<1>2. /\ j.who = c /\ j.at = "idle" /\ j.todo = <<>> /\ j.late = <<>> /\ j.next = first
      /\ j.seen = <<>> /\ j.by = {} /\ (Idle(first) \in Jobs => j \in Jobs)
  <2> HIDE DEF first
  <2> QED BY DEF Idle, Jobs
<1>3. Working(j) /\ j.at \notin Pairs /\ j.next # "usage_anomaly"
  <2>1. Idle(first) \in Jobs
    BY <1>1, IdleType DEF Verdicts
  <2>2. j \in Jobs
    BY <1>2, <2>1
  <2>3. first # "usage_anomaly"
    BY <1>1 DEF Stages
  <2> QED BY <1>2, <2>2, <2>3 DEF Working, Pairs
<1>4. Becomes(w, j) /\ job[w].at = "idle" /\ UNCHANGED <<count, torn>>
  BY DEF Arrive
<1>5. job[w].at \notin Pairs
  BY <1>4 DEF Pairs
<1>6. j.by = {} /\ j.todo = <<>> /\ j.late = <<>>
  BY <1>2
<1> HIDE DEF j
<1> QED BY <1>3, <1>4, <1>5, <1>6, RecordsNotDaily, Elsewhere DEF Inv, TypeOK

\* A check that goes on with nothing to raise.
LEMMA PlainDay ==
    ASSUME Inv, NEW w \in Workers, DayInv(w), job[w].at \notin Pairs \union {"idle"},
           job[w].todo = <<>>,
           NEW next \in Stages \union Verdicts, next # "usage_anomaly",
           NEW todo \in Seq(Commands), NoneDaily(todo),
           Becomes(w, [job[w] EXCEPT !.next = next, !.todo = todo]),
           \A k \in Counters : k[1] \in Daily => count'[k] = count[k],
           count' \in [Counters -> Nat], torn \subseteq torn'
    PROVE  DayInv(w)'
<1> DEFINE j == [job[w] EXCEPT !.next = next, !.todo = todo]
<1>1. job[w] \in Jobs /\ job[w].late = <<>> /\ Working(job[w])
  BY AtWork DEF Inv, Shape, Working
<1>2. /\ Working(j) /\ j.at = job[w].at /\ j.next = next /\ j.todo = todo /\ j.late = <<>>
      /\ j.by = job[w].by /\ j.who = job[w].who
  BY <1>1 DEF Working, Jobs
<1> HIDE DEF j
<1> QED BY <1>2, RecordsNotDaily, Elsewhere DEF j

LEMMA CheckBanDay ==
    ASSUME Inv, NEW w \in Workers, DayInv(w), CheckBan(w)
    PROVE  DayInv(w)'
<1> DEFINE j == job[w]
<1>1. /\ j.at = "ban" /\ j.todo = <<>> /\ UNCHANGED <<count, torn>> /\ "ban" \notin Pairs \union {"idle"}
      /\ j.who \in Callers /\ j \in Jobs
  BY AtWork DEF CheckBan, Asks, Pairs, Working
<1>2. \E next \in {"banned", After(j.who, j.at)} : Becomes(w, [j EXCEPT !.next = next])
  BY DEF CheckBan, Passes
<1>3. PICK next \in {"banned", After(j.who, j.at)} : Becomes(w, [j EXCEPT !.next = next])
  BY <1>2
<1>4. next \in Stages \union Verdicts /\ next # "usage_anomaly"
  BY <1>1, AfterType, AfterVerdict DEF Verdicts
<1>5. [j EXCEPT !.next = next] = [j EXCEPT !.next = next, !.todo = <<>>] /\ <<>> \in Seq(Commands)
  BY <1>1 DEF Jobs
<1> QED BY <1>1, <1>3, <1>4, <1>5, PlainDay, RecordsNotDaily DEF Inv, TypeOK

LEMMA CheckPrintDay ==
    ASSUME Inv, NEW w \in Workers, DayInv(w), CheckPrint(w)
    PROVE  DayInv(w)'
<1> DEFINE j == job[w]
           a == AccountOf[j.who]
           after == After(j.who, "print")
<1>1. /\ j.at = "print" /\ j.todo = <<>> /\ UNCHANGED <<count, torn>>
      /\ "print" \notin Pairs \union {"idle"} /\ j.who \in Callers /\ j \in Jobs
  BY AtWork DEF CheckPrint, Asks, Pairs, Working
<1>2. \/ Becomes(w, [j EXCEPT !.next = after, !.todo = <<<<"set", a>>, <<"set", a>>>>])
      \/ Becomes(w, [j EXCEPT !.next = after, !.todo = <<<<"set", a>>>>])
      \/ Becomes(w, [j EXCEPT !.next = "mismatch"])
  <2> DEFINE in == [j EXCEPT !.next = after]
  <2>1. /\ [in EXCEPT !.todo = <<<<"set", a>>, <<"set", a>>>>]
             = [j EXCEPT !.next = after, !.todo = <<<<"set", a>>, <<"set", a>>>>]
        /\ [in EXCEPT !.todo = <<<<"set", a>>>>] = [j EXCEPT !.next = after, !.todo = <<<<"set", a>>>>]
    BY <1>1 DEF Jobs
  <2> QED BY <2>1 DEF CheckPrint
<1>3. /\ after \in Stages \union Verdicts /\ after # "usage_anomaly" /\ "mismatch" \in Stages
  BY <1>1, AfterType, AfterVerdict DEF Stages
<1>4. [j EXCEPT !.next = "mismatch"] = [j EXCEPT !.next = "mismatch", !.todo = <<>>]
  BY <1>1 DEF Jobs
<1>5. <<"set", a>> \in Commands
  BY <1>1, CallersAre DEF Commands
<1>6. /\ <<<<"set", a>>, <<"set", a>>>> \in Seq(Commands) /\ <<<<"set", a>>>> \in Seq(Commands)
      /\ <<>> \in Seq(Commands)
  BY <1>5, OneCommand
<1>7. /\ \A k \in Counters : count'[k] = count[k]
      /\ count' \in [Counters -> Nat] /\ torn \subseteq torn'
  BY <1>1 DEF Inv, TypeOK
<1> HIDE DEF after, a
<1> QED BY <1>1, <1>2, <1>3, <1>4, <1>6, <1>7, PlainDay, RecordsNotDaily

LEMMA CountMismatchDay ==
    ASSUME Inv, NEW w \in Workers, DayInv(w), CountMismatch(w)
    PROVE  DayInv(w)'
<1> DEFINE j == job[w]
           k == Key("mismatches", j.who)
           next == IF count[k] + 1 > MaxMismatches THEN "banned" ELSE "mismatch_found"
<1>1. /\ j.at = "mismatch" /\ j.todo = <<>> /\ UNCHANGED torn
      /\ "mismatch" \notin Pairs \union {"idle"}
  BY DEF CountMismatch, Asks, Pairs
<1>2. j.who \in Callers /\ j \in Jobs /\ k \in Counters /\ Incr(k)
  BY <1>1, AtWork, CounterOf DEF Working, Families, CountMismatch
<1>3. Becomes(w, [j EXCEPT !.next = next, !.todo = <<<<"expire", k>>>>])
  <2>1. [j EXCEPT !.todo = <<<<"expire", k>>>>, !.next = next]
          = [j EXCEPT !.next = next, !.todo = <<<<"expire", k>>>>]
    BY <1>2 DEF Jobs
  <2> QED BY <2>1 DEF CountMismatch
<1>4. k[1] \notin Daily /\ next \in Verdicts /\ next # "usage_anomaly"
  BY DEF Key, Daily, Verdicts
<1>5. /\ count' \in [Counters -> Nat] /\ \A m \in Counters \ {k} : count'[m] = count[m]
  BY <1>2, Raised DEF Inv
<1> HIDE DEF next, k
<1> QED BY <1>1, <1>2, <1>3, <1>4, <1>5, ExpireSound, PlainDay, RecordsNotDaily

LEMMA CountRequestDay ==
    ASSUME Inv, NEW w \in Workers, DayInv(w), CountRequest(w)
    PROVE  DayInv(w)'
<1>1. PICK stage \in Windows :
        /\ Asks(w, stage)
        /\ LET j == job[w]
               c == j.who
               k == Key(stage, c)
               in == [j EXCEPT !.next = After(c, stage), !.by = @ \union {k}]
           IN /\ Incr(k)
              /\ \/ Becomes(w, [j EXCEPT
                                  !.next = "limited", !.todo = OwnRecord(c, stage),
                                  !.late = IF stage = "sticky" THEN <<>> ELSE RouteRecord(c)])
                 \/ Becomes(w, [in EXCEPT !.todo = <<<<"expire", k>>>>])
                 \/ Becomes(w, in)
  BY DEF CountRequest
<1> DEFINE j == job[w]
           c == j.who
           k == Key(stage, c)
           in == [j EXCEPT !.next = After(c, stage), !.by = @ \union {k}]
           J1 == [j EXCEPT !.next = "limited", !.todo = OwnRecord(c, stage),
                           !.late = IF stage = "sticky" THEN <<>> ELSE RouteRecord(c)]
           J2 == [in EXCEPT !.todo = <<<<"expire", k>>>>]
<1>2. /\ j.at = stage /\ j.todo = <<>> /\ j.late = <<>> /\ UNCHANGED torn
      /\ stage \notin Pairs \union {"idle"} /\ stage \in Families \ {"attempts"}
  BY <1>1 DEF CountRequest, Asks, Windows, Inv, Shape, Pairs, Families
<1>3. c \in Callers /\ k \in Counters /\ k[1] = stage /\ k[1] \notin Daily /\ Incr(k) /\ j \in Jobs
      /\ Working(j)
  BY <1>1, <1>2, AtWork, CounterOf DEF Windows, Key, Working, Daily
<1>4. /\ count' \in [Counters -> Nat] /\ \A m \in Counters \ {k} : count'[m] = count[m]
  BY <1>3, Raised DEF Inv
<1>5. /\ After(c, stage) \in Stages \union Verdicts /\ After(c, stage) # "usage_anomaly"
      /\ OwnRecord(c, stage) \in Seq(Commands) /\ RouteRecord(c) \in Seq(Commands)
      /\ "limited" \in Verdicts /\ <<<<"expire", k>>>> \in Seq(Commands)
  BY <1>3, AfterType, AfterVerdict, RecordTypes, ExpireSound DEF Verdicts
<1>6. /\ Working(J1) /\ J1.at = stage /\ J1.who = c /\ J1.next = "limited" /\ J1.by = j.by
      /\ J1.todo = OwnRecord(c, stage) /\ J1.late \in {<<>>, RouteRecord(c)}
  <2> HIDE DEF k
  <2> QED BY <1>2, <1>3, <1>5 DEF Working, Jobs
<1>7. /\ Working(in) /\ in.at = stage /\ in.who = c /\ in.next = After(c, stage) /\ in.by = j.by \union {k}
      /\ in.todo = <<>> /\ in.late = <<>>
  <2> HIDE DEF k
  <2> QED BY <1>2, <1>3, <1>5 DEF Working, Jobs
<1>8. /\ Working(J2) /\ J2.at = stage /\ J2.who = c /\ J2.next = After(c, stage) /\ J2.by = j.by \union {k}
      /\ J2.todo = <<<<"expire", k>>>> /\ J2.late = <<>>
  <2> HIDE DEF k
  <2>1. in \in Jobs /\ in.who \in Callers
    BY <1>7 DEF Working
  <2> HIDE DEF in
  <2> QED BY <1>2, <1>5, <1>7, <2>1 DEF Working, Jobs
<1>9. /\ \A m \in Counters : m[1] \in Daily => count'[m] = count[m] /\ m # k
      /\ torn \subseteq torn'
  BY <1>2, <1>3, <1>4
<1>10. CASE Becomes(w, J1)
  <2> HIDE DEF J1, k
  <2> QED BY <1>2, <1>3, <1>4, <1>6, <1>9, <1>10, RecordsNotDaily, Elsewhere
<1>11. CASE Becomes(w, J2)
  <2> HIDE DEF J2, k
  <2>1. NoneDaily(J2.todo) /\ NoneDaily(J2.late)
    BY <1>3, <1>8, RecordsNotDaily
  <2>2. J2.at \notin Pairs /\ J2.next # "usage_anomaly" /\ j.at \notin Pairs \union {"idle"}
    BY <1>2, <1>5, <1>8
  <2>3. \A m \in Counters : m[1] \in Daily => count'[m] = count[m] /\ (m \in J2.by => m \in j.by)
    BY <1>8, <1>9
  <2> QED BY <1>4, <1>8, <1>9, <1>11, <2>1, <2>2, <2>3, Elsewhere
<1>12. CASE Becomes(w, in)
  <2> HIDE DEF in, k
  <2>1. NoneDaily(in.todo) /\ NoneDaily(in.late)
    BY <1>7, RecordsNotDaily
  <2>2. in.at \notin Pairs /\ in.next # "usage_anomaly" /\ j.at \notin Pairs \union {"idle"}
    BY <1>2, <1>5, <1>7
  <2>3. \A m \in Counters : m[1] \in Daily => count'[m] = count[m] /\ (m \in in.by => m \in j.by)
    BY <1>7, <1>9
  <2> QED BY <1>4, <1>7, <1>9, <1>12, <2>1, <2>2, <2>3, Elsewhere
<1> QED BY <1>1, <1>10, <1>11, <1>12

-----------------------------------------------------------------------------
(* Steps of an anomaly check. *)

LEMMA AtPair ==
    ASSUME Inv, NEW w \in Workers, DayInv(w), job[w].at \in Pairs
    PROVE  LET j == job[w]
               b == AccountOf[j.who]
               t == TenKey(j.at, b)
               d == DayKey(j.at, b)
           IN /\ Working(j) /\ j \in Jobs /\ j.at # "idle" /\ j.who \in Callers /\ b \in Accounts
              /\ t \in Counters /\ d \in Counters /\ t # d /\ t[1] = Ten(j.at) /\ t[2] = b
              /\ t = Key(Ten(j.at), j.who) /\ d = Key(Day(j.at), j.who)
              /\ j.todo \in Rests(t, d) /\ j.late = <<>> /\ Fits(w, j.at, b)
              /\ j.todo = <<>> => j.next # "usage_anomaly"
              /\ j.next = "usage_anomaly" => j.at = "usage"
<1> DEFINE j == job[w]
           b == AccountOf[j.who]
<1>1. j.at # "idle" /\ j.at \in {"usage", "anomaly"}
  BY DEF Pairs
<1>2. Working(j) /\ j \in Jobs /\ j.who \in Callers
  BY <1>1, AtWork DEF Working
<1>3. b \in Accounts
  BY <1>2, CallersAre
<1>4. /\ TenKey(j.at, b) = Key(Ten(j.at), j.who) /\ DayKey(j.at, b) = Key(Day(j.at), j.who)
  BY <1>1 DEF TenKey, DayKey, Ten, Day, Key
<1>5. "usage_anomaly" \notin Stages
  BY DEF Stages
<1>6. /\ j.todo = <<>> => j.next # "usage_anomaly"
      /\ j.next = "usage_anomaly" => j.at = "usage"
  BY <1>1, <1>5 DEF DayInv, Asking, Blocks
<1> QED BY <1>1, <1>2, <1>3, <1>4, <1>6, PairKeys DEF DayInv, Blocks

\* A step of an anomaly check keeps the invariant if it does for its own two counters.
LEMMA PairDay ==
    ASSUME Inv, NEW w \in Workers, DayInv(w), NEW st \in Pairs, st = job[w].at,
           NEW b, b = AccountOf[job[w].who],
           NEW t, t = TenKey(st, b), NEW d, d = DayKey(st, b),
           NEW j, Working(j), Becomes(w, j), j.at = st, j.who = job[w].who,
           j.late = <<>>, j.todo \in Rests(t, d), j.by \subseteq job[w].by \union {t},
           j.todo # <<>> /\ j.next = "usage_anomaly" => st = "usage",
           \A k \in Counters \ {t, d} : count'[k] = count[k],
           count' \in [Counters -> Nat], torn \subseteq torn',
           Blocks(j) => Fits(w, st, b)'
    PROVE  DayInv(w)'
<1>1. /\ t \in Counters /\ d \in Counters /\ t # d /\ t[1] = Ten(st) /\ t[2] = b
      /\ job[w].todo \in Rests(t, d) /\ b \in Accounts
      /\ job[w].next = "usage_anomaly" => st = "usage"
  BY AtPair
<1>2. Blocks(j)
  BY <1>1 DEF DayInv, Blocks, Ten
<1>3. ASSUME NEW stage \in Pairs, NEW a \in Accounts, stage # st \/ a # b
      PROVE  Fits(w, stage, a)'
  <2> DEFINE x == TenKey(stage, a)
             y == DayKey(stage, a)
  <2>1. x \in Counters /\ y \in Counters /\ x[1] = Ten(stage) /\ x[2] = a
    BY PairKeys
  <2>2. x \notin {t, d} /\ y \notin {t, d}
    BY <1>3, PairsApart
  <2>3. /\ ~Raises(j.todo, x) /\ ~Raises(j.todo, y) /\ ~Raises(job[w].todo, x)
        /\ ~Raises(job[w].todo, y)
    BY <1>1, <2>2, RestsAre
  <2>4. Due(j.todo, x) = Due(job[w].todo, x) /\ Due(j.todo, y) = Due(job[w].todo, y)
    BY <2>3 DEF Due
  <2>5. Holds(j, x) <= Holds(job[w], x)
    BY <2>2 DEF Holds
  <2>6. stage = "usage" => Passing(j, x) <= Passing(job[w], x)
    <3> SUFFICES ASSUME stage = "usage", x \in j.by
                 PROVE  x \in job[w].by /\ job[w].next # "usage_anomaly"
      BY DEF Passing
    <3>1. x[1] = "usage10"
      BY <2>1 DEF Ten
    <3>2. x[2] = b
      BY <1>2, <3>1 DEF Blocks
    <3>3. st # "usage"
      BY <1>3, <2>1, <3>2
    <3> QED BY <1>1, <2>2, <3>3
  <2>7. Fits(w, stage, a) /\ TypeOK /\ count'[x] = count[x] /\ count'[y] = count[y]
    BY <2>1, <2>2 DEF DayInv, Inv
  <2> HIDE DEF x, y
  <2> QED BY <1>2, <2>4, <2>5, <2>6, <2>7, SameFits DEF x, y
<1>4. \A stage \in Pairs, a \in Accounts : Fits(w, stage, a)'
  BY <1>2, <1>3
<1> QED BY <1>2, <1>4, ReadRightBecomes DEF DayInv, Inv

LEMMA ReadTenDay ==
    ASSUME Inv, NEW w \in Workers, DayInv(w), ReadTen(w)
    PROVE  DayInv(w)'
<1> DEFINE j == job[w]
           b == AccountOf[j.who]
           t == TenKey(j.at, b)
           d == DayKey(j.at, b)
<1>1. /\ j.at \in Pairs /\ j.todo = <<>> /\ UNCHANGED <<count, torn, served>>
      /\ job' = [job EXCEPT ![w].seen = <<count[Key(Ten(j.at), j.who)]>>]
  BY DEF ReadTen, Asks, Pairs, ghosts
<1>2. /\ j \in Jobs /\ t = Key(Ten(j.at), j.who) /\ b \in Accounts /\ Fits(w, j.at, b)
      /\ t \in Counters /\ d \in Counters
  BY <1>1, AtPair
<1>3. job' = [job EXCEPT ![w].seen = <<count[t]>>]
  BY <1>1, <1>2
<1> HIDE DEF t, d
<1>4. /\ job'[w].at = j.at /\ job'[w].who = j.who /\ job'[w].todo = j.todo /\ job'[w].late = j.late
      /\ job'[w].next = j.next /\ job'[w].by = j.by /\ job'[w].seen = <<count[t]>>
  BY <1>2, <1>3 DEF Jobs, Inv, TypeOK
<1>5. Blocks(job'[w]) /\ Asking(job'[w])
  BY <1>4 DEF DayInv, Blocks, Asking
<1>6. \A stage \in Pairs, a \in Accounts : Fits(w, stage, a)'
  BY <1>1, <1>4 DEF DayInv, Fits, Whole, Holds, Passing
<1>7. ReadRight(w)'
  <2>1. job'[w].seen[1] = count[t]
    BY <1>4
  <2>2. ~Raises(<<>>, t) /\ ~Raises(<<>>, d)
    BY DEF Raises
  <2>3. Whole(j.at, b) => count[t] <= count[d]
    <3>1. Whole(j.at, b) => count[t] + Due(j.todo, t) <= count[d] + Due(j.todo, d)
      BY <1>2 DEF Fits, t, d
    <3>2. Due(j.todo, t) = 0 /\ Due(j.todo, d) = 0 /\ count[t] \in Nat /\ count[d] \in Nat
      BY <1>1, <1>2, <2>2 DEF Due, Inv, TypeOK
    <3> QED BY <3>1, <3>2
  <2>4. count[t] \in Nat
    BY <1>2 DEF Inv, TypeOK
  <2> QED BY <1>1, <1>4, <2>1, <2>3, <2>4 DEF ReadRight, Whole, t, d
<1> QED BY <1>5, <1>6, <1>7 DEF DayInv

LEMMA BothRests ==
    ASSUME NEW t \in Counters, NEW d \in Counters
    PROVE  Both(t) \o Both(d) = <<<<"incr", t>>, <<"expire", t>>, <<"incr", d>>, <<"expire", d>>>>
<1> DEFINE x == Both(t)
           y == Both(d)
           z == x \o y
<1>1. /\ x \in Seq(Commands) /\ y \in Seq(Commands) /\ Len(x) = 2 /\ Len(y) = 2
      /\ x[1] = <<"incr", t>> /\ x[2] = <<"expire", t>>
      /\ y[1] = <<"incr", d>> /\ y[2] = <<"expire", d>>
  BY BothType
<1> HIDE DEF x, y
<1>2. /\ z \in Seq(Commands) /\ DOMAIN z = 1..4
      /\ \A i \in 1..2 : z[i] = x[i] /\ z[2 + i] = y[i]
  <2>1. /\ z \in Seq(Commands) /\ DOMAIN z = 1..Len(x) + Len(y)
        /\ \A i \in 1..Len(x) : z[i] = x[i]
        /\ \A i \in 1..Len(y) : z[Len(x) + i] = y[i]
    BY <1>1, JoinParts
  <2> HIDE DEF z
  <2> QED BY <1>1, <2>1
<1>3. z[1] = x[1] /\ z[2] = x[2] /\ z[3] = y[1] /\ z[4] = y[2]
  <2>1. 1 \in 1..2 /\ 2 \in 1..2 /\ 2 + 1 = 3 /\ 2 + 2 = 4
    OBVIOUS
  <2> HIDE DEF z
  <2> QED BY <1>2, <2>1
<1> HIDE DEF z
<1>4. Len(z) = 4
  BY <1>2
<1>5. z = <<z[1], z[2], z[3], z[4]>>
  BY <1>2, <1>4
<1> QED BY <1>1, <1>3, <1>5 DEF x, y, z

LEMMA ReadDayDay ==
    ASSUME Inv, NEW w \in Workers, DayInv(w), ReadDay(w)
    PROVE  DayInv(w)'
<1>0. PICK st, b : st = job[w].at /\ b = AccountOf[job[w].who]
  OBVIOUS
<1> DEFINE j == job[w]
           t == TenKey(st, b)
           d == DayKey(st, b)
           next == IF Spike(st, j.seen[1], count[d]) THEN Anomaly(st) ELSE After(j.who, st)
           J == [j EXCEPT !.todo = Both(t) \o Both(d), !.next = next, !.by = @ \union {t}]
<1>1. /\ st \in Pairs /\ j.at = st /\ j.todo = <<>> /\ j.seen # <<>> /\ UNCHANGED <<count, torn>>
      /\ Becomes(w, [j EXCEPT
              !.todo = Both(Key(Ten(st), j.who)) \o Both(Key(Day(st), j.who)),
              !.next = IF Spike(st, j.seen[1], count[Key(Day(st), j.who)]) THEN Anomaly(st)
                       ELSE After(j.who, st),
              !.by = @ \union {Key(Ten(st), j.who)}])
  BY <1>0 DEF ReadDay, Asks, Pairs
<1>2. /\ Working(j) /\ j \in Jobs /\ t = Key(Ten(st), j.who) /\ d = Key(Day(st), j.who)
      /\ b \in Accounts /\ Fits(w, st, b) /\ t \in Counters /\ d \in Counters /\ t # d
      /\ j.late = <<>> /\ j.who \in Callers /\ t[1] = Ten(st)
  BY <1>0, <1>1, AtPair
<1>3. Becomes(w, J)
  BY <1>1, <1>2
<1>4. /\ next \in Stages \union Verdicts /\ (next = "usage_anomaly" => st = "usage")
      /\ next = "usage_anomaly" <=> st = "usage" /\ Spike(st, j.seen[1], count[d])
  BY <1>1, <1>2, AfterType, AfterVerdict DEF Pairs, Anomaly, Verdicts
<1>5. /\ Both(t) \o Both(d) \in Rests(t, d) /\ Both(t) \o Both(d) \in Seq(Commands)
      /\ Both(t) \o Both(d) # <<>> /\ Raises(Both(t) \o Both(d), t) /\ Raises(Both(t) \o Both(d), d)
  <2> DEFINE q == Both(t) \o Both(d)
  <2>1. q = <<<<"incr", t>>, <<"expire", t>>, <<"incr", d>>, <<"expire", d>>>>
    BY <1>2, BothRests
  <2>2. q \in Rests(t, d) /\ q # <<>> /\ Head(q) = <<"incr", t>>
    BY <2>1 DEF Rests
  <2> HIDE DEF q, t, d
  <2>3. /\ q \in Seq(Commands) /\ Raises(q, t) /\ Raises(q, d)
    BY <1>2, <2>2, RestsAre, RestsGoOn
  <2> QED BY <2>2, <2>3 DEF q
<1>6. /\ Working(J) /\ J.at = st /\ J.who = j.who /\ J.late = <<>> /\ J.todo = Both(t) \o Both(d)
      /\ J.next = next /\ J.by = j.by \union {t}
  <2> DEFINE q == Both(t) \o Both(d)
  <2>1. q \in Seq(Commands)
    BY <1>5
  <2> HIDE DEF next, t, d, q
  <2>2. LET K == [j EXCEPT !.todo = q, !.next = next, !.by = @ \union {t}]
        IN /\ Working(K) /\ K.at = st /\ K.who = j.who /\ K.late = <<>> /\ K.todo = q
           /\ K.next = next /\ K.by = j.by \union {t}
    BY <1>1, <1>2, <1>4, <2>1 DEF Working, Jobs, Pairs
  <2> QED BY <2>2 DEF q
<1>7. /\ count[t] \in Nat /\ count[d] \in Nat /\ served[t] \in Nat /\ j.seen[1] \in Nat
      /\ WindowsPerDay \in Nat /\ Multiplier \in Nat
  <2>1. j.seen \in Seq(Nat)
    BY <1>2 DEF Jobs
  <2>2. j.seen[1] \in Nat
    BY <1>1, <2>1
  <2> QED BY <1>2, <2>2, ConstantsAssumption DEF Inv, TypeOK
<1>8. /\ Due(j.todo, t) = 0 /\ Due(j.todo, d) = 0 /\ Due(J.todo, t) = 1 /\ Due(J.todo, d) = 1
      /\ Holds(J, t) = 1 /\ Holds(j, t) \in 0..1
      /\ Passing(J, t) = IF next = "usage_anomaly" THEN 0 ELSE 1
  <2>1. ~Raises(<<>>, t) /\ ~Raises(<<>>, d)
    BY DEF Raises
  <2> HIDE DEF J, t, d, next
  <2> QED BY <1>1, <1>5, <1>6, <2>1 DEF Due, Holds, Passing
<1>9. t \notin torn => served[t] <= count[t]
  <2>1. t \notin torn => served[t] + Holds(j, t) <= count[t] + Due(j.todo, t)
    BY <1>2 DEF Fits
  <2> HIDE DEF t
  <2> QED BY <1>7, <1>8, <2>1
<1>10. Whole(st, b) => count[t] <= count[d] /\ t \notin torn
  <2>1. Whole(st, b) => count[t] + Due(j.todo, t) <= count[d] + Due(j.todo, d)
    BY <1>2 DEF Fits
  <2>2. Whole(st, b) => t \notin torn
    BY DEF Whole
  <2> HIDE DEF t, d
  <2> QED BY <1>7, <1>8, <2>1, <2>2
<1>11. count[t] <= j.seen[1]
  BY <1>0, <1>1 DEF DayInv, ReadRight
<1>12. Whole(st, b) /\ st = "usage" =>
         (served[t] + Passing(J, t) - 1) * WindowsPerDay <= Multiplier * count[d]
  <2> SUFFICES ASSUME Whole(st, b), st = "usage"
               PROVE  (served[t] + Passing(J, t) - 1) * WindowsPerDay <= Multiplier * count[d]
    OBVIOUS
  <2>1. CASE next = "usage_anomaly"
    <3>1. /\ (served[t] + Passing(j, t) - 1) * WindowsPerDay <= Multiplier * count[d]
      BY <1>2 DEF Fits
    <3> DEFINE n == served[t] + Passing(j, t) - 1
               m == served[t] + Passing(J, t) - 1
    <3>2. n \in Int /\ m \in Int /\ m <= n
      <4>1. Passing(j, t) \in 0..1 /\ Passing(J, t) = 0
        BY <1>8, <2>1 DEF Passing
      <4> HIDE DEF t, J
      <4> QED BY <1>7, <4>1
    <3>3. n * WindowsPerDay <= Multiplier * count[d]
      BY <3>1
    <3> HIDE DEF n, m, t, d
    <3>4. m * WindowsPerDay <= Multiplier * count[d]
      BY <1>7, <3>2, <3>3, Within
    <3> QED BY <3>4 DEF m
  <2>2. CASE next # "usage_anomaly"
    <3>1. ~Spike("usage", j.seen[1], count[d])
      BY <1>4, <2>2
    <3>2. served[t] <= count[t] /\ count[t] <= count[d]
      BY <1>9, <1>10
    <3>3. served[t] + Passing(J, t) - 1 = served[t]
      <4> HIDE DEF t, J
      <4> QED BY <1>7, <1>8, <2>2
    <3>4. CASE count[d] = 0
      <4>1. served[t] = 0
        <5> HIDE DEF t, d
        <5> QED BY <1>7, <3>2, <3>4
      <4>2. 0 * WindowsPerDay = 0 /\ Multiplier * 0 = 0
        BY <1>7
      <4> HIDE DEF t, d, J
      <4> QED BY <3>3, <3>4, <4>1, <4>2
    <3>5. CASE count[d] # 0
      <4>1. j.seen[1] * WindowsPerDay <= Multiplier * count[d]
        <5> HIDE DEF t, d
        <5>1. ~(j.seen[1] * WindowsPerDay > Multiplier * count[d])
          BY <1>7, <3>1, <3>5 DEF Spike
        <5> DEFINE l == j.seen[1] * WindowsPerDay
                   r == Multiplier * count[d]
        <5>2. l \in Int /\ r \in Int
          BY <1>7
        <5>3. ~(l > r)
          BY <5>1
        <5> HIDE DEF l, r
        <5>4. l <= r
          BY <5>2, <5>3
        <5> QED BY <5>4 DEF l, r
      <4>2. served[t] <= j.seen[1]
        <5> HIDE DEF t, d
        <5> QED BY <1>7, <1>11, <3>2
      <4>3. served[t] * WindowsPerDay <= Multiplier * count[d]
        <5> HIDE DEF t, d
        <5> QED BY <1>7, <4>1, <4>2, Within
      <4> QED BY <3>3, <4>3
    <3> QED BY <3>4, <3>5
  <2> QED BY <2>1, <2>2
<1>13. Blocks(J) => Fits(w, st, b)'
  <2>1. t \notin torn' => served[t] + Holds(J, t) <= count'[t] + Due(J.todo, t)
    <3> HIDE DEF t, J
    <3> QED BY <1>1, <1>7, <1>8, <1>9
  <2>2. Whole(st, b)' => Whole(st, b)
    BY <1>1 DEF Whole
  <2>3. Whole(st, b)' => count'[t] + Due(J.todo, t) <= count'[d] + Due(J.todo, d)
    <3> HIDE DEF t, d, J
    <3> QED BY <1>1, <1>7, <1>8, <1>10, <2>2
  <2>4. TypeOK /\ count' \in [Counters -> Nat]
    BY <1>1 DEF Inv, TypeOK
  <2>5. Whole(st, b)' /\ st = "usage" =>
         (served[t] + Passing(J, t) - 1) * WindowsPerDay <= Multiplier * count'[d]
    BY <1>1, <1>12, <2>2
  <2> HIDE DEF J
  <2> QED BY <1>1, <1>2, <1>3, <1>6, <2>1, <2>3, <2>4, <2>5, BecomesFits
<1>14. /\ \A k \in Counters : count'[k] = count[k]
       /\ count' \in [Counters -> Nat] /\ torn \subseteq torn'
  BY <1>1 DEF Inv, TypeOK
<1> HIDE DEF J, next
<1>15. J.todo \in Rests(t, d) /\ (J.todo # <<>> /\ J.next = "usage_anomaly" => st = "usage")
  BY <1>4, <1>5, <1>6
<1> HIDE DEF t, d
<1>16. t = TenKey(st, b) /\ d = DayKey(st, b) /\ job[w].at = st
  BY <1>0 DEF t, d
<1> QED BY <1>0, <1>1, <1>3, <1>6, <1>13, <1>14, <1>15, <1>16, PairDay

LEMMA RaisesAbout ==
    ASSUME NEW q, NEW k, Raises(q, k)
    PROVE  k \in About(q)
<1>1. PICK i \in DOMAIN q : q[i] = <<"incr", k>>
  BY DEF Raises
<1> QED BY <1>1 DEF About

\* A command of a block that is not of an anomaly check.
LEMMA GoOnElsewhere ==
    ASSUME Inv, NEW w \in Workers, DayInv(w), job[w].at \notin Pairs, job[w].todo # <<>>,
           NEW next \in Stages \union Verdicts, next # "usage_anomaly",
           NEW todo \in {<<>>, Tail(job[w].todo)},
           Becomes(w, [job[w] EXCEPT !.todo = todo, !.next = next]),
           \A k \in Counters : k[1] \in Daily => count'[k] = count[k],
           count' \in [Counters -> Nat], torn \subseteq torn'
    PROVE  DayInv(w)'
<1> DEFINE j == [job[w] EXCEPT !.todo = todo, !.next = next]
<1>1. /\ job[w].at # "idle" /\ Working(job[w]) /\ job[w].todo \in Seq(Commands)
      /\ NoneDaily(job[w].todo) /\ NoneDaily(job[w].late) /\ job[w] \in Jobs
  BY InBlock, AtWork DEF DayInv, Blocks, Working
<1>2. NoneDaily(todo) /\ todo \in Seq(Commands)
  <2>1. About(Tail(job[w].todo)) \subseteq About(job[w].todo) /\ Tail(job[w].todo) \in Seq(Commands)
    BY <1>1, AboutTail
  <2>2. NoneDaily(Tail(job[w].todo))
    BY <1>1, <2>1 DEF NoneDaily
  <2>3. <<>> \in Seq(Commands) /\ NoneDaily(<<>>)
    BY RecordsNotDaily
  <2> QED BY <2>1, <2>2, <2>3
<1>3. /\ Working(j) /\ j.at = job[w].at /\ j.who = job[w].who /\ j.todo = todo
      /\ j.late = job[w].late /\ j.next = next /\ j.by = job[w].by
  BY <1>1, <1>2 DEF Working, Jobs
<1> HIDE DEF j
<1> QED BY <1>1, <1>2, <1>3, Elsewhere DEF j

\* The next command of an anomaly check.
LEMMA GoOnAtPair ==
    ASSUME Inv, NEW w \in Workers, DayInv(w), NEW st \in Pairs, st = job[w].at,
           job[w].todo # <<>>, Next1(w), torn \subseteq torn',
           \/ Head(job[w].todo)[1] = "incr" /\ Incr(Head(job[w].todo)[2])
           \/ Head(job[w].todo)[1] = "expire" /\ count' = count
    PROVE  DayInv(w)'
<1>0. PICK b : b = AccountOf[job[w].who]
  OBVIOUS
<1> DEFINE q == job[w].todo
           t == TenKey(st, b)
           d == DayKey(st, b)
           J == [job[w] EXCEPT !.todo = Tail(@)]
<1>1. /\ b \in Accounts /\ t \in Counters /\ d \in Counters /\ t # d /\ q \in Rests(t, d)
      /\ job[w].late = <<>> /\ Fits(w, st, b) /\ job[w] \in Jobs /\ st # "idle"
      /\ job[w].next = "usage_anomaly" => st = "usage"
  BY <1>0, AtPair
<1> HIDE DEF t, d
<1>2. /\ Working(J) /\ J.todo = Tail(q) /\ J.late = <<>> /\ J.by = job[w].by
      /\ J.at = st /\ J.who = job[w].who /\ J.next = job[w].next
  <2>1. J.at = st /\ J.who = job[w].who /\ J.next = job[w].next
    BY <1>1 DEF Jobs
  <2> QED BY <1>1, <2>1, InBlock
<1>3. Becomes(w, J)
  BY DEF Next1
<1>4. /\ Tail(q) \in Rests(t, d)
      /\ \/ /\ Head(q) = <<"incr", t>> /\ Raises(q, t) /\ Raises(q, d)
            /\ ~Raises(Tail(q), t) /\ Raises(Tail(q), d)
         \/ /\ Head(q) = <<"expire", t>> /\ ~Raises(q, t) /\ Raises(q, d)
            /\ ~Raises(Tail(q), t) /\ Raises(Tail(q), d)
         \/ /\ Head(q) = <<"incr", d>> /\ ~Raises(q, t) /\ Raises(q, d)
            /\ ~Raises(Tail(q), t) /\ ~Raises(Tail(q), d)
         \/ /\ Head(q) = <<"expire", d>> /\ ~Raises(q, t) /\ ~Raises(q, d)
            /\ ~Raises(Tail(q), t) /\ ~Raises(Tail(q), d)
  BY <1>1, RestsGoOn
<1>5. /\ \A k : <<"incr", k>>[1] = "incr" /\ <<"incr", k>>[2] = k /\ <<"expire", k>>[1] = "expire"
      /\ "incr" # "expire"
  OBVIOUS
<1>6. /\ count' \in [Counters -> Nat] /\ \A k \in Counters \ {t, d} : count'[k] = count[k]
      /\ \/ /\ Raises(q, t) /\ Raises(q, d) /\ count'[t] = count[t] + 1 /\ count'[d] = count[d]
            /\ ~Raises(Tail(q), t) /\ Raises(Tail(q), d)
         \/ /\ ~Raises(q, t) /\ Raises(q, d) /\ count'[t] = count[t] /\ count'[d] = count[d]
            /\ ~Raises(Tail(q), t) /\ Raises(Tail(q), d)
         \/ /\ ~Raises(q, t) /\ Raises(q, d) /\ count'[t] = count[t] /\ count'[d] = count[d] + 1
            /\ ~Raises(Tail(q), t) /\ ~Raises(Tail(q), d)
         \/ /\ ~Raises(q, t) /\ ~Raises(q, d) /\ count'[t] = count[t] /\ count'[d] = count[d]
            /\ ~Raises(Tail(q), t) /\ ~Raises(Tail(q), d)
  <2>1. TypeOK /\ count \in [Counters -> Nat]
    BY DEF Inv, TypeOK
  <2>2. CASE Head(q) = <<"incr", t>>
    <3>1. Incr(t)
      BY <1>5, <2>2
    <3>2. /\ count' \in [Counters -> Nat] /\ count'[t] = count[t] + 1
          /\ \A m \in Counters \ {t} : count'[m] = count[m]
      BY <1>1, <2>1, <3>1, Raised
    <3> HIDE DEF q
    <3> QED BY <1>1, <1>4, <1>5, <2>2, <3>2
  <2>3. CASE Head(q) = <<"incr", d>>
    <3>1. Incr(d)
      BY <1>5, <2>3
    <3>2. /\ count' \in [Counters -> Nat] /\ count'[d] = count[d] + 1
          /\ \A m \in Counters \ {d} : count'[m] = count[m]
      BY <1>1, <2>1, <3>1, Raised
    <3> HIDE DEF q
    <3> QED BY <1>1, <1>4, <1>5, <2>3, <3>2
  <2>4. CASE Head(q) \in {<<"expire", t>>, <<"expire", d>>}
    <3>1. count' = count
      BY <1>5, <2>4
    <3> HIDE DEF q
    <3> QED BY <1>1, <1>4, <1>5, <2>1, <2>4, <3>1
  <2> HIDE DEF q
  <2> QED BY <1>4, <2>2, <2>3, <2>4
<1>7. /\ count[t] \in Nat /\ count[d] \in Nat /\ served[t] \in Nat /\ count'[d] \in Nat
      /\ WindowsPerDay \in Nat /\ Multiplier \in Nat
      /\ Due(q, t) \in 0..1 /\ Due(q, d) \in 0..1 /\ Holds(job[w], t) \in 0..1
      /\ Passing(job[w], t) \in 0..1
  BY <1>1, <1>6, ConstantsAssumption DEF Inv, TypeOK, Due, Holds, Passing
<1>8. /\ count'[t] + Due(Tail(q), t) = count[t] + Due(q, t)
      /\ count'[d] + Due(Tail(q), d) = count[d] + Due(q, d)
      /\ count[d] <= count'[d]
  <2> HIDE DEF q
  <2> QED BY <1>6, <1>7 DEF Due
<1>9. Holds(J, t) = Holds(job[w], t) /\ Passing(J, t) = Passing(job[w], t)
  BY <1>2 DEF Holds, Passing
<1>10. Whole(st, b)' => Whole(st, b)
  BY DEF Whole
<1>11. Whole(st, b)' /\ st = "usage" =>
         (served[t] + Passing(J, t) - 1) * WindowsPerDay <= Multiplier * count'[d]
  <2> SUFFICES ASSUME Whole(st, b)', st = "usage"
               PROVE  (served[t] + Passing(job[w], t) - 1) * WindowsPerDay <= Multiplier * count'[d]
    BY <1>9
  <2> DEFINE n == served[t] + Passing(job[w], t) - 1
  <2>1. n \in Int /\ n <= n
    BY <1>7
  <2>2. n * WindowsPerDay <= Multiplier * count[d]
    BY <1>1, <1>10 DEF Fits, t, d
  <2> HIDE DEF n
  <2>3. n * WindowsPerDay <= Multiplier * count'[d]
    BY <1>7, <1>8, <2>1, <2>2, Within
  <2> QED BY <2>3 DEF n
<1>12. Blocks(J) => Fits(w, st, b)'
  <2>1. t \notin torn' => served[t] + Holds(J, t) <= count'[t] + Due(J.todo, t)
    <3>1. t \notin torn' => served[t] + Holds(job[w], t) <= count[t] + Due(q, t)
      BY <1>1 DEF Fits, t
    <3> QED BY <1>2, <1>8, <1>9, <3>1
  <2>2. Whole(st, b)' => count'[t] + Due(J.todo, t) <= count'[d] + Due(J.todo, d)
    <3>1. Whole(st, b)' => count[t] + Due(q, t) <= count[d] + Due(q, d)
      BY <1>1, <1>10 DEF Fits, t, d
    <3> QED BY <1>2, <1>8, <3>1
  <2>3. TypeOK /\ t = TenKey(st, b) /\ d = DayKey(st, b)
    BY DEF Inv, t, d
  <2> HIDE DEF J, q
  <2> QED BY <1>1, <1>2, <1>3, <1>6, <1>11, <2>1, <2>2, <2>3, BecomesFits
<1>13. t = TenKey(st, b) /\ d = DayKey(st, b)
  BY DEF t, d
<1>14. J.todo \in Rests(t, d) /\ (J.todo # <<>> /\ J.next = "usage_anomaly" => st = "usage")
  BY <1>1, <1>2, <1>4
<1> HIDE DEF J, q
<1> QED BY <1>0, <1>2, <1>3, <1>6, <1>12, <1>13, <1>14, PairDay

LEMMA IncrementsDay ==
    ASSUME Inv, NEW w \in Workers, DayInv(w), Increments(w)
    PROVE  DayInv(w)'
<1> DEFINE op == Head(job[w].todo)
<1>1. job[w].todo # <<>> /\ op[1] = "incr" /\ Incr(op[2]) /\ Next1(w) /\ UNCHANGED torn
  BY DEF Increments
<1>2. CASE job[w].at \in Pairs
  <2>1. PICK st \in Pairs : st = job[w].at
    BY <1>2
  <2> QED BY <1>1, <2>1, GoOnAtPair
<1>3. CASE job[w].at \notin Pairs
  <2>1. /\ op[2] \in Counters /\ job[w].todo \in Seq(Commands) /\ job[w] \in Jobs
    BY <1>1, InBlock, AtWork DEF Working
  <2>2. op[2][1] \notin Daily
    BY <1>1, <1>3, <2>1, AboutTail DEF DayInv, Blocks, NoneDaily
  <2>3. job[w].next # "usage_anomaly" /\ job[w].next \in Stages \union Verdicts
    BY <1>1, <1>3, <2>1 DEF DayInv, Blocks, Jobs, Pairs
  <2>4. [job[w] EXCEPT !.todo = Tail(@)] = [job[w] EXCEPT !.todo = Tail(job[w].todo), !.next = job[w].next]
    BY <2>1 DEF Jobs
  <2>5. count' \in [Counters -> Nat] /\ \A m \in Counters \ {op[2]} : count'[m] = count[m]
    BY <1>1, <2>1, Raised DEF Inv
  <2> QED BY <1>1, <1>3, <2>1, <2>2, <2>3, <2>4, <2>5, GoOnElsewhere DEF Next1
<1> QED BY <1>2, <1>3

\* EXPIRE and SETEX.
LEMMA OthersDay ==
    ASSUME Inv, NEW w \in Workers, DayInv(w), job[w].todo # <<>>,
           Head(job[w].todo)[1] \in {"expire", "set"}, Next1(w), count' = count, torn \subseteq torn'
    PROVE  DayInv(w)'
<1>1. job[w].todo \in Seq(Commands) /\ job[w] \in Jobs
  BY InBlock, AtWork DEF Working
<1>2. CASE job[w].at \in Pairs
  <2>1. PICK st \in Pairs : st = job[w].at
    BY <1>2
  <2>2. Head(job[w].todo)[1] # "set"
    <3>1. PICK t, d : /\ t \in Counters /\ d \in Counters /\ t # d /\ job[w].todo \in Rests(t, d)
      BY <1>2, AtPair
    <3>2. PICK op \in {"incr", "expire"}, k \in {t, d} : Head(job[w].todo) = <<op, k>>
      BY <3>1, RestsGoOn
    <3> QED BY <3>2
  <2> QED BY <2>1, <2>2, GoOnAtPair
<1>3. CASE job[w].at \notin Pairs
  <2>1. job[w].next # "usage_anomaly" /\ job[w].next \in Stages \union Verdicts
    BY <1>1, <1>3 DEF DayInv, Blocks, Jobs, Pairs
  <2>2. [job[w] EXCEPT !.todo = Tail(@)] = [job[w] EXCEPT !.todo = Tail(job[w].todo), !.next = job[w].next]
    BY <1>1 DEF Jobs
  <2> QED BY <1>1, <1>3, <2>1, <2>2, GoOnElsewhere DEF Next1, Inv, TypeOK
<1> QED BY <1>2, <1>3

LEMMA BlockFailsDay ==
    ASSUME Inv, NEW w \in Workers, DayInv(w), BlockFails(w)
    PROVE  DayInv(w)'
<1> DEFINE j == job[w]
           op == Head(j.todo)
           next == CASE j.at \in {"usage", "anomaly"} -> After(j.who, j.at)
                     [] j.at = "mismatch" -> "mismatch_found"
                     [] OTHER -> j.next
           J == [j EXCEPT !.todo = <<>>, !.next = next]
<1>1. /\ j.todo # <<>> /\ torn' = torn \union About(j.todo)
      /\ IF op[1] = "set" THEN Next1(w) ELSE Becomes(w, J)
      /\ UNCHANGED count \/ (op[1] = "incr" /\ Incr(op[2]))
  <2>1. j \in Jobs
    BY DEF Inv, TypeOK
  <2>2. [j EXCEPT !.todo = <<>>, !.next = CASE j.at \in {"usage", "anomaly"} -> After(j.who, j.at)
                     [] j.at = "mismatch" -> "mismatch_found"
                     [] OTHER -> @] = J
    BY <2>1 DEF Jobs
  <2> QED BY <2>2 DEF BlockFails
<1>2. /\ j.todo \in Seq(Commands) /\ j \in Jobs /\ Working(j) /\ j.at # "idle" /\ op \in Commands
      /\ (op[1] # "set" => op[2] \in Counters) /\ j.who \in Callers
  BY <1>1, InBlock, AtWork DEF Working
<1>3. op[1] = "set" => count' = count
  BY <1>1
<1>4. /\ count' \in [Counters -> Nat]
      /\ op[1] # "set" => \A m \in Counters \ {op[2]} : count'[m] = count[m]
  <2>1. TypeOK /\ count \in [Counters -> Nat]
    BY DEF Inv, TypeOK
  <2>2. CASE UNCHANGED count
    BY <2>1, <2>2
  <2>3. CASE op[1] = "incr" /\ Incr(op[2])
    BY <1>2, <2>1, <2>3, Raised
  <2> QED BY <1>1, <2>2, <2>3
<1>5. CASE op[1] = "set"
  BY <1>1, <1>3, <1>5, OthersDay
<1>6. CASE op[1] # "set" /\ j.at \notin Pairs
  <2>1. op[2][1] \notin Daily
    BY <1>1, <1>2, <1>6, AboutTail DEF DayInv, Blocks, NoneDaily
  <2>2. next \in Stages \union Verdicts /\ next # "usage_anomaly"
    <3>1. j.next # "usage_anomaly" /\ j.next \in Stages \union Verdicts
      BY <1>1, <1>2, <1>6 DEF DayInv, Blocks, Jobs, Pairs
    <3>2. next \in {"mismatch_found", j.next}
      BY <1>6 DEF Pairs
    <3> QED BY <3>1, <3>2 DEF Verdicts
  <2>3. \A k \in Counters : k[1] \in Daily => count'[k] = count[k]
    BY <1>4, <1>6, <2>1
  <2>4. torn \subseteq torn' /\ Becomes(w, J)
    BY <1>1, <1>6
  <2> HIDE DEF next
  <2> QED BY <1>1, <1>4, <1>6, <2>2, <2>3, <2>4, GoOnElsewhere
<1>7. CASE op[1] # "set" /\ j.at \in Pairs
  <2>0. PICK st \in Pairs, b \in {AccountOf[job[w].who]} : st = j.at /\ b = AccountOf[job[w].who]
    BY <1>7
  <2> DEFINE t == TenKey(st, b)
             d == DayKey(st, b)
  <2>1. /\ b \in Accounts /\ t \in Counters /\ d \in Counters /\ t # d /\ j.todo \in Rests(t, d)
        /\ j.late = <<>> /\ Fits(w, st, b) /\ st # "idle"
    BY <2>0, AtPair
  <2>2. next \in Stages \union Verdicts /\ next # "usage_anomaly"
    BY <1>2, <1>7, AfterType, AfterVerdict DEF Pairs
  <2> HIDE DEF t, d
  <2>3. /\ Working(J) /\ J.todo = <<>> /\ J.late = <<>> /\ J.by = j.by /\ J.at = st
        /\ J.who = j.who /\ J.next = next
    <3> HIDE DEF next
    <3>1. <<>> \in Seq(Commands)
      OBVIOUS
    <3> QED BY <1>2, <2>0, <2>1, <2>2, <3>1 DEF Working, Jobs
  <2>4. d \in torn' /\ Becomes(w, J) /\ torn \subseteq torn'
    BY <1>1, <1>7, <2>1, RestsAre
  <2>5. ~Whole(st, b)'
    BY <2>4 DEF Whole, d
  <2>6. t \notin torn' => op[2] = d /\ ~Raises(j.todo, t)
    <3>1. t \notin torn' => t \notin About(j.todo)
      BY <1>1
    <3> HIDE DEF op
    <3>2. t \notin torn' => op \in {<<"incr", d>>, <<"expire", d>>} /\ ~Raises(j.todo, t)
      BY <1>1, <2>1, <3>1, RestsGoOn DEF op
    <3> QED BY <3>2
  <2>7. t \notin torn' => served[t] + Holds(J, t) <= count'[t] + Due(J.todo, t)
    <3> SUFFICES ASSUME t \notin torn'
                 PROVE  served[t] + Holds(J, t) <= count'[t] + Due(J.todo, t)
      OBVIOUS
    <3>1. served[t] + Holds(j, t) <= count[t] + Due(j.todo, t)
      BY <2>1, <2>4 DEF Fits, t
    <3>2. Holds(J, t) = Holds(j, t) /\ Due(j.todo, t) = 0 /\ Due(J.todo, t) = 0
      <4>1. ~Raises(<<>>, t)
        BY DEF Raises
      <4> HIDE DEF J
      <4> QED BY <2>3, <2>6, <4>1 DEF Holds, Due
    <3>3. count'[t] = count[t]
      BY <1>4, <1>7, <2>1, <2>6
    <3> QED BY <3>1, <3>2, <3>3
  <2>8. TypeOK /\ t = TenKey(st, b) /\ d = DayKey(st, b)
    BY DEF Inv, t, d
  <2>9. Blocks(J) => Fits(w, st, b)'
    <3> HIDE DEF J
    <3> QED BY <1>4, <2>1, <2>3, <2>4, <2>5, <2>7, <2>8, BecomesFits
  <2>10. op[2] \in {t, d}
    BY <1>1, <1>2, <1>7, <2>1, RestsAre, AboutTail
  <2>11. /\ \A k \in Counters \ {t, d} : count'[k] = count[k]
         /\ <<>> \in Rests(t, d)
    BY <1>4, <1>7, <2>10 DEF Rests
  <2> HIDE DEF J, next
  <2> QED BY <1>4, <2>0, <2>1, <2>3, <2>4, <2>8, <2>9, <2>11, PairDay
<1> QED BY <1>5, <1>6, <1>7

LEMMA CheckFailsDay ==
    ASSUME Inv, NEW w \in Workers, DayInv(w), CheckFails(w)
    PROVE  DayInv(w)'
<1> DEFINE j == job[w]
           k == Key(j.at, j.who)
           after == After(j.who, j.at)
<1>1. /\ j.at # "idle" /\ j.todo = <<>>
      /\ \/ /\ j.at = "print"
            /\ Becomes(w, [j EXCEPT !.next = After(j.who, "print"),
                                    !.todo = <<<<"set", AccountOf[j.who]>>>>])
         \/ j.at = "mismatch" /\ Becomes(w, [j EXCEPT !.next = "mismatch_found"])
         \/ j.at \notin {"print", "mismatch"} /\ Passes(w)
      /\ \/ UNCHANGED <<count, torn>>
         \/ j.at \in Windows /\ Incr(k) /\ torn' = torn \union {k}
  BY DEF CheckFails
<1>2. /\ Working(j) /\ j \in Jobs /\ j.who \in Callers /\ j.late = <<>>
  BY <1>1, AtWork DEF Working, Inv, Shape
<1>3. after \in Stages \union Verdicts /\ after # "usage_anomaly"
  BY <1>2, AfterType, AfterVerdict
<1>4. [j EXCEPT !.next = after] = [j EXCEPT !.next = after, !.todo = <<>>]
  BY <1>1, <1>2 DEF Jobs
<1>5. [j EXCEPT !.next = "mismatch_found"] = [j EXCEPT !.next = "mismatch_found", !.todo = <<>>]
  BY <1>1, <1>2 DEF Jobs
<1>6. /\ count' \in [Counters -> Nat] /\ torn \subseteq torn'
      /\ \A m \in Counters : m[1] \in Daily => count'[m] = count[m]
  <2>1. CASE UNCHANGED <<count, torn>>
    BY <2>1 DEF Inv, TypeOK
  <2>2. CASE j.at \in Windows /\ Incr(k) /\ torn' = torn \union {k}
    <3>1. k \in Counters /\ k[1] = j.at /\ j.at \notin Daily
      BY <1>2, <2>2, CounterOf DEF Key, Windows, Families, Daily
    <3>2. /\ count' \in [Counters -> Nat] /\ \A m \in Counters \ {k} : count'[m] = count[m]
      BY <2>2, <3>1, Raised DEF Inv
    <3> QED BY <2>2, <3>1, <3>2
  <2> QED BY <1>1, <2>1, <2>2
<1>7. CASE j.at \notin Pairs
  <2>1. <<>> \in Seq(Commands) /\ NoneDaily(<<>>)
    BY RecordsNotDaily
  <2>2. CASE j.at = "print" /\ Becomes(w, [j EXCEPT !.next = After(j.who, "print"),
                                    !.todo = <<<<"set", AccountOf[j.who]>>>>])
    <3> DEFINE x == <<"set", AccountOf[j.who]>>
    <3>1. <<x>> \in Seq(Commands)
      <4>1. x \in Commands /\ x[1] # "incr"
        BY <1>2, CallersAre DEF Commands
      <4> QED BY <4>1, OneCommand
    <3>2. NoneDaily(<<x>>)
      BY RecordsNotDaily
    <3> HIDE DEF x, after
    <3>3. Becomes(w, [j EXCEPT !.next = after, !.todo = <<x>>])
      BY <2>2 DEF after, x
    <3> QED BY <1>1, <1>3, <1>6, <1>7, <3>1, <3>2, <3>3, PlainDay
  <2>3. CASE j.at = "mismatch" /\ Becomes(w, [j EXCEPT !.next = "mismatch_found"])
    <3>1. "mismatch_found" \in Stages \union Verdicts
      BY DEF Verdicts
    <3> QED BY <1>1, <1>5, <1>6, <1>7, <2>1, <2>3, <3>1, PlainDay
  <2>4. CASE Passes(w)
    <3>1. Becomes(w, [j EXCEPT !.next = after, !.todo = <<>>])
      BY <1>4, <2>4 DEF Passes
    <3> HIDE DEF after
    <3> QED BY <1>1, <1>3, <1>6, <1>7, <2>1, <3>1, PlainDay
  <2> QED BY <1>1, <2>2, <2>3, <2>4
<1>8. CASE j.at \in Pairs
  <2>0. PICK st \in Pairs, b \in {AccountOf[job[w].who]} : st = j.at /\ b = AccountOf[job[w].who]
    BY <1>8
  <2> DEFINE t == TenKey(st, b)
             d == DayKey(st, b)
             J == [j EXCEPT !.next = after]
  <2>1. /\ b \in Accounts /\ t \in Counters /\ d \in Counters /\ t # d /\ Fits(w, st, b)
        /\ j.next # "usage_anomaly"
    BY <1>1, <2>0, AtPair
  <2>2. Becomes(w, J) /\ UNCHANGED <<count, torn>>
    BY <1>1, <1>8 DEF Passes, Pairs, Windows
  <2>3. /\ Working(J) /\ J.todo = <<>> /\ J.late = <<>> /\ J.by = j.by /\ J.at = st
        /\ J.who = j.who /\ J.next = after
    <3> HIDE DEF after
    <3> QED BY <1>1, <1>2, <1>3, <2>0 DEF Working, Jobs
  <2> HIDE DEF t, d
  <2>4. Blocks(J) => Fits(w, st, b)'
    <3>1. /\ Due(J.todo, t) = Due(j.todo, t) /\ Due(J.todo, d) = Due(j.todo, d)
          /\ Holds(J, t) = Holds(j, t) /\ Passing(J, t) <= Passing(j, t) /\ Holds(j, t) \in 0..1
      <4> HIDE DEF J
      <4> QED BY <1>1, <2>1, <2>3 DEF Holds, Passing
    <3>2. TypeOK /\ t = TenKey(st, b) /\ d = DayKey(st, b) /\ count' \in [Counters -> Nat]
      BY <1>6 DEF Inv, t, d
    <3> HIDE DEF J
    <3> QED BY <2>1, <2>2, <2>3, <3>1, <3>2, SameFits
  <2>5. t = TenKey(st, b) /\ d = DayKey(st, b) /\ <<>> \in Rests(t, d)
    BY DEF t, d, Rests
  <2>6. /\ \A m \in Counters : count'[m] = count[m]
    BY <2>2
  <2> HIDE DEF J, after
  <2> QED BY <1>3, <1>6, <2>0, <2>1, <2>2, <2>3, <2>4, <2>5, <2>6, PairDay
<1> QED BY <1>7, <1>8

LEMMA CrashDay ==
    ASSUME Inv, NEW w \in Workers, DayInv(w), Crash(w)
    PROVE  DayInv(w)'
<1> DEFINE q == job[w].todo
<1>1. /\ job'[w] = Idle("died") /\ UNCHANGED <<count, served>> /\ torn' = torn \union About(q)
  BY DEF Crash, Inv, TypeOK
<1>2. /\ Idle("died").todo = <<>> /\ Idle("died").late = <<>> /\ Idle("died").at = "idle"
      /\ Idle("died").by = {} /\ Idle("died").next = "died" /\ \A k : ~Raises(<<>>, k)
  BY DEF Idle, Raises
<1>3. Blocks(job'[w]) /\ Asking(job'[w]) /\ ReadRight(w)'
  BY <1>1, <1>2, RecordsNotDaily DEF Blocks, Asking, ReadRight, Pairs
<1>4. ASSUME NEW stage \in Pairs, NEW a \in Accounts
      PROVE  Fits(w, stage, a)'
  <2> DEFINE t == TenKey(stage, a)
             d == DayKey(stage, a)
  <2>1. /\ t \in Counters /\ d \in Counters /\ served[t] \in Nat /\ count[t] \in Nat
        /\ count[d] \in Nat /\ Fits(w, stage, a) /\ Multiplier \in Nat /\ WindowsPerDay \in Nat
    BY PairKeys, ConstantsAssumption DEF Inv, TypeOK, DayInv
  <2>2. \A k : k \notin torn' => Due(q, k) = 0 /\ k \notin torn
    BY <1>1, RaisesAbout DEF Due
  <2>3. /\ Due(job'[w].todo, t) = 0 /\ Due(job'[w].todo, d) = 0 /\ Holds(job'[w], t) = 0
        /\ Passing(job'[w], t) = 0 /\ Holds(job[w], t) \in 0..1 /\ Passing(job[w], t) \in 0..1
    BY <1>1, <1>2 DEF Due, Holds, Passing
  <2>4. Whole(stage, a)' => Whole(stage, a) /\ t \notin torn' /\ d \notin torn'
    BY <1>1 DEF Whole
  <2>5. t \notin torn' => served'[t] + Holds(job'[w], t) <= count'[t] + Due(job'[w].todo, t)
    <3>1. t \notin torn => served[t] + Holds(job[w], t) <= count[t] + Due(q, t)
      BY <2>1 DEF Fits
    <3> HIDE DEF t, q
    <3> QED BY <1>1, <2>1, <2>2, <2>3, <3>1
  <2>6. Whole(stage, a)' => count'[t] + Due(job'[w].todo, t) <= count'[d] + Due(job'[w].todo, d)
    <3>1. Whole(stage, a) => count[t] + Due(q, t) <= count[d] + Due(q, d)
      BY <2>1 DEF Fits
    <3> HIDE DEF t, d, q
    <3> QED BY <1>1, <2>1, <2>2, <2>3, <2>4, <3>1
  <2>7. Whole(stage, a)' /\ stage = "usage" =>
          (served'[t] + Passing(job'[w], t) - 1) * WindowsPerDay <= Multiplier * count'[d]
    <3> DEFINE n == served[t] + Passing(job[w], t) - 1
               m == served'[t] + Passing(job'[w], t) - 1
    <3>1. n \in Int /\ m \in Int /\ m <= n
      <4> HIDE DEF t
      <4> QED BY <1>1, <2>1, <2>3
    <3>2. Whole(stage, a) /\ stage = "usage" => n * WindowsPerDay <= Multiplier * count[d]
      BY <2>1 DEF Fits
    <3>3. count'[d] = count[d]
      BY <1>1
    <3> HIDE DEF n, m, t, d
    <3>4. Whole(stage, a) /\ stage = "usage" => m * WindowsPerDay <= Multiplier * count[d]
      BY <2>1, <3>1, <3>2, Within
    <3> QED BY <2>4, <3>3, <3>4 DEF m
  <2> QED BY <2>5, <2>6, <2>7 DEF Fits
<1> QED BY <1>3, <1>4 DEF DayInv

\* Whoever raises the counter of ten minutes is to raise the day's after it.
LEMMA DayFollows ==
    ASSUME Inv, NEW w \in Workers, DayInv(w), NEW stage \in Pairs, NEW a \in Accounts,
           Raises(job[w].todo, TenKey(stage, a))
    PROVE  Raises(job[w].todo, DayKey(stage, a))
<1> DEFINE q == job[w].todo
           t == TenKey(stage, a)
<1>1. t \in About(q) /\ t[1] \in Daily
  BY RaisesAbout, PairKeys
<1>2. job[w].at \in Pairs
  BY <1>1 DEF DayInv, Blocks, NoneDaily
<1>3. PICK st \in Pairs, b \in {AccountOf[job[w].who]} : st = job[w].at /\ b = AccountOf[job[w].who]
  BY <1>2
<1>4. /\ TenKey(st, b) \in Counters /\ DayKey(st, b) \in Counters /\ TenKey(st, b) # DayKey(st, b)
      /\ q \in Rests(TenKey(st, b), DayKey(st, b))
  BY <1>3, AtPair
<1>5. stage = st /\ a = b
  <2>1. t \in {TenKey(st, b), DayKey(st, b)}
    BY <1>1, <1>4, RestsAre
  <2> QED BY <2>1, PairsApart
<1> QED BY <1>4, <1>5, RestsAre

LEMMA LapseDay ==
    ASSUME Inv, NEW w, Workers = {w}, DayInv(w), NEW k \in Counters, Lapse(k)
    PROVE  DayInv(w)'
<1> DEFINE j == job[w]
<1>1. /\ count' = [count EXCEPT ![k] = 0] /\ served' = [served EXCEPT ![k] = 0]
      /\ job' = [v \in Workers |-> [job[v] EXCEPT !.by = @ \ {k}]]
      /\ \A m \in Counters \ {k} : m \in torn' <=> m \in torn
      /\ Pending(k) # {} \/ (InHand(k) # {} /\ k \in torn) => k \in torn'
  BY DEF Lapse
<1>2. /\ w \in Workers /\ j \in Jobs /\ count \in [Counters -> Nat] /\ served \in [Counters -> Nat]
      /\ WindowsPerDay \in Nat \ {0} /\ Multiplier \in Nat \ {0}
  BY ConstantsAssumption DEF Inv, TypeOK
<1>3. /\ count'[k] = 0 /\ served'[k] = 0
      /\ \A m \in Counters \ {k} : count'[m] = count[m] /\ served'[m] = served[m]
  BY <1>1, <1>2
<1>4. /\ job'[w].todo = j.todo /\ job'[w].late = j.late /\ job'[w].at = j.at
      /\ job'[w].who = j.who /\ job'[w].next = j.next /\ job'[w].seen = j.seen
      /\ job'[w].by = j.by \ {k}
  <2>1. job'[w] = [j EXCEPT !.by = @ \ {k}]
    BY <1>1, <1>2
  <2> QED BY <1>2, <2>1 DEF Jobs
<1>5. k \in About(j.todo) => k \in torn'
  BY <1>1, <1>2 DEF Pending
<1>6. Blocks(job'[w]) /\ Asking(job'[w])
  BY <1>4 DEF DayInv, Blocks, Asking
<1>7. ReadRight(w)'
  <2> SUFFICES ASSUME j.at \in Pairs, j.todo = <<>>, j.seen # <<>>,
                      NEW st \in Pairs, st = j.at, NEW b, b = AccountOf[j.who]
               PROVE  /\ count'[TenKey(st, b)] <= j.seen[1]
                      /\ Whole(st, b)' => j.seen[1] <= count'[DayKey(st, b)] \/ count'[DayKey(st, b)] = 0
    BY <1>4 DEF ReadRight
  <2> DEFINE t == TenKey(st, b)
             d == DayKey(st, b)
  <2>1. /\ t \in Counters /\ d \in Counters /\ t # d /\ t = Key(Ten(j.at), j.who) /\ b \in Accounts
    BY <1>2, AtPair
  <2>2. count[t] <= j.seen[1] /\ (Whole(st, b) => j.seen[1] <= count[d] \/ count[d] = 0)
    BY DEF DayInv, ReadRight
  <2>3. k = t => InHand(k) # {}
    BY <1>2, <2>1 DEF InHand
  <2>4. k # d => (Whole(st, b)' => Whole(st, b))
    BY <1>1, <2>1, <2>3 DEF Whole
  <2>5. j.seen \in Seq(Nat) /\ j.seen[1] \in Nat
    BY <1>2 DEF Jobs
  <2> HIDE DEF t, d, j
  <2>6. count'[t] <= j.seen[1]
    BY <1>2, <1>3, <2>1, <2>2, <2>5
  <2>7. Whole(st, b)' => j.seen[1] <= count'[d] \/ count'[d] = 0
    BY <1>2, <1>3, <2>1, <2>2, <2>4
  <2> QED BY <2>6, <2>7 DEF t, d
<1>8. ASSUME NEW stage \in Pairs, NEW a \in Accounts
      PROVE  Fits(w, stage, a)'
  <2> DEFINE t == TenKey(stage, a)
             d == DayKey(stage, a)
  <2>1. /\ t \in Counters /\ d \in Counters /\ t # d /\ Fits(w, stage, a)
        /\ Due(job'[w].todo, t) = Due(j.todo, t) /\ Due(job'[w].todo, d) = Due(j.todo, d)
    BY <1>4, PairKeys DEF DayInv
  <2>2. \A i, m, q : /\ Holds(i, m) \in 0..1 /\ Passing(i, m) \in 0..1 /\ Due(q, m) \in 0..1
    BY DEF Holds, Passing, Due
  <2>3. CASE k \notin {t, d}
    <3>1. /\ count'[t] = count[t] /\ count'[d] = count[d] /\ served'[t] = served[t]
          /\ (t \in torn' <=> t \in torn) /\ (d \in torn' <=> d \in torn)
      BY <1>1, <1>3, <2>1, <2>3
    <3>2. Holds(job'[w], t) = Holds(j, t) /\ Passing(job'[w], t) = Passing(j, t)
      BY <1>4, <2>3 DEF Holds, Passing
    <3>3. Whole(stage, a)' <=> Whole(stage, a)
      BY <3>1 DEF Whole
    <3> QED BY <2>1, <3>1, <3>2, <3>3 DEF Fits
  <2>4. CASE k = t
    <3>1. /\ count'[t] = 0 /\ served'[t] = 0 /\ count'[d] = count[d]
      BY <1>3, <2>1, <2>4
    <3>2. Holds(job'[w], t) = 0 /\ Passing(job'[w], t) = 0
      BY <1>4, <2>4 DEF Holds, Passing
    <3>3. Whole(stage, a)' => Due(j.todo, t) = 0
      BY <1>5, <2>4, RaisesAbout DEF Whole, Due
    <3>4. (0 - 1) * WindowsPerDay <= Multiplier * count[d]
      <4>1. count[d] \in Nat
        BY <1>2, <2>1
      <4> HIDE DEF d
      <4> QED BY <1>2, <4>1, Within
    <3> HIDE DEF t, d, j
    <3>5. t \notin torn' => served'[t] + Holds(job'[w], t) <= count'[t] + Due(job'[w].todo, t)
      BY <2>1, <2>2, <3>1, <3>2
    <3>6. Whole(stage, a)' => count'[t] + Due(job'[w].todo, t) <= count'[d] + Due(job'[w].todo, d)
      BY <1>2, <2>1, <2>2, <3>1, <3>3
    <3>7. (served'[t] + Passing(job'[w], t) - 1) * WindowsPerDay <= Multiplier * count'[d]
      BY <3>1, <3>2, <3>4
    <3> QED BY <3>5, <3>6, <3>7 DEF Fits, t, d
  <2>5. CASE k = d
    <3>1. /\ count'[t] = count[t] /\ count'[d] = 0 /\ served'[t] = served[t]
          /\ (t \in torn' <=> t \in torn) /\ count[t] \in Nat /\ served[t] \in Nat
      BY <1>1, <1>2, <1>3, <2>1, <2>5
    <3>2. Holds(job'[w], t) = Holds(j, t) /\ Passing(job'[w], t) = Passing(j, t)
      BY <1>4, <2>1, <2>5 DEF Holds, Passing
    <3>3. t \notin torn => served[t] + Holds(j, t) <= count[t] + Due(j.todo, t)
      BY <2>1 DEF Fits
    <3>4. ASSUME Whole(stage, a)'
          PROVE  /\ count[t] = 0 /\ Due(j.todo, t) = 0 /\ Due(j.todo, d) = 0
                 /\ served[t] = 0 /\ Holds(j, t) = 0 /\ Passing(j, t) = 0
      <4>1. t \notin torn /\ d \notin torn'
        BY <3>1, <3>4 DEF Whole
      <4>2. TenOf(d) = t /\ d[1] \in {"usage24", "anomaly24"}
        BY DEF TenOf, TenKey, DayKey, Ten, Day, Pairs
      <4>3. Pending(d) = {}
        BY <1>1, <2>5, <4>1
      <4>4. count[t] = 0
        BY <2>5, <4>1, <4>2, <4>3 DEF Lapse, Outlived
      <4>5. ~Raises(j.todo, d)
        BY <1>5, <2>5, <4>1, RaisesAbout
      <4>6. ~Raises(j.todo, t)
        BY <1>2, <4>5, DayFollows
      <4>7. Due(j.todo, t) = 0 /\ Due(j.todo, d) = 0
        BY <4>5, <4>6 DEF Due
      <4> HIDE DEF t, d, j
      <4>8. served[t] = 0 /\ Holds(j, t) = 0
        BY <2>2, <3>1, <3>3, <4>1, <4>4, <4>7
      <4>9. Passing(j, t) = 0
        BY <4>8 DEF Holds, Passing
      <4> QED BY <4>4, <4>7, <4>8, <4>9
    <3>5. (0 - 1) * WindowsPerDay <= Multiplier * 0
      BY <1>2, Within
    <3> HIDE DEF t, d, j
    <3>6. t \notin torn' => served'[t] + Holds(job'[w], t) <= count'[t] + Due(job'[w].todo, t)
      BY <2>1, <3>1, <3>2, <3>3
    <3>7. Whole(stage, a)' => count'[t] + Due(job'[w].todo, t) <= count'[d] + Due(job'[w].todo, d)
      BY <2>1, <3>1, <3>4
    <3>8. Whole(stage, a)' =>
            (served'[t] + Passing(job'[w], t) - 1) * WindowsPerDay <= Multiplier * count'[d]
      BY <3>1, <3>2, <3>4, <3>5
    <3> QED BY <3>6, <3>7, <3>8 DEF Fits, t, d
  <2> QED BY <2>3, <2>4, <2>5
<1> QED BY <1>6, <1>7, <1>8 DEF DayInv

LEMMA LapsePrintDay ==
    ASSUME Inv, NEW w \in Workers, DayInv(w), NEW k \in Accounts, LapsePrint(k)
    PROVE  DayInv(w)'
BY DEF LapsePrint, ghosts, DayInv, Blocks, Asking, ReadRight, Fits, Whole

LEMMA DayInit ==
    ASSUME Init, NEW w \in Workers
    PROVE  DayInv(w)
<1>1. /\ job[w] = Idle("served") /\ \A k \in Counters : count[k] = 0 /\ served[k] = 0
  BY DEF Init
<1>2. /\ job[w].todo = <<>> /\ job[w].late = <<>> /\ job[w].at = "idle"
      /\ job[w].by = {} /\ job[w].next = "served" /\ \A k : ~Raises(<<>>, k)
  BY <1>1 DEF Idle, Raises
<1>3. Blocks(job[w]) /\ Asking(job[w]) /\ ReadRight(w)
  BY <1>2, RecordsNotDaily DEF Blocks, Asking, ReadRight, Pairs
<1>4. ASSUME NEW stage \in Pairs, NEW a \in Accounts
      PROVE  Fits(w, stage, a)
  <2> DEFINE t == TenKey(stage, a)
             d == DayKey(stage, a)
  <2>1. t \in Counters /\ d \in Counters /\ WindowsPerDay \in Nat /\ Multiplier \in Nat
    BY PairKeys, ConstantsAssumption
  <2>2. /\ Due(job[w].todo, t) = 0 /\ Due(job[w].todo, d) = 0 /\ Holds(job[w], t) = 0
        /\ Passing(job[w], t) = 0 /\ served[t] = 0 /\ count[t] = 0 /\ count[d] = 0
    BY <1>1, <1>2, <2>1 DEF Due, Holds, Passing
  <2>3. (0 - 1) * WindowsPerDay <= Multiplier * 0
    BY <2>1, Within
  <2>4. Fits(w, stage, a) <=>
          /\ t \notin torn => served[t] + Holds(job[w], t) <= count[t] + Due(job[w].todo, t)
          /\ Whole(stage, a) => count[t] + Due(job[w].todo, t) <= count[d] + Due(job[w].todo, d)
          /\ Whole(stage, a) /\ stage = "usage" =>
               (served[t] + Passing(job[w], t) - 1) * WindowsPerDay <= Multiplier * count[d]
    BY DEF Fits
  <2> HIDE DEF t, d
  <2> QED BY <2>2, <2>3, <2>4
<1> QED BY <1>3, <1>4 DEF DayInv

LEMMA DayStep ==
    ASSUME NEW w, Workers = {w}
    PROVE  Inv /\ DayInv(w) /\ [Next]_vars => DayInv(w)'
<1> SUFFICES ASSUME Inv, DayInv(w), [Next]_vars
             PROVE  DayInv(w)'
  OBVIOUS
<1>0. w \in Workers /\ \A v \in Workers : v = w
  OBVIOUS
<1>1. ASSUME NEW c \in Callers, Arrive(w, c)
      PROVE  DayInv(w)'
  BY <1>0, <1>1, ArriveDay
<1>2. ASSUME Check(w)
      PROVE  DayInv(w)'
  <2>1. ASSUME Expires(w)
        PROVE  DayInv(w)'
    BY <1>0, <2>1, OthersDay DEF Expires
  <2>2. ASSUME Stores(w)
        PROVE  DayInv(w)'
    BY <1>0, <2>2, OthersDay DEF Stores
  <2> QED BY <1>0, <1>2, <2>1, <2>2, CheckBanDay, CountRequestDay, ReadTenDay, ReadDayDay,
             CheckPrintDay, CountMismatchDay, IncrementsDay DEF Check
<1>3. ASSUME RedisFails(w)
      PROVE  DayInv(w)'
  BY <1>0, <1>3, BlockFailsDay, CheckFailsDay DEF RedisFails
<1>4. ASSUME Crash(w)
      PROVE  DayInv(w)'
  BY <1>0, <1>4, CrashDay
<1>5. ASSUME NEW k \in Counters, Lapse(k)
      PROVE  DayInv(w)'
  BY <1>5, LapseDay
<1>6. ASSUME NEW a \in Accounts, LapsePrint(a)
      PROVE  DayInv(w)'
  BY <1>0, <1>6, LapsePrintDay
<1>7. CASE UNCHANGED vars
  BY <1>7 DEF vars, ghosts, DayInv, Blocks, Asking, ReadRight, Fits, Whole
<1> QED BY <1>0, <1>1, <1>2, <1>3, <1>4, <1>5, <1>6, <1>7 DEF Next

\* What a job is heading for stays with it when it is settled.
LEMMA SettledNext ==
    ASSUME TypeOK, NEW w \in Workers, NEW j, "next" \in DOMAIN j, Becomes(w, j)
    PROVE  job'[w].next = j.next
<1>1. job'[w] = Settled(j)
  BY DEF Becomes, TypeOK
<1>2. Settled(j).next = j.next
  BY DEF Settled, Idle
<1> QED BY <1>1, <1>2

\* Only the check itself finds an anomaly, with the day's counter below what it has in hand.
LEMMA AnomalyFound ==
    ASSUME Inv, NEW w \in Workers, Check(w) \/ RedisFails(w) \/ Crash(w) \/ (\E c \in Callers : Arrive(w, c)),
           job[w].next # "anomaly_detected", job'[w].next = "anomaly_detected"
    PROVE  /\ job[w].at = "anomaly" /\ job[w].todo = <<>> /\ job[w].seen # <<>>
           /\ Spike("anomaly", job[w].seen[1], count[Key("anomaly24", job[w].who)])
<1> DEFINE j == job[w]
           bad == "anomaly_detected"
<1>1. j \in Jobs /\ TypeOK /\ "next" \in DOMAIN j
  BY DEF Inv, TypeOK, Jobs
<1>2. ~Crash(w)
  BY <1>1 DEF Crash, TypeOK, Idle
<1>3. ASSUME NEW c \in Callers, Arrive(w, c)
      PROVE  FALSE
  <2> DEFINE first == IF RouteOf[c] = "llm" /\ KindOf[c] = "stream" THEN "not_for_free"
                      ELSE Head(Checks[RouteOf[c]])
             J == [Idle(first) EXCEPT !.who = c]
  <2>1. first \in Stages \union {"not_for_free"}
    BY Routes DEF Checks, Stages
  <2>2. "next" \in DOMAIN J /\ J.next = first /\ Becomes(w, J)
    <3>1. Becomes(w, J)
      BY <1>3 DEF Arrive
    <3> HIDE DEF first
    <3> QED BY <3>1 DEF Idle
  <2> HIDE DEF J, first
  <2> QED BY <1>1, <2>1, <2>2, SettledNext DEF Stages
<1>4. ASSUME NEW J, "next" \in DOMAIN J, Becomes(w, J)
      PROVE  J.next = bad
  BY <1>1, <1>4, SettledNext
<1>5. j.at # "idle" => \A stage : After(j.who, stage) # bad
  BY AtWork, AfterVerdict DEF Working
<1>6. j.at # "idle" => ~Passes(w)
  <2>1. "next" \in DOMAIN [j EXCEPT !.next = After(j.who, j.at)]
    BY <1>1
  <2>2. [j EXCEPT !.next = After(j.who, j.at)].next = After(j.who, j.at)
    BY <1>1
  <2> QED BY <1>4, <1>5, <2>1, <2>2 DEF Passes
<1>7. ~CheckBan(w)
  <2>1. [j EXCEPT !.next = "banned"].next = "banned" /\ "next" \in DOMAIN [j EXCEPT !.next = "banned"]
    BY <1>1
  <2> QED BY <1>4, <1>6, <2>1 DEF CheckBan, Asks
<1>8. ~CountRequest(w)
  <2> SUFFICES ASSUME CountRequest(w)
               PROVE  FALSE
    OBVIOUS
  <2>1. PICK stage \in Windows :
        /\ Asks(w, stage)
        /\ LET c == j.who
               k == Key(stage, c)
               in == [j EXCEPT !.next = After(c, stage), !.by = @ \union {k}]
           IN \/ Becomes(w, [j EXCEPT
                                  !.next = "limited", !.todo = OwnRecord(c, stage),
                                  !.late = IF stage = "sticky" THEN <<>> ELSE RouteRecord(c)])
              \/ Becomes(w, [in EXCEPT !.todo = <<<<"expire", k>>>>])
              \/ Becomes(w, in)
    BY DEF CountRequest
  <2> DEFINE c == j.who
             k == Key(stage, c)
             after == After(c, stage)
             in == [j EXCEPT !.next = after, !.by = @ \union {k}]
             J1 == [j EXCEPT !.next = "limited", !.todo = OwnRecord(c, stage),
                             !.late = IF stage = "sticky" THEN <<>> ELSE RouteRecord(c)]
             J2 == [in EXCEPT !.todo = <<<<"expire", k>>>>]
  <2>2. Becomes(w, J1) \/ Becomes(w, J2) \/ Becomes(w, in)
    BY <2>1
  <2>3. after # bad
    BY <1>5, <2>1 DEF Asks, Windows
  <2> HIDE DEF k, after
  <2>4. "next" \in DOMAIN J1 /\ J1.next = "limited"
    BY <1>1
  <2>5. "next" \in DOMAIN in /\ in.next = after
    BY <1>1
  <2>6. "next" \in DOMAIN J2 /\ J2.next = after
    <3> HIDE DEF in
    <3> QED BY <2>5
  <2> HIDE DEF J1, J2, in
  <2> QED BY <1>4, <2>2, <2>3, <2>4, <2>5, <2>6
<1>9. ~ReadTen(w)
  BY <1>1 DEF ReadTen, TypeOK
<1>10. ~CheckPrint(w)
  <2> SUFFICES ASSUME CheckPrint(w)
               PROVE  FALSE
    OBVIOUS
  <2> DEFINE a == AccountOf[j.who]
             after == After(j.who, "print")
             in == [j EXCEPT !.next = after]
             J1 == [in EXCEPT !.todo = <<<<"set", a>>, <<"set", a>>>>]
             J2 == [in EXCEPT !.todo = <<<<"set", a>>>>]
             J3 == [j EXCEPT !.next = "mismatch"]
  <2>1. Becomes(w, J1) \/ Becomes(w, J2) \/ Becomes(w, J3)
    BY DEF CheckPrint
  <2>2. after # bad
    BY <1>5 DEF CheckPrint, Asks
  <2> HIDE DEF a, after
  <2>3. "next" \in DOMAIN in /\ in.next = after /\ "next" \in DOMAIN J3 /\ J3.next = "mismatch"
    BY <1>1
  <2>4. /\ "next" \in DOMAIN J1 /\ J1.next = after /\ "next" \in DOMAIN J2 /\ J2.next = after
    <3> HIDE DEF in
    <3> QED BY <2>3
  <2> HIDE DEF J1, J2, J3
  <2> QED BY <1>4, <2>1, <2>2, <2>3, <2>4
<1>11. ~CountMismatch(w)
  <2> DEFINE next == IF count[Key("mismatches", j.who)] + 1 > MaxMismatches THEN "banned" ELSE "mismatch_found"
             q == <<<<"expire", Key("mismatches", j.who)>>>>
             J == [j EXCEPT !.todo = q, !.next = next]
  <2>1. CountMismatch(w) => Becomes(w, J)
    BY DEF CountMismatch
  <2>2. next # bad
    OBVIOUS
  <2> HIDE DEF next, q
  <2>3. "next" \in DOMAIN J /\ J.next = next
    BY <1>1
  <2> HIDE DEF J
  <2> QED BY <1>4, <2>1, <2>2, <2>3
<1>12. ~Next1(w)
  <2>1. [j EXCEPT !.todo = Tail(@)].next = j.next /\ "next" \in DOMAIN [j EXCEPT !.todo = Tail(@)]
    BY <1>1
  <2> QED BY <1>4, <2>1 DEF Next1
<1>13. ~BlockFails(w)
  <2> DEFINE next == CASE j.at \in {"usage", "anomaly"} -> After(j.who, j.at)
                       [] j.at = "mismatch" -> "mismatch_found"
                       [] OTHER -> j.next
             J == [j EXCEPT !.todo = <<>>, !.next = next]
  <2>1. BlockFails(w) => Next1(w) \/ Becomes(w, J)
    <3>1. [j EXCEPT !.todo = <<>>, !.next = CASE j.at \in {"usage", "anomaly"} -> After(j.who, j.at)
                     [] j.at = "mismatch" -> "mismatch_found"
                     [] OTHER -> @] = J
      BY <1>1 DEF Jobs
    <3> QED BY <3>1 DEF BlockFails
  <2>2. next # bad
    BY <1>5
  <2> HIDE DEF next
  <2>3. "next" \in DOMAIN J /\ J.next = next
    BY <1>1
  <2> HIDE DEF J
  <2> QED BY <1>4, <1>12, <2>1, <2>2, <2>3
<1>14. ~CheckFails(w)
  <2> SUFFICES ASSUME CheckFails(w)
               PROVE  FALSE
    OBVIOUS
  <2> DEFINE after == After(j.who, "print")
             q == <<<<"set", AccountOf[j.who]>>>>
             J1 == [j EXCEPT !.next = after, !.todo = q]
             J2 == [j EXCEPT !.next = "mismatch_found"]
  <2>1. j.at # "idle" /\ (Becomes(w, J1) \/ Becomes(w, J2) \/ Passes(w))
    BY DEF CheckFails
  <2>2. after # bad
    BY <1>5, <2>1
  <2> HIDE DEF after, q
  <2>3. /\ "next" \in DOMAIN J1 /\ J1.next = after
        /\ "next" \in DOMAIN J2 /\ J2.next = "mismatch_found"
    BY <1>1
  <2> HIDE DEF J1, J2
  <2> QED BY <1>4, <1>6, <2>1, <2>2, <2>3
<1>15. ReadDay(w)
  BY <1>2, <1>3, <1>7, <1>8, <1>9, <1>10, <1>11, <1>12, <1>13, <1>14
     DEF Check, RedisFails, Increments, Expires, Stores
<1>16. PICK stage \in {"usage", "anomaly"} :
         /\ Asks(w, stage) /\ j.seen # <<>>
         /\ Becomes(w, [j EXCEPT
              !.todo = Both(Key(Ten(stage), j.who)) \o Both(Key(Day(stage), j.who)),
              !.next = IF Spike(stage, j.seen[1], count[Key(Day(stage), j.who)]) THEN Anomaly(stage)
                       ELSE After(j.who, stage),
              !.by = @ \union {Key(Ten(stage), j.who)}])
  BY <1>15 DEF ReadDay
<1> DEFINE ten == Key(Ten(stage), j.who)
           q == Both(ten) \o Both(Key(Day(stage), j.who))
           next == IF Spike(stage, j.seen[1], count[Key(Day(stage), j.who)]) THEN Anomaly(stage)
                   ELSE After(j.who, stage)
           J == [j EXCEPT !.todo = q, !.next = next, !.by = @ \union {ten}]
<1>17. Becomes(w, J)
  BY <1>16
<1>18. "next" \in DOMAIN J /\ J.next = next
  <2> HIDE DEF next, q, ten
  <2> QED BY <1>1
<1>19. next = bad
  <2> HIDE DEF J, next
  <2> QED BY <1>4, <1>17, <1>18
<1>20. After(j.who, stage) # bad
  BY <1>5, <1>16 DEF Asks
<1>21. Spike(stage, j.seen[1], count[Key(Day(stage), j.who)]) /\ stage = "anomaly"
  BY <1>16, <1>19, <1>20 DEF Anomaly
<1> QED BY <1>16, <1>21 DEF Asks, Day

LEMMA AnomalyStep ==
    ASSUME NEW w, Workers = {w}, Inv, DayInv(w), [Next]_vars,
           job[w].next # "anomaly_detected", job'[w].next = "anomaly_detected"
    PROVE  {Key("anomaly10", job[w].who), Key("anomaly24", job[w].who)} \intersect torn # {}
<1> DEFINE j == job[w]
<1>0. w \in Workers /\ \A v \in Workers : v = w
  OBVIOUS
<1>1. ~(\E k \in Counters : Lapse(k))
  <2> SUFFICES ASSUME NEW k \in Counters, Lapse(k)
               PROVE  FALSE
    OBVIOUS
  <2>1. job'[w] = [j EXCEPT !.by = @ \ {k}]
    BY DEF Lapse
  <2>2. j \in Jobs
    BY DEF Inv, TypeOK
  <2> QED BY <2>1, <2>2 DEF Jobs
<1>2. ~(\E a \in Accounts : LapsePrint(a)) /\ ~UNCHANGED vars
  BY DEF LapsePrint, vars
<1>3. /\ j.at = "anomaly" /\ j.todo = <<>> /\ j.seen # <<>>
      /\ Spike("anomaly", j.seen[1], count[Key("anomaly24", j.who)])
  BY <1>0, <1>1, <1>2, AnomalyFound DEF Next
<1> DEFINE b == AccountOf[j.who]
           t == TenKey("anomaly", b)
           d == DayKey("anomaly", b)
<1>4. j.at \in Pairs
  BY <1>3 DEF Pairs
<1>5. /\ t = Key("anomaly10", j.who) /\ d = Key("anomaly24", j.who) /\ d \in Counters /\ j \in Jobs
  BY <1>0, <1>3, <1>4, AtPair DEF Ten, Day
<1>6. Whole("anomaly", b) => j.seen[1] <= count[d] \/ count[d] = 0
  BY <1>3, <1>4 DEF DayInv, ReadRight
<1>7. j.seen[1] \in Nat /\ count[d] \in Nat
  <2>1. j.seen \in Seq(Nat)
    BY <1>5 DEF Jobs
  <2> QED BY <1>3, <1>5, <2>1 DEF Inv, TypeOK
<1>8. count[d] > 0 /\ 2 * j.seen[1] > 3 * count[d]
  BY <1>3, <1>5 DEF Spike
<1>9. ~Whole("anomaly", b)
  <2> HIDE DEF d, j
  <2> QED BY <1>6, <1>7, <1>8
<1> QED BY <1>5, <1>9 DEF Whole

LEMMA AboveAtMostOne ==
    ASSUME NEW w, Workers = {w}, Inv, DayInv(w)
    PROVE  OneAboveAverage
<1> SUFFICES ASSUME NEW a \in Accounts, {<<"usage10", a>>, <<"usage24", a>>} \intersect torn = {}
             PROVE  (served[<<"usage10", a>>] - 1) * WindowsPerDay <= Multiplier * count[<<"usage24", a>>]
  BY DEF OneAboveAverage
<1> DEFINE t == TenKey("usage", a)
           d == DayKey("usage", a)
           n == served[t] + Passing(job[w], t) - 1
           m == served[t] - 1
<1>1. t = <<"usage10", a>> /\ d = <<"usage24", a>> /\ "usage" \in Pairs
  BY DEF TenKey, DayKey, Ten, Day, Pairs
<1>2. Fits(w, "usage", a) /\ Whole("usage", a)
  BY <1>1 DEF DayInv, Whole
<1>3. n * WindowsPerDay <= Multiplier * count[d]
  BY <1>2 DEF Fits
<1>4. /\ served[t] \in Nat /\ count[d] \in Nat /\ Passing(job[w], t) \in 0..1
      /\ WindowsPerDay \in Nat /\ Multiplier \in Nat
  BY <1>1, PairKeys, ConstantsAssumption DEF Inv, TypeOK, Passing
<1> HIDE DEF t, d
<1>5. n \in Int /\ m \in Int /\ m <= n
  BY <1>4
<1> HIDE DEF n
<1>6. m * WindowsPerDay <= Multiplier * count[d]
  <2> HIDE DEF m
  <2> QED BY <1>3, <1>4, <1>5, Within
<1> QED BY <1>1, <1>6

\* With one worker, ten minutes see at most one served request above the multiple of the
\* day's average that check_usage_anomaly allows, unless a command for one of the two
\* counters was lost: the checks count before they decide, but the counts they decide on
\* are those of before.
THEOREM OneAboveWithOneWorker ==
    ASSUME NEW w, Workers = {w}
    PROVE  Spec => []OneAboveAverage
<1>1. Init => DayInv(w)
  BY DayInit
<1>2. Inv /\ DayInv(w) /\ [Next]_vars => DayInv(w)'
  BY DayStep
<1>3. Inv /\ DayInv(w) => OneAboveAverage
  BY AboveAtMostOne
<1> QED BY <1>1, <1>2, <1>3, InvInit, InvStep, PTL DEF Spec

\* With one worker, check_anomaly_detector finds too much of an account only when a command
\* for one of its two counters was lost: the ten minutes it reads are a part of the day it
\* compares them with, and half as much again is out of reach.
THEOREM AnomaliesNeedTears ==
    ASSUME NEW v, Workers = {v}
    PROVE  Spec => AnomalyNeedsTear
<1>1. Init => DayInv(v)
  BY DayInit
<1>2. Inv /\ DayInv(v) /\ [Next]_vars => DayInv(v)'
  BY DayStep
<1>3. Inv /\ DayInv(v) /\ [Next]_vars =>
        [\A w \in Workers :
            job[w].next # "anomaly_detected" /\ job'[w].next = "anomaly_detected" =>
              {Key("anomaly10", job[w].who), Key("anomaly24", job[w].who)} \intersect torn # {}]_vars
  BY AnomalyStep
<1> QED BY <1>1, <1>2, <1>3, InvInit, InvStep, PTL DEF Spec, AnomalyNeedsTear
=============================================================================

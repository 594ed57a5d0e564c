------------------------------ MODULE IperfProofs ------------------------------
(* Two iperf processes with any command lines, any number of parallel clients    *)
(* and any interrupts: main's count is right and main waits for every thread     *)
(* that works; the settings are what the options ask for in any order, and a     *)
(* test that comes back is the one that was asked for.                           *)
EXTENDS Iperf, FiniteSetTheorems, WellFoundedInduction, TLAPS

--------------------------------------------------------------------------------
(* Settings have the fields that matter below, some of them natural numbers.     *)

SettingsShape(s) ==
    /\ {"flags", "threads", "amount", "bufLen", "rate", "threadMode", "mMode", "port",
        "flowID", "host"} \subseteq DOMAIN s
    /\ s.threads \in Nat /\ s.amount \in Nat /\ s.bufLen \in Nat

LEMMA NumberIsNatural == \A t : atoi(t) \in Nat
BY NumberAssumption DEF atoi

LEMMA FlagsKeepShape ==
    ASSUME NEW s, SettingsShape(s), NEW f
    PROVE  SettingsShape(Set(s, f)) /\ SettingsShape(Unset(s, f))
BY DEF SettingsShape, Set, Unset

LEMMA FieldKeepsShape ==
    ASSUME NEW s, SettingsShape(s), NEW f, NEW v, f \notin {"threads", "amount", "bufLen"}
    PROVE  SettingsShape([s EXCEPT ![f] = v])
BY DEF SettingsShape

LEMMA NumbersKeepShape ==
    ASSUME NEW s, SettingsShape(s), NEW n \in Nat
    PROVE  /\ SettingsShape([s EXCEPT !.threads = n]) /\ SettingsShape([s EXCEPT !.amount = n])
           /\ SettingsShape([s EXCEPT !.bufLen = n])
BY DEF SettingsShape

LEMMA InterpretKeepsShape ==
    ASSUME NEW s, SettingsShape(s), NEW opt, NEW arg
    PROVE  SettingsShape(Settings_Interpret(s, opt, arg))
<1> USE FlagsKeepShape, FieldKeepsShape
<1>1. SettingsShape([s EXCEPT ![NumberOption[opt]] = atoi(arg)])
  BY NumbersKeepShape, NumberIsNatural DEF SettingsShape
<1>2. ASSUME NEW t, SettingsShape(t) PROVE SettingsShape(BufLenForUDP(t))
  <2>1. SettingsShape([t EXCEPT !.bufLen = 1470])
    BY <1>2 DEF SettingsShape
  <2> QED
    BY <1>2, <2>1 DEF BufLenForUDP, kDefault_UDPBufLen
<1>3. SettingsShape(Bandwidth(s, arg))
  <2> DEFINE u == IF Last(arg) = "pps" THEN "PPS" ELSE "BW"
             r == [s EXCEPT !.rate = atoi(arg), !.units = u]
  <2>1. SettingsShape(r)
    BY DEF SettingsShape
  <2> HIDE DEF r
  <2>2. SettingsShape(Set(r, "BWSET"))
    BY <2>1
  <2> QED
    BY <1>2, <2>2 DEF Bandwidth, r
<1>4. SettingsShape(UDP(s))
  <2> DEFINE r == IF Is(s, "BWSET") THEN s ELSE [s EXCEPT !.rate = kDefault_UDPRate]
  <2>1. SettingsShape(r)
    OBVIOUS
  <2> HIDE DEF r
  <2>2. SettingsShape(Set(r, "UDP"))
    BY <2>1
  <2> QED
    BY <1>2, <2>1, <2>2 DEF UDP, r
<1>5. ASSUME NEW t, SettingsShape(t), NEW h PROVE SettingsShape(WithMulticast(t, h))
  BY <1>5 DEF WithMulticast
<1>6. SettingsShape(ClientMode(s, arg))
  <2> DEFINE r == [s EXCEPT !.host = arg]
             c == [r EXCEPT !.threadMode = "Client", !.threads = 1]
  <2>1. SettingsShape(r) /\ SettingsShape(c)
    BY DEF SettingsShape
  <2> HIDE DEF r, c
  <2> QED
    BY <1>5, <2>1 DEF ClientMode, r, c
<1>7. SettingsShape(Interval(s, arg))
  BY DEF Interval, SettingsShape
<1>8. SettingsShape(Bind(s, arg))
  <2>1. SettingsShape([s EXCEPT !.localhost = arg])
    OBVIOUS
  <2>2. ASSUME NEW v, NEW w
        PROVE  SettingsShape([s EXCEPT !.localhost = v, !.bindPort = w])
    BY DEF SettingsShape
  <2> DEFINE v6 == Is(s, "DOMAIN")
             at == IF v6 THEN 4 ELSE 2
             name == IF v6 THEN <<arg[2]>> ELSE <<arg[1]>>
             split == s.threadMode = "Client" /\ (~v6 \/ arg[1] = "[")
             port == IF Len(arg) > at THEN atoi(<<arg[at + 1]>>) ELSE s.bindPort
             bound == IF ~split THEN [s EXCEPT !.localhost = arg]
                      ELSE [s EXCEPT !.localhost = name, !.bindPort = port]
  <2>3. Bind(s, arg) = WithMulticast(bound, bound.localhost)
    BY Zenon DEF Bind
  <2> HIDE DEF split, name, port
  <2>4. SettingsShape(bound)
    BY <2>1, <2>2
  <2> HIDE DEF bound
  <2> QED
    BY <1>5, <2>3, <2>4
<1>9. SettingsShape(IPv6Domain(s)) /\ SettingsShape(TestMode(s, "DualTest"))
      /\ SettingsShape(TestMode(s, "TradeOff")) /\ SettingsShape(ServerMode(s))
      /\ SettingsShape(Compatibility(s)) /\ SettingsShape(ListenPort(s, arg))
  BY <1>5 DEF IPv6Domain, TestMode, ServerMode, Compatibility, ListenPort
<1>12. SettingsShape(Amount(s, arg)) /\ SettingsShape(Time(s, arg))
       /\ SettingsShape(Length(s, arg))
  <2>1. /\ SettingsShape([s EXCEPT !.amount = atoi(arg)])
        /\ SettingsShape([s EXCEPT !.bufLen = atoi(arg)])
    BY NumberIsNatural DEF SettingsShape
  <2> QED
    BY <2>1 DEF Amount, Time, Length
<1>10. SettingsShape(FileInput(s, arg)) /\ SettingsShape(FileInput(s, <<"<stdin>">>))
  BY DEF FileInput
<1>11. SettingsShape(StdinInput(s))
  BY <1>10 DEF StdinInput
<1> QED
  BY <1>1, <1>3, <1>4, <1>6, <1>7, <1>8, <1>9, <1>10, <1>11, <1>12 DEF Settings_Interpret

--------------------------------------------------------------------------------
(* Threads, and those that are to be started.                                    *)

Client0 == Settings_Copy("client", <<>>, 0)
Listener0 == Settings_Copy("listener", <<>>, 0)
NewServer == [mode : {"server"}, pc : {"read"}, todo : {<<>>}, next : Seq({Client0}),
              sock : Nat, rep : {"none"}, hold : {"no"}]
Fresh == {Client0, Listener0, reporter} \cup NewServer
ThreadRecord ==
    [mode : {"main", "client", "server", "listener", "reporter"}, pc : PCs,
     todo : Seq(Fresh), next : Seq({Client0}), sock : Nat,
     rep : {"none", "closed", "printed", "released"}, hold : {"no", "nonterm", "released"}]

(* Where a thread of each mode may be, and when it is registered; a report is    *)
(* about to be printed, or printed and not given back, at the end of a test only.*)
Registered == Listening \cup {"listen", "admit", "unregister"}
Placed(t) ==
    /\ t.mode = "main" => t.pc \in {"start", "join"}
    /\ t.mode = "client" =>
          t.pc \in {"connect", "hdr", "barrier", "write", "end", "after", "stopped"}
    /\ t.mode = "server" => t.pc \in {"read", "end", "after"}
    /\ t.mode = "listener" => t.pc \in {"register", "finish", "after"} \cup Registered
    /\ t.mode = "reporter" => t.pc \in {"work", "ignored"}
    /\ t.hold # "no" <=> t.mode = "listener" /\ t.pc \in Registered
    /\ t.rep # "none" => t.mode \in {"client", "server"}
    /\ t.rep \in {"closed", "printed"} => t.pc = "end"

(* A process has one listener at most, main being the only thread that starts    *)
(* one.                                                                          *)
NoListener(q) == \A k \in DOMAIN q : q[k].mode # "listener"
OneListener(ts) ==
    /\ \A i, j \in DOMAIN ts : ts[i].mode = "listener" /\ ts[j].mode = "listener" => i = j
    /\ \A i \in DOMAIN ts \ {1} : NoListener(ts[i].todo)
    /\ \A k, l \in DOMAIN ts[1].todo :
          ts[1].todo[k].mode = "listener" /\ ts[1].todo[l].mode = "listener" => k = l
    /\ (\E i \in DOMAIN ts : ts[i].mode = "listener") => NoListener(ts[1].todo)

(* The threads that are counted, and the counts n and m of them and of those an  *)
(* interrupt takes out.                                                          *)
Counting(ts) == {i \in DOMAIN ts \ {1} : Counted(ts[i])}
Right(ts, n, m) ==
    /\ ts \in Seq(ThreadRecord) /\ 1 \in DOMAIN ts
    /\ \A i \in DOMAIN ts : ts[i].mode = "main" <=> i = 1
    /\ ts[1].pc = "start" => DOMAIN ts = {1} /\ ts[1].todo = <<>>
    /\ \A i \in DOMAIN ts : Placed(ts[i])
    /\ OneListener(ts)
    /\ n = Cardinality(Counting(ts))
    /\ m = IF \E i \in DOMAIN ts : ts[i].hold = "nonterm" THEN 1 ELSE 0

Connections == [from : Program, state : {"queued", "taken", "dropped"}, hdr : BOOLEAN,
                data : BOOLEAN, eof : BOOLEAN]

IInv ==
    /\ DOMAIN settings = Program /\ \A p \in Program : SettingsShape(settings[p])
    /\ DOMAIN threads = Program /\ DOMAIN thread_sNum = Program
    /\ DOMAIN nonterminating_num = Program /\ DOMAIN process = Program
    /\ \A p \in Program : Right(threads[p], thread_sNum[p], nonterminating_num[p])
    /\ \A p \in Program : process[p] = "joined" => thread_sNum[p] <= 0
    /\ conns \in Seq(Connections)

--------------------------------------------------------------------------------
(* What a step of one thread does to the counts.                                 *)

LEMMA CountedThreads ==
    ASSUME NEW ts, NEW n, NEW m, Right(ts, n, m)
    PROVE  IsFiniteSet(Counting(ts)) /\ n \in Nat /\ m \in {0, 1}
<1>1. ts \in Seq(ThreadRecord)
  BY DEF Right
<1>2. IsFiniteSet(1 .. Len(ts))
  BY <1>1, FS_Interval
<1>3. Counting(ts) \subseteq 1 .. Len(ts)
  BY <1>1 DEF Counting
<1>4. IsFiniteSet(Counting(ts))
  BY <1>2, <1>3, FS_Subset
<1> QED
  BY <1>4, FS_CardinalityType DEF Right

(* A thread other than main goes on.                                             *)
Continues(s, t) ==
    t \in ThreadRecord /\ t.mode = s.mode /\ Placed(t) /\ NoListener(t.todo)
One(b) == IF b THEN 1 ELSE 0

LEMMA StillOneListener ==
    ASSUME NEW ts, NEW n, NEW m, Right(ts, n, m),
           NEW i \in DOMAIN ts \ {1}, NEW t, Continues(ts[i], t)
    PROVE  OneListener([ts EXCEPT ![i] = t])
<1> DEFINE us == [ts EXCEPT ![i] = t]
<1>1. DOMAIN us = DOMAIN ts /\ us[1] = ts[1]
  OBVIOUS
<1>2. \A j \in DOMAIN ts : us[j].mode = ts[j].mode
  BY DEF Continues
<1>3. \A j \in DOMAIN ts \ {1} : NoListener(us[j].todo)
  BY DEF Right, OneListener, Continues
<1> HIDE DEF us
<1>4. OneListener(ts)
  BY DEF Right
<1> QED
  BY <1>1, <1>2, <1>3, <1>4 DEF OneListener, us

LEMMA ThreadContinues ==
    ASSUME NEW ts, NEW n, NEW m, Right(ts, n, m),
           NEW i \in DOMAIN ts \ {1}, NEW t, Continues(ts[i], t)
    PROVE  LET us == [ts EXCEPT ![i] = t]
               k == IF ts[i].mode = "listener" THEN One(t.hold = "nonterm") ELSE m
           IN /\ Counted(ts[i]) <=> Counted(t) => Right(us, n, k)
              /\ Counted(ts[i]) /\ ~Counted(t) => Right(us, n - 1, k)
              /\ ~Counted(ts[i]) /\ Counted(t) => Right(us, n + 1, k)
<1> DEFINE us == [ts EXCEPT ![i] = t]
           k == IF ts[i].mode = "listener" THEN One(t.hold = "nonterm") ELSE m
<1>1. /\ us \in Seq(ThreadRecord) /\ DOMAIN us = DOMAIN ts /\ 1 \in DOMAIN us
      /\ us[i] = t /\ \A j \in DOMAIN ts \ {i} : us[j] = ts[j]
  BY DEF Right, Continues
<1>2. OneListener(us)
  BY StillOneListener
<1> HIDE DEF us
<1>3. \A j \in DOMAIN us : us[j].mode = "main" <=> j = 1
  BY <1>1 DEF Right, Continues
<1>4. us[1].pc = "start" => DOMAIN us = {1} /\ us[1].todo = <<>>
  BY <1>1 DEF Right
<1>5. \A j \in DOMAIN us : Placed(us[j])
  BY <1>1 DEF Right, Continues
<1>6. k = IF \E j \in DOMAIN us : us[j].hold = "nonterm" THEN 1 ELSE 0
  <2>1. \A j \in DOMAIN ts : ts[j].hold = "nonterm" => ts[j].mode = "listener"
    BY DEF Right, Placed
  <2>2. t.hold = "nonterm" => ts[i].mode = "listener"
    BY DEF Continues, Placed
  <2>3. CASE ts[i].mode = "listener"
    <3>1. \A j \in DOMAIN ts \ {i} : ts[j].hold # "nonterm"
      BY <2>1, <2>3 DEF Right, OneListener
    <3> QED
      BY <1>1, <2>3, <3>1 DEF One
  <2>4. CASE ts[i].mode # "listener"
    <3>1. t.hold # "nonterm" /\ ts[i].hold # "nonterm"
      BY <2>1, <2>2, <2>4
    <3>2. m = IF \E j \in DOMAIN ts : ts[j].hold = "nonterm" THEN 1 ELSE 0
      BY DEF Right
    <3> QED
      BY <1>1, <2>4, <3>1, <3>2
  <2> QED
    BY <2>3, <2>4
<1>7. \A l : l = Cardinality(Counting(us)) => Right(us, l, k)
  BY <1>1, <1>2, <1>3, <1>4, <1>5, <1>6 DEF Right
<1>8. IsFiniteSet(Counting(ts)) /\ n = Cardinality(Counting(ts)) /\ n \in Nat
  BY CountedThreads DEF Right
<1>9. ASSUME Counted(ts[i]) <=> Counted(t) PROVE Right(us, n, k)
  <2>1. Counting(us) = Counting(ts)
    BY <1>1, <1>9 DEF Counting
  <2> QED
    BY <1>7, <1>8, <1>9, <2>1
<1>10. ASSUME Counted(ts[i]) /\ ~Counted(t) PROVE Right(us, n - 1, k)
  <2>1. Counting(us) = Counting(ts) \ {i} /\ i \in Counting(ts)
    BY <1>1, <1>10 DEF Counting
  <2>2. Cardinality(Counting(us)) = n - 1
    BY <1>8, <2>1, FS_RemoveElement
  <2> QED
    BY <1>7, <1>10, <2>2
<1>11. ASSUME ~Counted(ts[i]) /\ Counted(t) PROVE Right(us, n + 1, k)
  <2>1. Counting(us) = Counting(ts) \cup {i} /\ i \notin Counting(ts)
    BY <1>1, <1>11 DEF Counting
  <2>2. Cardinality(Counting(us)) = n + 1
    BY <1>8, <2>1, FS_AddElement
  <2> QED
    BY <1>7, <1>11, <2>2
<1> QED
  BY <1>9, <1>10, <1>11 DEF us

LEMMA SequenceAltered ==
    ASSUME NEW S, NEW s \in Seq(S), NEW i \in DOMAIN s, NEW x \in S
    PROVE  /\ [s EXCEPT ![i] = x] \in Seq(S) /\ DOMAIN [s EXCEPT ![i] = x] = DOMAIN s
           /\ [s EXCEPT ![i] = x][i] = x
OBVIOUS

LEMMA FreshThreads ==
    ASSUME NEW h \in Fresh
    PROVE  /\ h \in ThreadRecord /\ h.mode # "main" /\ Placed(h) /\ Counted(h)
           /\ h.hold = "no" /\ h.todo = <<>>
<1>1. /\ h.mode \in {"client", "server", "listener", "reporter"}
      /\ h.pc \in PCs /\ h.todo = <<>> /\ h.next \in Seq({Client0}) /\ h.sock \in Nat
      /\ h.rep = "none" /\ h.hold = "no"
      /\ h = [mode |-> h.mode, pc |-> h.pc, todo |-> h.todo, next |-> h.next,
              sock |-> h.sock, rep |-> h.rep, hold |-> h.hold]
      /\ h.mode = "client" => h.pc = "connect"
      /\ h.mode = "server" => h.pc = "read"
      /\ h.mode = "listener" => h.pc = "register"
      /\ h.mode = "reporter" => h.pc = "work"
  <2> DEFINE Copy(mode, pc) == [mode |-> mode, pc |-> pc, todo |-> <<>>, next |-> <<>>,
                                sock |-> 0, rep |-> "none", hold |-> "no"]
  <2>1. {"connect", "read", "register", "work"} \subseteq PCs
    BY DEF PCs
  <2>2. CASE h \in NewServer
    <3>1. /\ h.mode = "server" /\ h.pc = "read" /\ h.todo = <<>>
          /\ h.next \in Seq({Client0}) /\ h.sock \in Nat /\ h.rep = "none" /\ h.hold = "no"
      BY <2>2 DEF NewServer
    <3>2. h = [mode |-> h.mode, pc |-> h.pc, todo |-> h.todo, next |-> h.next,
               sock |-> h.sock, rep |-> h.rep, hold |-> h.hold]
      BY <2>2 DEF NewServer
    <3> QED
      BY <2>1, <3>1, <3>2
  <2>3. h \in {Client0, Listener0, reporter} =>
           h \in {Copy("client", "connect"), Copy("listener", "register"), Copy("reporter", "work")}
    BY DEF Client0, Listener0, reporter, Settings_Copy, FirstStep
  <2>4. <<>> \in Seq({Client0}) /\ 0 \in Nat
    OBVIOUS
  <2>5. ASSUME NEW mode \in {"client", "listener", "reporter"},
               NEW pc \in {"connect", "register", "work"}, h = Copy(mode, pc)
        PROVE  /\ h.mode = mode /\ h.pc = pc /\ h.todo = <<>> /\ h.next = <<>> /\ h.sock = 0
               /\ h.rep = "none" /\ h.hold = "no"
               /\ h = [mode |-> h.mode, pc |-> h.pc, todo |-> h.todo, next |-> h.next,
                       sock |-> h.sock, rep |-> h.rep, hold |-> h.hold]
    BY <2>5
  <2> HIDE DEF Copy
  <2>6. CASE h \notin NewServer
    <3>1. PICK mode \in {"client", "listener", "reporter"},
               pc \in {"connect", "register", "work"} :
             /\ h = Copy(mode, pc)
             /\ mode = "client" => pc = "connect"
             /\ mode = "listener" => pc = "register"
             /\ mode = "reporter" => pc = "work"
      BY <2>3, <2>6 DEF Fresh
    <3> QED
      BY <2>1, <2>4, <2>5, <3>1
  <2> QED
    BY <2>2, <2>6
<1>2. h \in ThreadRecord
  <2>1. <<>> \in Seq(Fresh)
    OBVIOUS
  <2> QED
    BY <1>1, <2>1 DEF ThreadRecord
<1>3. Placed(h) /\ Counted(h)
  BY <1>1 DEF Placed, Counted, Finished, Registered, Listening
<1> QED
  BY <1>1, <1>2, <1>3

(* Changes of a thread's record.                                                 *)
LEMMA TodoAltered ==
    ASSUME NEW t \in ThreadRecord, NEW q \in Seq(Fresh)
    PROVE  [t EXCEPT !.todo = q] \in ThreadRecord
BY DEF ThreadRecord

LEMMA PlaceAltered ==
    ASSUME NEW t \in ThreadRecord, NEW v \in PCs
    PROVE  [t EXCEPT !.pc = v] \in ThreadRecord
BY DEF ThreadRecord

LEMMA LaunchAltered ==
    ASSUME NEW t \in ThreadRecord, NEW q \in Seq(Fresh), NEW v \in PCs
    PROVE  [t EXCEPT !.pc = v, !.todo = q] \in ThreadRecord
BY DEF ThreadRecord

LEMMA HoldAltered ==
    ASSUME NEW t \in ThreadRecord, NEW h \in {"no", "nonterm", "released"}
    PROVE  [t EXCEPT !.hold = h] \in ThreadRecord
BY DEF ThreadRecord

LEMMA RecordFields ==
    ASSUME NEW t \in ThreadRecord
    PROVE  DOMAIN t = {"mode", "pc", "todo", "next", "sock", "rep", "hold"}
BY DEF ThreadRecord

(* A started thread is one more of those that are counted.                       *)
LEMMA ThreadStarted ==
    ASSUME NEW ts, NEW n, NEW m, Right(ts, n, m),
           NEW i \in DOMAIN ts, ts[i].todo # <<>>
    PROVE  Right(Append([ts EXCEPT ![i].todo = Tail(@)], Head(ts[i].todo)), n + 1, m)
<1> DEFINE h == Head(ts[i].todo)
           vs == [ts EXCEPT ![i].todo = Tail(@)]
           us == Append(vs, h)
           l == Len(ts) + 1
<1>1. ts \in Seq(ThreadRecord) /\ ts[i] \in ThreadRecord
  BY DEF Right
<1>2. h \in Fresh /\ Tail(ts[i].todo) \in Seq(Fresh) /\ h = ts[i].todo[1]
      /\ \A k \in DOMAIN Tail(ts[i].todo) : /\ k + 1 \in DOMAIN ts[i].todo
                                            /\ Tail(ts[i].todo)[k] = ts[i].todo[k + 1]
      /\ DOMAIN Tail(ts[i].todo) \subseteq Nat \ {0}
  <2>1. ts[i].todo \in Seq(Fresh)
    BY <1>1 DEF ThreadRecord
  <2> HIDE DEF h
  <2>2. DOMAIN Tail(ts[i].todo) = 1 .. Len(ts[i].todo) - 1 /\ Len(ts[i].todo) \in Nat
    BY <2>1
  <2>3. h \in Fresh /\ Tail(ts[i].todo) \in Seq(Fresh) /\ h = ts[i].todo[1]
    BY <2>1 DEF h
  <2>4. \A k \in 1 .. Len(ts[i].todo) - 1 : Tail(ts[i].todo)[k] = ts[i].todo[k + 1]
    BY <2>1
  <2>5. DOMAIN ts[i].todo = 1 .. Len(ts[i].todo)
    BY <2>1
  <2> QED
    BY <2>2, <2>3, <2>4, <2>5
<1>3. /\ vs \in Seq(ThreadRecord) /\ DOMAIN vs = DOMAIN ts
      /\ \A j \in DOMAIN ts \ {i} : vs[j] = ts[j]
      /\ vs[i] = [ts[i] EXCEPT !.todo = Tail(@)]
  <2> DEFINE q == Tail(ts[i].todo)
  <2>1. [ts[i] EXCEPT !.todo = q] \in ThreadRecord
    <3>1. q \in Seq(Fresh) /\ ts[i] \in ThreadRecord
      BY <1>1, <1>2
    <3> HIDE DEF q, vs, us, h
    <3> QED
      BY <3>1, TodoAltered
  <2> QED
    BY <1>1, <2>1
<1>4. h \in ThreadRecord /\ h.mode # "main" /\ Placed(h) /\ Counted(h)
      /\ h.hold = "no" /\ h.todo = <<>>
  BY <1>2, FreshThreads
<1>5. DOMAIN ts = 1 .. Len(ts) /\ Len(ts) \in Nat /\ Len(vs) = Len(ts)
  BY <1>1, <1>3
<1> HIDE DEF h, vs
<1>6. us \in Seq(ThreadRecord) /\ DOMAIN us = DOMAIN ts \cup {l} /\ us[l] = h
      /\ l \notin DOMAIN ts /\ \A j \in DOMAIN ts : us[j] = vs[j]
  BY <1>3, <1>4, <1>5
<1> HIDE DEF us, l
<1>7. \A j \in DOMAIN ts : /\ us[j].mode = ts[j].mode /\ us[j].pc = ts[j].pc
                           /\ us[j].hold = ts[j].hold /\ us[j].rep = ts[j].rep
                           /\ j # i => us[j] = ts[j]
  <2>1. us[i] = [ts[i] EXCEPT !.todo = Tail(@)]
    BY <1>3, <1>6
  <2>2. DOMAIN ts[i] = {"mode", "pc", "todo", "next", "sock", "rep", "hold"}
    BY <1>1, RecordFields
  <2>3. us[i].mode = ts[i].mode /\ us[i].pc = ts[i].pc /\ us[i].hold = ts[i].hold
        /\ us[i].rep = ts[i].rep
    BY <2>1, <2>2
  <2> QED
    BY <1>3, <1>6, <2>3
<1>8. us[i].todo = Tail(ts[i].todo)
  BY <1>1, <1>3, <1>6, RecordFields
<1>9. 1 \in DOMAIN ts /\ 1 # l /\ i # l /\ i \in DOMAIN us
  BY <1>6 DEF Right
<1>10. \A j \in DOMAIN us : us[j].mode = "main" <=> j = 1
  BY <1>4, <1>6, <1>7, <1>9 DEF Right
<1>11. us[1].pc # "start"
  <2> SUFFICES ASSUME us[1].pc = "start" PROVE FALSE
    OBVIOUS
  <2>1. DOMAIN ts = {1} /\ ts[1].todo = <<>>
    BY <1>7, <1>9 DEF Right
  <2> QED
    BY <2>1
<1>12. \A j \in DOMAIN us : Placed(us[j])
  <2>1. \A j \in DOMAIN ts : Placed(us[j]) <=> Placed(ts[j])
    BY <1>7 DEF Placed
  <2> QED
    BY <1>4, <1>6, <2>1 DEF Right
<1>13. OneListener(us)
  <2>1. OneListener(ts)
    BY DEF Right
  <2>2. \A j \in DOMAIN us \ {1} : NoListener(us[j].todo)
    <3> SUFFICES ASSUME NEW j \in DOMAIN us, j # 1 PROVE NoListener(us[j].todo)
      OBVIOUS
    <3>1. CASE j = l
      BY <1>4, <1>6, <3>1 DEF NoListener
    <3>2. CASE j # l /\ j # i
      BY <1>6, <1>7, <2>1, <3>2 DEF OneListener
    <3>3. CASE j = i
      <4>1. NoListener(ts[i].todo)
        BY <2>1, <3>3 DEF OneListener
      <4>2. us[j].todo = Tail(ts[i].todo)
        BY <1>8, <3>3
      <4> HIDE DEF us
      <4> QED
        BY <1>2, <4>1, <4>2 DEF NoListener
    <3> QED
      BY <3>1, <3>2, <3>3
  <2>3. CASE i # 1
    <3>1. h.mode # "listener"
      <4>1. 1 \in DOMAIN ts[i].todo
        BY <1>1, <1>2 DEF ThreadRecord
      <4> QED
        BY <1>2, <2>1, <2>3, <4>1 DEF OneListener, NoListener
    <3>2. us[1].todo = ts[1].todo
      BY <1>7, <1>9, <2>3
    <3> QED
      BY <1>6, <1>7, <1>9, <2>1, <2>2, <3>1, <3>2 DEF OneListener
  <2>4. CASE i = 1
    <3>1. 1 \in DOMAIN ts[1].todo
      BY <1>1, <1>2, <2>4 DEF ThreadRecord
    <3>2. \A k \in DOMAIN us[1].todo :
             /\ k + 1 \in DOMAIN ts[1].todo /\ us[1].todo[k] = ts[1].todo[k + 1]
             /\ k \in Nat \ {0}
      BY <1>2, <1>8, <2>4
    <3>3. h = ts[1].todo[1]
      BY <1>2, <2>4
    <3>4. CASE h.mode = "listener"
      <4>1. \A j \in DOMAIN ts : ts[j].mode # "listener"
        BY <2>1, <3>1, <3>3, <3>4 DEF OneListener, NoListener
      <4>2. NoListener(us[1].todo)
        <5> SUFFICES ASSUME NEW k \in DOMAIN us[1].todo, us[1].todo[k].mode = "listener"
                     PROVE  FALSE
          BY DEF NoListener
        <5>1. k + 1 = 1
          BY <2>1, <3>1, <3>2, <3>3, <3>4 DEF OneListener
        <5> QED
          BY <3>2, <5>1
      <4> QED
        BY <1>6, <1>7, <2>2, <4>1, <4>2 DEF OneListener, NoListener
    <3>5. CASE h.mode # "listener"
      <4>1. \A j \in DOMAIN us : us[j].mode = "listener" => j \in DOMAIN ts /\ ts[j].mode = "listener"
        BY <1>6, <1>7, <3>5
      <4>2. \A j, k \in DOMAIN us : us[j].mode = "listener" /\ us[k].mode = "listener" => j = k
        BY <2>1, <4>1 DEF OneListener
      <4>3. \A k, k2 \in DOMAIN us[1].todo :
               us[1].todo[k].mode = "listener" /\ us[1].todo[k2].mode = "listener" => k = k2
        <5> SUFFICES ASSUME NEW k \in DOMAIN us[1].todo, NEW k2 \in DOMAIN us[1].todo,
                            us[1].todo[k].mode = "listener", us[1].todo[k2].mode = "listener"
                     PROVE  k = k2
          OBVIOUS
        <5>1. k + 1 = k2 + 1
          BY <2>1, <3>2 DEF OneListener
        <5> QED
          BY <3>2, <5>1
      <4>4. (\E j \in DOMAIN us : us[j].mode = "listener") => NoListener(us[1].todo)
        <5>1. (\E j \in DOMAIN us : us[j].mode = "listener") => NoListener(ts[1].todo)
          BY <2>1, <4>1 DEF OneListener
        <5> QED
          BY <3>2, <5>1 DEF NoListener
      <4> QED
        BY <2>2, <4>2, <4>3, <4>4 DEF OneListener
    <3> QED
      BY <3>4, <3>5
  <2> QED
    BY <2>3, <2>4
<1>14. n + 1 = Cardinality(Counting(us))
  <2>1. \A j \in DOMAIN ts : Counted(us[j]) <=> Counted(ts[j])
    BY <1>7 DEF Counted, Finished
  <2>2. Counting(us) = Counting(ts) \cup {l}
    BY <1>4, <1>6, <1>9, <2>1 DEF Counting
  <2>3. l \notin Counting(ts)
    BY <1>6 DEF Counting
  <2>4. IsFiniteSet(Counting(ts)) /\ n = Cardinality(Counting(ts))
    BY CountedThreads DEF Right
  <2> QED
    BY <2>2, <2>3, <2>4, FS_AddElement
<1>15. m = IF \E j \in DOMAIN us : us[j].hold = "nonterm" THEN 1 ELSE 0
  BY <1>4, <1>6, <1>7 DEF Right
<1> QED
  BY <1>6, <1>9, <1>10, <1>11, <1>12, <1>13, <1>14, <1>15 DEF Right, us, vs, h

(* What an interrupt takes out are the registered threads, one at most.          *)
LEMMA ListenersReleased ==
    ASSUME NEW ts, NEW n, NEW m, Right(ts, n, m)
    PROVE  Right(Released(ts), n - m, 0)
<1> DEFINE us == Released(ts)
           H == {j \in DOMAIN ts : ts[j].hold = "nonterm"}
<1>1. ts \in Seq(ThreadRecord) /\ DOMAIN us = DOMAIN ts /\ 1 \in DOMAIN us
  BY DEF Right, Released
<1>2. \A j \in DOMAIN ts : ts[j] \in ThreadRecord /\ us[j] \in ThreadRecord
      /\ us[j] = [ts[j] EXCEPT !.hold = IF @ = "nonterm" THEN "released" ELSE @]
  <2> SUFFICES ASSUME NEW j \in DOMAIN ts
               PROVE  /\ ts[j] \in ThreadRecord /\ us[j] \in ThreadRecord
                      /\ us[j] = [ts[j] EXCEPT !.hold = IF @ = "nonterm" THEN "released" ELSE @]
    OBVIOUS
  <2>1. ts[j] \in ThreadRecord
    BY <1>1
  <2>2. us[j] = IF ts[j].hold = "nonterm" THEN [ts[j] EXCEPT !.hold = "released"] ELSE ts[j]
    BY DEF Released
  <2>3. ts[j] = [ts[j] EXCEPT !.hold = ts[j].hold]
    BY <2>1 DEF ThreadRecord
  <2>4. [ts[j] EXCEPT !.hold = "released"] \in ThreadRecord
    BY <2>1, HoldAltered
  <2> HIDE DEF us
  <2> QED
    BY <2>1, <2>2, <2>3, <2>4
<1>3. us \in Seq(ThreadRecord)
  <2>1. us = [j \in 1 .. Len(ts) |-> us[j]] /\ Len(ts) \in Nat /\ DOMAIN ts = 1 .. Len(ts)
    BY <1>1 DEF Released
  <2> HIDE DEF us
  <2> QED
    BY <1>2, <2>1
<1> HIDE DEF us
<1>4. \A j \in DOMAIN ts : /\ us[j].mode = ts[j].mode /\ us[j].pc = ts[j].pc
                           /\ us[j].rep = ts[j].rep /\ us[j].todo = ts[j].todo
                           /\ us[j].hold = IF j \in H THEN "released" ELSE ts[j].hold
  BY <1>2, RecordFields
<1>5. \A j \in DOMAIN us : Placed(us[j])
  <2>1. \A j \in DOMAIN ts : us[j].hold # "no" <=> ts[j].hold # "no"
    BY <1>4
  <2>2. \A j \in DOMAIN ts : Placed(ts[j])
    BY DEF Right
  <2> HIDE DEF H
  <2> QED
    BY <1>1, <1>4, <2>1, <2>2 DEF Placed
<1>6. OneListener(us)
  BY <1>1, <1>4 DEF Right, OneListener
<1>7. us[1].pc = "start" => DOMAIN us = {1} /\ us[1].todo = <<>>
  BY <1>1, <1>4 DEF Right
<1>8. \A j \in DOMAIN us : us[j].mode = "main" <=> j = 1
  BY <1>1, <1>4 DEF Right
<1>9. n - m = Cardinality(Counting(us))
  <2>1. \A j \in H : /\ Counted(ts[j]) /\ j # 1 /\ ~Counted(us[j])
                     /\ ts[j].mode = "listener"
    BY <1>4 DEF Right, Placed, Counted, Finished, Registered, Listening
  <2>2. \A j \in DOMAIN ts \ H : Counted(us[j]) <=> Counted(ts[j])
    BY <1>4 DEF Counted, Finished
  <2>3. Counting(us) = Counting(ts) \ H
    BY <1>1, <2>1, <2>2 DEF Counting
  <2>4. IsFiniteSet(Counting(ts)) /\ n = Cardinality(Counting(ts)) /\ n \in Nat
    BY CountedThreads DEF Right
  <2>5. CASE H = {}
    <3>1. m = 0
      BY <2>5 DEF Right
    <3> QED
      BY <2>3, <2>4, <2>5, <3>1
  <2>6. CASE H # {}
    <3>1. m = 1
      BY <2>6 DEF Right
    <3>2. PICK j \in H : TRUE
      BY <2>6
    <3>3. H = {j}
      BY <2>1, <3>2 DEF Right, OneListener
    <3>4. j \in Counting(ts)
      BY <2>1, <3>2 DEF Counting
    <3> QED
      <4>1. Cardinality(Counting(ts) \ {j}) = Cardinality(Counting(ts)) - 1
        BY <2>4, <3>4, FS_RemoveElement
      <4> QED
        BY <2>3, <2>4, <3>1, <3>3, <4>1
  <2> QED
    BY <2>5, <2>6
<1>10. \A j \in DOMAIN us : us[j].hold # "nonterm"
  BY <1>1, <1>4
<1> QED
  BY <1>1, <1>3, <1>5, <1>6, <1>7, <1>8, <1>9, <1>10 DEF Right, us

(* main has its first threads to start.                                          *)
LEMMA MainLaunches ==
    ASSUME NEW ts, NEW n, NEW m, Right(ts, n, m), ts[1].pc = "start",
           NEW q \in Seq(Fresh),
           \A k, l \in DOMAIN q : q[k].mode = "listener" /\ q[l].mode = "listener" => k = l
    PROVE  Right([ts EXCEPT ![1] = [@ EXCEPT !.pc = "join", !.todo = q]], n, m)
<1> DEFINE t == [ts[1] EXCEPT !.pc = "join", !.todo = q]
           us == [ts EXCEPT ![1] = t]
<1>1. ts \in Seq(ThreadRecord) /\ DOMAIN ts = {1} /\ ts[1] \in ThreadRecord
      /\ ts[1].mode = "main" /\ Placed(ts[1])
  <2>1. ts \in Seq(ThreadRecord) /\ 1 \in DOMAIN ts
    BY DEF Right
  <2>2. DOMAIN ts = {1} /\ ts[1].mode = "main" /\ Placed(ts[1])
    BY <2>1 DEF Right
  <2> HIDE DEF t, us
  <2>3. ts[1] \in ThreadRecord
    BY <2>1
  <2> QED
    BY <2>1, <2>2, <2>3, Zenon
<1>2. t \in ThreadRecord /\ t.mode = "main" /\ t.pc = "join" /\ t.hold = ts[1].hold
      /\ t.todo = q /\ t.rep = ts[1].rep
  <2>1. "join" \in PCs
    BY DEF PCs
  <2>2. t \in ThreadRecord
    BY <1>1, <2>1, LaunchAltered
  <2>3. DOMAIN ts[1] = {"mode", "pc", "todo", "next", "sock", "rep", "hold"}
    BY <1>1, RecordFields
  <2> QED
    BY <1>1, <2>2, <2>3
<1> HIDE DEF t
<1>3. us \in Seq(ThreadRecord) /\ DOMAIN us = {1} /\ us[1] = t
  <2>1. 1 \in DOMAIN ts
    BY <1>1
  <2> HIDE DEF us
  <2> QED
    BY <1>1, <1>2, <2>1, SequenceAltered DEF us
<1> HIDE DEF us
<1>4. Placed(t) /\ t.hold = "no" /\ ts[1].hold = "no"
  BY <1>1, <1>2 DEF Placed
<1>5. OneListener(us)
  BY <1>2, <1>3 DEF OneListener
<1>6. Counting(us) = {} /\ Counting(ts) = {}
  BY <1>1, <1>3 DEF Counting
<1>7. n = Cardinality(Counting(us)) /\ m = 0
  BY <1>1, <1>4, <1>6 DEF Right
<1> QED
  BY <1>2, <1>3, <1>4, <1>5, <1>7 DEF Right, us, t

--------------------------------------------------------------------------------
(* Connections.                                                                  *)

LEMMA LeastIndex ==
    ASSUME NEW T, T \subseteq Nat, T # {}
    PROVE  Min(T) \in T /\ \A i \in T : Min(T) <= i
<1> DEFINE R == {p \in Nat \X Nat : p[1] < p[2]}
<1>1. IsWellFoundedOn(R, Nat)
  BY NatLessThanWellFounded, Zenon DEF OpToRel
<1>2. \A x, y \in Nat : <<x, y>> \in R <=> x < y
  OBVIOUS
<1> HIDE DEF R
<1>3. PICK x \in T : \A y \in T : ~ (<<y, x>> \in R)
  BY <1>1, WFMin
<1>4. ASSUME NEW y \in T PROVE x <= y
  <2>1. x \in Nat /\ y \in Nat
    OBVIOUS
  <2>2. ~ (y < x)
    BY <1>2, <1>3, <2>1, Zenon
  <2> QED
    BY <2>1, <2>2
<1> QED
  BY <1>4 DEF Min

LEMMA QueuePlace ==
    ASSUME conns \in Seq(Connections), NEW p, Queue(p) # {}
    PROVE  Min(Queue(p)) \in Nat
<1>1. Queue(p) \subseteq Nat
  BY DEF Queue
<1> QED
  BY <1>1, LeastIndex

LEMMA EndAltered ==
    ASSUME NEW x \in Connections
    PROVE  [x EXCEPT !.state = "dropped"] \in Connections /\ [x EXCEPT !.eof = TRUE] \in Connections
BY DEF Connections

LEMMA ConnectionAltered ==
    ASSUME NEW cs \in Seq(Connections), NEW c
    PROVE  /\ \A v \in {"queued", "taken", "dropped"} : [cs EXCEPT ![c].state = v] \in Seq(Connections)
           /\ \A v \in BOOLEAN : /\ [cs EXCEPT ![c].hdr = v] \in Seq(Connections)
                                 /\ [cs EXCEPT ![c].data = v] \in Seq(Connections)
                                 /\ [cs EXCEPT ![c].eof = v] \in Seq(Connections)
<1>1. CASE c \in DOMAIN cs
  <2>1. cs[c] \in Connections
    BY <1>1
  <2>2. /\ \A v \in {"queued", "taken", "dropped"} : [cs[c] EXCEPT !.state = v] \in Connections
        /\ \A v \in BOOLEAN : /\ [cs[c] EXCEPT !.hdr = v] \in Connections
                              /\ [cs[c] EXCEPT !.data = v] \in Connections
                              /\ [cs[c] EXCEPT !.eof = v] \in Connections
    BY <2>1 DEF Connections
  <2>3. \A x \in Connections : [cs EXCEPT ![c] = x] \in Seq(Connections)
    BY <1>1, SequenceAltered
  <2> QED
    BY <2>2, <2>3
<1>2. CASE c \notin DOMAIN cs
  <2>1. \A x : [cs EXCEPT ![c] = x] = cs
    BY <1>2
  <2> QED
    BY <2>1
<1> QED
  BY <1>1, <1>2

LEMMA DroppedAreConnections ==
    ASSUME NEW cs \in Seq(Connections), NEW p, NEW states
    PROVE  Dropped(cs, p, states) \in Seq(Connections)
<1>1. DOMAIN cs = 1 .. Len(cs) /\ Len(cs) \in Nat
  OBVIOUS
<1>2. \A c \in DOMAIN cs : cs[c] \in Connections /\ [cs[c] EXCEPT !.state = "dropped"] \in Connections
  <2>1. \A c \in DOMAIN cs : cs[c] \in Connections
    OBVIOUS
  <2> QED
    BY <2>1, EndAltered, Zenon
<1> QED
  BY <1>1, <1>2 DEF Dropped

LEMMA ClosedAreConnections ==
    ASSUME NEW cs \in Seq(Connections), NEW p
    PROVE  WithoutProcess(cs, p) \in Seq(Connections)
<1> DEFINE left == Dropped(cs, p, {"queued", "taken"})
<1>1. left \in Seq(Connections)
  BY DroppedAreConnections
<1> HIDE DEF left
<1>2. DOMAIN left = 1 .. Len(left) /\ Len(left) \in Nat
  BY <1>1
<1>3. \A c \in DOMAIN left : left[c] \in Connections /\ [left[c] EXCEPT !.eof = TRUE] \in Connections
  <2>1. \A c \in DOMAIN left : left[c] \in Connections
    BY <1>1
  <2> QED
    BY <2>1, EndAltered, Zenon
<1>4. WithoutProcess(cs, p) =
        [c \in DOMAIN left |-> IF left[c].from = p THEN [left[c] EXCEPT !.eof = TRUE] ELSE left[c]]
  BY DEF WithoutProcess, left
<1> QED
  BY <1>2, <1>3, <1>4

--------------------------------------------------------------------------------
(* Steps of a process.                                                           *)

(* The threads of one process change, as long as it runs.                        *)
LEMMA ProcessKeepsCount ==
    ASSUME IInv, NEW p \in Program, process[p] # "joined", NEW ts, NEW n, NEW m, Right(ts, n, m),
           threads' = [threads EXCEPT ![p] = ts],
           thread_sNum' = [thread_sNum EXCEPT ![p] = n],
           nonterminating_num' = [nonterminating_num EXCEPT ![p] = m],
           UNCHANGED <<process, settings>>, conns' \in Seq(Connections)
    PROVE  IInv'
<1>1. \A q \in Program : Right(threads'[q], thread_sNum'[q], nonterminating_num'[q])
  BY DEF IInv
<1>2. \A q \in Program : process'[q] = "joined" => thread_sNum'[q] <= 0
  BY DEF IInv
<1> QED
  BY <1>1, <1>2 DEF IInv

(* A thread goes on and is counted as before.                                    *)
Follows(s, t) ==
    /\ t \in ThreadRecord /\ t.mode = s.mode /\ t.hold = s.hold /\ NoListener(t.todo)
    /\ \/ /\ s.mode = "client" /\ s.pc \in {"connect", "hdr", "barrier"}
          /\ t.pc \in {"hdr", "barrier", "write"} /\ t.rep = s.rep
       \/ s.mode \in {"client", "server"} /\ s.pc \in {"read", "write", "end"} /\ t.pc = "end"
       \/ s.mode = "listener" /\ s.pc \in Registered /\ t.pc \in Registered /\ t.rep = s.rep
       \/ t.pc = s.pc /\ t.rep \in {"none", s.rep}

LEMMA ThreadFollows ==
    ASSUME NEW s \in ThreadRecord, Placed(s), NEW t, Follows(s, t)
    PROVE  Continues(s, t) /\ (Counted(s) <=> Counted(t))
<1>1. Placed(t)
  BY DEF Placed, Follows, ThreadRecord, Registered, Listening
<1>2. Counted(s) <=> Counted(t)
  BY DEF Placed, Follows, Counted, Finished, Registered, Listening
<1> QED
  BY <1>1, <1>2 DEF Continues, Follows

LEMMA ThreadHere ==
    ASSUME IInv, NEW p \in Program, NEW i \in Thread(p), threads[p][i].mode # "main"
    PROVE  /\ threads[p] \in Seq(ThreadRecord) /\ i \in DOMAIN threads[p] \ {1}
           /\ threads[p][i] \in ThreadRecord /\ Placed(threads[p][i])
           /\ NoListener(threads[p][i].todo)
           /\ Right(threads[p], thread_sNum[p], nonterminating_num[p])
<1>1. Right(threads[p], thread_sNum[p], nonterminating_num[p])
  BY DEF IInv
<1>2. i \in DOMAIN threads[p] \ {1} /\ threads[p] \in Seq(ThreadRecord)
  BY <1>1 DEF Right, Thread
<1>3. threads[p][i] \in ThreadRecord
  BY <1>2
<1> QED
  BY <1>1, <1>2, <1>3 DEF Right, OneListener

LEMMA FollowingKeepsCount ==
    ASSUME IInv, NEW p \in Program, process[p] # "joined",
           NEW i \in Thread(p), threads[p][i].mode # "main", NEW t, Follows(threads[p][i], t),
           threads' = [threads EXCEPT ![p][i] = t],
           UNCHANGED <<thread_sNum, nonterminating_num, process, settings>>,
           conns' \in Seq(Connections)
    PROVE  IInv'
<1> DEFINE ts == threads[p]
           us == [ts EXCEPT ![i] = t]
<1>1. /\ i \in DOMAIN ts \ {1} /\ ts[i] \in ThreadRecord /\ Placed(ts[i])
      /\ Right(ts, thread_sNum[p], nonterminating_num[p])
  BY ThreadHere
<1>2. Continues(ts[i], t) /\ (Counted(ts[i]) <=> Counted(t))
  BY <1>1, ThreadFollows
<1>3. nonterminating_num[p] =
        IF ts[i].mode = "listener" THEN One(t.hold = "nonterm") ELSE nonterminating_num[p]
  <2>1. CASE ts[i].mode = "listener"
    <3>1. \A j \in DOMAIN ts \ {i} : ts[j].hold # "nonterm"
      BY <1>1, <2>1 DEF Right, Placed, OneListener
    <3>2. t.hold = ts[i].hold
      BY DEF Follows
    <3> QED
      BY <1>1, <2>1, <3>1, <3>2 DEF Right, One
  <2> QED
    BY <2>1
<1>4. Right(us, thread_sNum[p], nonterminating_num[p])
  BY <1>1, <1>2, <1>3, ThreadContinues
<1>5. /\ threads' = [threads EXCEPT ![p] = us]
      /\ \A q \in Program : q # p => threads'[q] = threads[q]
      /\ threads'[p] = us /\ DOMAIN threads' = Program
  BY DEF IInv
<1> HIDE DEF us
<1>6. \A q \in Program : Right(threads'[q], thread_sNum[q], nonterminating_num[q])
  BY <1>4, <1>5 DEF IInv
<1> QED
  BY <1>5, <1>6 DEF IInv

--------------------------------------------------------------------------------
(* The steps of a thread of a process that runs.                                 *)

(* A thread goes on to another place.                                            *)
LEMMA GoesKeepsCount ==
    ASSUME IInv, NEW p \in Program, process[p] # "joined",
           NEW i \in Thread(p), NEW pc \in PCs, Goes(p, i, pc),
           LET s == threads[p][i]
           IN \/ s.mode = "client" /\ s.pc \in {"connect", "hdr", "barrier"}
                 /\ pc \in {"hdr", "barrier", "write"}
              \/ s.mode = "listener" /\ s.pc \in Registered /\ pc \in Registered,
           UNCHANGED <<thread_sNum, nonterminating_num, process, settings>>,
           conns' \in Seq(Connections)
    PROVE  IInv'
<1> DEFINE s == threads[p][i]
           t == [s EXCEPT !.pc = pc]
<1>1. s \in ThreadRecord /\ NoListener(s.todo) /\ s.mode # "main"
  BY ThreadHere
<1>2. DOMAIN s = {"mode", "pc", "todo", "next", "sock", "rep", "hold"}
  BY <1>1, RecordFields
<1>3. t \in ThreadRecord
  BY <1>1, PlaceAltered
<1>4. Follows(s, t)
  BY <1>1, <1>2, <1>3 DEF Follows
<1>5. threads' = [threads EXCEPT ![p][i] = t]
  BY DEF Goes
<1> QED
  BY <1>1, <1>4, <1>5, FollowingKeepsCount

LEMMA FieldAltered ==
    ASSUME NEW s \in ThreadRecord, NEW pc \in PCs
    PROVE  /\ \A v \in Nat : [s EXCEPT !.pc = pc, !["sock"] = v] \in ThreadRecord
           /\ \A v \in {"none", "closed", "printed", "released"} :
                 [s EXCEPT !.pc = pc, !["rep"] = v] \in ThreadRecord
           /\ \A v \in Seq(Fresh) : [s EXCEPT !.pc = pc, !["todo"] = v] \in ThreadRecord
BY DEF ThreadRecord

LEMMA ReportAltered ==
    ASSUME NEW s \in ThreadRecord, NEW v \in {"none", "closed", "printed", "released"}
    PROVE  [s EXCEPT !.rep = v] \in ThreadRecord
BY DEF ThreadRecord

--------------------------------------------------------------------------------
(* The counts of the thread subsystem.                                           *)

LEMMA CountChanges ==
    ASSUME IInv, NEW p \in Program, process[p] # "joined", NEW ts, NEW n,
           Right(ts, n, nonterminating_num[p]),
           threads' = [threads EXCEPT ![p] = ts],
           thread_sNum' = [thread_sNum EXCEPT ![p] = n],
           UNCHANGED <<nonterminating_num, process, settings>>, conns' \in Seq(Connections)
    PROVE  IInv'
<1>1. \A q \in Program : Right(threads'[q], thread_sNum'[q], nonterminating_num'[q])
  BY DEF IInv
<1>2. \A q \in Program : process'[q] = "joined" => thread_sNum'[q] <= 0
  BY DEF IInv
<1> QED
  BY <1>1, <1>2 DEF IInv

LEMMA HoldChanges ==
    ASSUME IInv, NEW p \in Program, process[p] # "joined", NEW ts, NEW m,
           Right(ts, thread_sNum[p], m),
           threads' = [threads EXCEPT ![p] = ts],
           nonterminating_num' = [nonterminating_num EXCEPT ![p] = m],
           UNCHANGED <<thread_sNum, process, settings>>, conns' \in Seq(Connections)
    PROVE  IInv'
<1>1. \A q \in Program : Right(threads'[q], thread_sNum'[q], nonterminating_num'[q])
  BY DEF IInv
<1>2. \A q \in Program : process'[q] = "joined" => thread_sNum'[q] <= 0
  BY DEF IInv
<1> QED
  BY <1>1, <1>2 DEF IInv

(* A listener that is not registered: nobody is, in its process.                 *)
LEMMA OnlyListenerHeld ==
    ASSUME NEW ts, NEW n, NEW m, Right(ts, n, m), NEW i \in DOMAIN ts, ts[i].mode = "listener"
    PROVE  m = One(ts[i].hold = "nonterm")
<1>1. \A j \in DOMAIN ts \ {i} : ts[j].hold # "nonterm"
  BY DEF Right, Placed, OneListener
<1> QED
  BY <1>1 DEF Right, One

(* A thread leaves the count, or comes back to it.                               *)
LEMMA LeavingKeepsCount ==
    ASSUME IInv, NEW p \in Program, process[p] # "joined",
           NEW i \in Thread(p), threads[p][i].mode # "main",
           NEW t, Continues(threads[p][i], t), threads[p][i].hold = "no", t.hold = "no",
           threads' = [threads EXCEPT ![p][i] = t],
           UNCHANGED <<nonterminating_num, process, settings>>, conns' \in Seq(Connections),
           \/ /\ Counted(threads[p][i]) /\ ~Counted(t)
              /\ thread_sNum' = [thread_sNum EXCEPT ![p] = @ - 1]
           \/ /\ ~Counted(threads[p][i]) /\ Counted(t)
              /\ thread_sNum' = [thread_sNum EXCEPT ![p] = @ + 1]
    PROVE  IInv'
<1> DEFINE ts == threads[p]
           us == [ts EXCEPT ![i] = t]
           m == nonterminating_num[p]
<1>1. i \in DOMAIN ts \ {1} /\ Right(ts, thread_sNum[p], m)
  BY ThreadHere
<1>2. m = IF ts[i].mode = "listener" THEN One(t.hold = "nonterm") ELSE m
  BY <1>1, OnlyListenerHeld
<1>3. threads' = [threads EXCEPT ![p] = us]
  OBVIOUS
<1>4. /\ Counted(ts[i]) /\ ~Counted(t) => Right(us, thread_sNum[p] - 1, m)
      /\ ~Counted(ts[i]) /\ Counted(t) => Right(us, thread_sNum[p] + 1, m)
  BY <1>1, <1>2, ThreadContinues
<1> HIDE DEF us
<1>5. CASE Counted(ts[i]) /\ ~Counted(t)
  <2>1. /\ Right(us, thread_sNum[p] - 1, nonterminating_num[p])
        /\ thread_sNum' = [thread_sNum EXCEPT ![p] = thread_sNum[p] - 1]
    BY <1>4, <1>5
  <2> QED
    BY <1>3, <2>1, CountChanges
<1>6. CASE ~Counted(ts[i]) /\ Counted(t)
  <2>1. /\ Right(us, thread_sNum[p] + 1, nonterminating_num[p])
        /\ thread_sNum' = [thread_sNum EXCEPT ![p] = thread_sNum[p] + 1]
    BY <1>4, <1>6
  <2> QED
    BY <1>3, <2>1, CountChanges
<1> QED
  BY <1>5, <1>6

LEMMA NextIsFresh ==
    ASSUME NEW q \in Seq({Client0})
    PROVE  q \in Seq(Fresh) /\ NoListener(q)
<1>1. Client0 \in Fresh
  BY DEF Fresh
<1>2. Client0.mode = "client"
  BY DEF Client0, Settings_Copy
<1> QED
  BY <1>1, <1>2 DEF NoListener

LEMMA WrapperKeepsCount ==
    ASSUME IInv, NEW p \in Program, process[p] = "running", NEW i \in Thread(p),
           thread_run_wrapper(p, i), settings' = settings, conns' \in Seq(Connections),
           LET s == threads[p][i]
           IN \/ s.mode \in {"client", "server"} /\ s.pc = "end" /\ s.rep = "printed"
              \/ s.mode = "listener" /\ s.pc = "finish"
    PROVE  IInv'
<1> DEFINE s == threads[p][i]
           rep == IF s.rep = "printed" THEN "released" ELSE s.rep
           t == [s EXCEPT !.pc = "after", !.todo = s.next, !.next = <<>>,
                          !.rep = IF @ = "printed" THEN "released" ELSE @]
<1>1. /\ s \in ThreadRecord /\ Placed(s) /\ s.mode # "main"
      /\ DOMAIN s = {"mode", "pc", "todo", "next", "sock", "rep", "hold"}
  BY ThreadHere, RecordFields
<1>2. s.next \in Seq({Client0}) /\ s.rep \in {"none", "closed", "printed", "released"}
  BY <1>1 DEF ThreadRecord
<1>3. s.next \in Seq(Fresh) /\ NoListener(s.next) /\ "after" \in PCs
  BY <1>2, NextIsFresh DEF PCs
<1>4. s.hold = "no" /\ Counted(s) /\ rep \in {"none", "released"}
  BY <1>1, <1>2 DEF Placed, Counted, Finished, Registered, Listening
<1>5. threads' = [threads EXCEPT ![p][i] = t]
  BY DEF thread_run_wrapper
<1>6. /\ t.mode = s.mode /\ t.pc = "after" /\ t.todo = s.next /\ t.hold = s.hold /\ t.rep = rep
  BY <1>1
<1> HIDE DEF rep
<1>7. t \in ThreadRecord
  <2>1. <<>> \in Seq({Client0})
    OBVIOUS
  <2> QED
    BY <1>1, <1>3, <1>4, <1>6, <2>1 DEF ThreadRecord
<1> HIDE DEF t
<1>8. Placed(t) /\ ~Counted(t)
  <2>1. rep # "none" => s.mode \in {"client", "server"}
    BY <1>1, <1>4 DEF rep, Placed
  <2> QED
    BY <1>4, <1>6, <2>1 DEF Placed, Counted, Finished, Registered, Listening
<1>9. Continues(s, t)
  BY <1>3, <1>6, <1>7, <1>8 DEF Continues
<1> QED
  BY <1>1, <1>4, <1>5, <1>6, <1>8, <1>9, LeavingKeepsCount DEF thread_run_wrapper, signalVars

LEMMA StopKeepsCount ==
    ASSUME IInv, NEW p \in Program, process[p] = "running", NEW i \in Thread(p),
           thread_stop(p, i), settings' = settings, conns' \in Seq(Connections),
           threads[p][i].mode = "client", threads[p][i].pc = "connect"
    PROVE  IInv'
<1> DEFINE s == threads[p][i]
           t == [s EXCEPT !.pc = "stopped", !.next = <<>>]
<1>1. /\ s \in ThreadRecord /\ Placed(s) /\ NoListener(s.todo)
      /\ DOMAIN s = {"mode", "pc", "todo", "next", "sock", "rep", "hold"}
  BY ThreadHere, RecordFields
<1>2. s.hold = "no" /\ Counted(s) /\ "stopped" \in PCs
  BY <1>1 DEF Placed, Counted, Finished, Registered, Listening, PCs
<1>3. threads' = [threads EXCEPT ![p][i] = t]
  BY DEF thread_stop
<1>4. /\ t.mode = s.mode /\ t.pc = "stopped" /\ t.todo = s.todo /\ t.hold = s.hold /\ t.rep = s.rep
  BY <1>1
<1>5. t \in ThreadRecord
  <2>1. <<>> \in Seq({Client0})
    OBVIOUS
  <2> QED
    BY <1>1, <1>2, <2>1 DEF ThreadRecord
<1> HIDE DEF t
<1>6. Placed(t) /\ ~Counted(t)
  BY <1>1, <1>2, <1>4 DEF Placed, Counted, Finished, Registered, Listening
<1>7. Continues(s, t)
  BY <1>1, <1>4, <1>5, <1>6 DEF Continues
<1> QED
  BY <1>1, <1>2, <1>3, <1>4, <1>6, <1>7, LeavingKeepsCount DEF thread_stop, signalVars

(* The reporter leaves the count and comes back.                                 *)
LEMMA IgnoreKeepsCount ==
    ASSUME IInv, NEW p \in Program, process[p] = "running", NEW i \in Thread(p),
           threads[p][i].mode = "reporter", settings' = settings, conns' \in Seq(Connections),
           \/ At(p, i, "work") /\ thread_setignore(p, i)
           \/ At(p, i, "ignored") /\ thread_unsetignore(p, i)
    PROVE  IInv'
<1> DEFINE s == threads[p][i]
           t(pc) == [s EXCEPT !.pc = pc]
<1>1. /\ s \in ThreadRecord /\ Placed(s) /\ NoListener(s.todo)
      /\ DOMAIN s = {"mode", "pc", "todo", "next", "sock", "rep", "hold"}
  BY ThreadHere, RecordFields
<1>2. s.hold = "no"
  BY <1>1 DEF Placed
<1>3. ASSUME NEW pc \in {"work", "ignored"}
      PROVE  /\ Continues(s, t(pc)) /\ t(pc).hold = "no"
             /\ Counted(t(pc)) <=> pc = "work"
  <2>1. pc \in PCs
    BY DEF PCs
  <2>2. t(pc) \in ThreadRecord
    BY <1>1, <2>1, PlaceAltered
  <2>3. /\ t(pc).mode = s.mode /\ t(pc).pc = pc /\ t(pc).todo = s.todo /\ t(pc).hold = s.hold
        /\ t(pc).rep = s.rep
    BY <1>1
  <2> HIDE DEF t
  <2>4. Placed(t(pc))
    BY <1>1, <1>2, <2>3 DEF Placed
  <2> QED
    BY <1>1, <1>2, <2>2, <2>3, <2>4 DEF Continues, Counted, Finished
<1>4. Counted(s) <=> s.pc = "work"
  BY <1>1, <1>2 DEF Placed, Counted, Finished
<1>5. CASE At(p, i, "work") /\ thread_setignore(p, i)
  <2>1. threads' = [threads EXCEPT ![p][i] = t("ignored")]
    BY <1>5 DEF thread_setignore, Goes
  <2>2. Continues(s, t("ignored")) /\ t("ignored").hold = "no" /\ ~Counted(t("ignored"))
    BY <1>3
  <2> HIDE DEF t
  <2> QED
    BY <1>2, <1>4, <1>5, <2>1, <2>2, LeavingKeepsCount DEF thread_setignore, At, signalVars
<1>6. CASE At(p, i, "ignored") /\ thread_unsetignore(p, i)
  <2>1. threads' = [threads EXCEPT ![p][i] = t("work")]
    BY <1>6 DEF thread_unsetignore, Goes
  <2>2. Continues(s, t("work")) /\ t("work").hold = "no" /\ Counted(t("work"))
    BY <1>3
  <2> HIDE DEF t
  <2> QED
    BY <1>2, <1>4, <1>6, <2>1, <2>2, LeavingKeepsCount DEF thread_unsetignore, At, signalVars
<1> QED
  BY <1>5, <1>6

(* One more thread.                                                              *)
LEMMA StartKeepsCount ==
    ASSUME IInv, NEW p \in Program, process[p] = "running", NEW i \in Thread(p),
           thread_start(p, i), settings' = settings, conns' = conns
    PROVE  IInv'
<1>1. Right(threads[p], thread_sNum[p], nonterminating_num[p]) /\ conns' \in Seq(Connections)
  BY DEF IInv
<1> DEFINE us == Append([threads[p] EXCEPT ![i].todo = Tail(@)], Head(threads[p][i].todo))
<1>2. Right(us, thread_sNum[p] + 1, nonterminating_num[p])
  BY <1>1, ThreadStarted DEF thread_start, Thread
<1>3. threads' = [threads EXCEPT ![p] = us]
  BY DEF thread_start
<1> HIDE DEF us
<1> QED
  BY <1>1, <1>2, <1>3, CountChanges DEF thread_start, signalVars

LEMMA ClientKeepsCount ==
    ASSUME IInv, NEW p \in Program, process[p] = "running", NEW i \in Thread(p), ClientStep(p, i)
    PROVE  IInv'
<1> DEFINE s == threads[p][i]
<1>1. /\ s \in ThreadRecord /\ NoListener(s.todo) /\ s.mode = "client"
      /\ DOMAIN s = {"mode", "pc", "todo", "next", "sock", "rep", "hold"}
      /\ conns \in Seq(Connections)
  BY ThreadHere, RecordFields DEF ClientStep, IInv
<1>2. {"hdr", "barrier", "write", "end"} \subseteq PCs
  BY DEF PCs
<1>3. CASE Connect(p, i) /\ ~ Listens(Peer(p), ClientSettings(p).port)
  <2>1. thread_stop(p, i) /\ s.pc = "connect" /\ conns' = conns /\ settings' = settings
    BY <1>3 DEF Connect, At, restVars, runVars, optionVars
  <2> QED
    BY <1>1, <2>1, StopKeepsCount
<1>4. CASE Connect(p, i) /\ Listens(Peer(p), ClientSettings(p).port)
  <2> DEFINE t == [s EXCEPT !.pc = "hdr", !["sock"] = Len(conns) + 1]
  <2>1. /\ conns' = Append(conns, Connection(p)) /\ s.pc = "connect"
        /\ threads' = [threads EXCEPT ![p][i] = t]
        /\ UNCHANGED <<thread_sNum, nonterminating_num, process, settings>>
    BY <1>4 DEF Connect, Alters, At, countVars, restVars, runVars, optionVars
  <2>2. Connection(p) \in Connections
    BY DEF Connection, Connections
  <2>3. conns' \in Seq(Connections) /\ Len(conns) + 1 \in Nat
    BY <1>1, <2>1, <2>2
  <2>4. t \in ThreadRecord
    BY <1>1, <1>2, <2>3, FieldAltered
  <2>5. Follows(s, t)
    BY <1>1, <2>1, <2>4 DEF Follows
  <2> QED
    BY <1>1, <2>1, <2>3, <2>5, FollowingKeepsCount
<1>5. CASE InitiateServer(p, i)
  <2>1. ExchangesHeaders(p) \in BOOLEAN
    BY DEF ExchangesHeaders
  <2>2. conns' \in Seq(Connections)
    BY <1>1, <1>5, <2>1, ConnectionAltered DEF InitiateServer
  <2> QED
    BY <1>1, <1>2, <1>5, <2>2, GoesKeepsCount DEF InitiateServer, At, UnchangedThreads, countVars,
       restVars, runVars, optionVars
<1>6. CASE Begin(p, i)
  <2>1. conns' \in Seq(Connections)
    BY <1>1, <1>6, ConnectionAltered DEF Begin
  <2> QED
    BY <1>1, <1>2, <1>6, <2>1, GoesKeepsCount DEF Begin, At, UnchangedThreads, countVars,
       restVars, runVars, optionVars
<1>7. CASE StopWriting(p, i)
  <2> DEFINE t == [s EXCEPT !.pc = "end", !["rep"] = "closed"]
  <2>1. /\ s.pc = "write" /\ threads' = [threads EXCEPT ![p][i] = t]
        /\ UNCHANGED <<conns, thread_sNum, nonterminating_num, process, settings>>
    BY <1>7 DEF StopWriting, Alters, At, UnchangedThreads, countVars, restVars, runVars, optionVars,
       tcpVars
  <2>2. t \in ThreadRecord
    BY <1>1, <1>2, FieldAltered
  <2>3. Follows(s, t)
    BY <1>1, <2>1, <2>2 DEF Follows
  <2> QED
    BY <1>1, <2>1, <2>3, FollowingKeepsCount
<1>8. CASE EndClient(p, i)
  <2>1. thread_run_wrapper(p, i) /\ s.pc = "end" /\ s.rep = "printed" /\ settings' = settings
    BY <1>8 DEF EndClient, At, restVars, runVars, optionVars
  <2>2. conns' \in Seq(Connections)
    BY <1>1, <1>8, ConnectionAltered DEF EndClient
  <2> QED
    BY <1>1, <2>1, <2>2, WrapperKeepsCount
<1> QED
  BY <1>3, <1>5, <1>6, <1>7, <1>8, <1>4 DEF ClientStep

LEMMA ServerKeepsCount ==
    ASSUME IInv, NEW p \in Program, process[p] = "running", NEW i \in Thread(p), ServerStep(p, i)
    PROVE  IInv'
<1> DEFINE s == threads[p][i]
           t == [s EXCEPT !.pc = "end", !["rep"] = "closed"]
<1>1. /\ s \in ThreadRecord /\ NoListener(s.todo) /\ s.mode = "server"
      /\ DOMAIN s = {"mode", "pc", "todo", "next", "sock", "rep", "hold"}
      /\ conns \in Seq(Connections)
  BY ThreadHere, RecordFields DEF ServerStep, IInv
<1>2. CASE StopReading(p, i)
  <2>1. /\ s.pc = "read" /\ threads' = [threads EXCEPT ![p][i] = t]
        /\ UNCHANGED <<conns, thread_sNum, nonterminating_num, process, settings>>
    BY <1>2 DEF StopReading, Alters, At, UnchangedThreads, countVars, restVars, runVars, optionVars,
       tcpVars
  <2>2. "end" \in PCs
    BY DEF PCs
  <2>3. t \in ThreadRecord
    BY <1>1, <2>2, FieldAltered
  <2>4. Follows(s, t)
    BY <1>1, <2>1, <2>3 DEF Follows
  <2> QED
    BY <1>1, <2>1, <2>4, FollowingKeepsCount
<1>3. CASE EndServer(p, i)
  <2>1. thread_run_wrapper(p, i) /\ s.pc = "end" /\ s.rep = "printed" /\ settings' = settings
    BY <1>3 DEF EndServer, At, restVars, runVars, optionVars
  <2>2. conns' \in Seq(Connections)
    BY <1>1, <1>3, ConnectionAltered DEF EndServer
  <2> QED
    BY <1>1, <2>1, <2>2, WrapperKeepsCount
<1> QED
  BY <1>2, <1>3 DEF ServerStep

LEMMA ReporterKeepsCount ==
    ASSUME IInv, NEW p \in Program, process[p] = "running", NEW i \in Thread(p), ReporterStep(p, i)
    PROVE  IInv'
<1>1. conns \in Seq(Connections) /\ threads[p][i].mode = "reporter"
  BY DEF IInv, ReporterStep
<1>2. ASSUME NEW j \in Thread(p), NEW v \in {"none", "printed"},
             threads' = [threads EXCEPT ![p][j].rep = v],
             threads[p][j].rep \in {"closed", "released"}, v = "printed" => threads[p][j].rep = "closed",
             UnchangedThreads, UNCHANGED tcpVars
      PROVE  IInv'
  <2> DEFINE s == threads[p][j]
             t == [s EXCEPT !.rep = v]
  <2>1. s.mode # "main"
    <3>1. Placed(s)
      BY DEF IInv, Right, Thread
    <3> QED
      BY <1>2, <3>1 DEF Placed
  <2>2. /\ s \in ThreadRecord /\ Placed(s) /\ NoListener(s.todo)
        /\ DOMAIN s = {"mode", "pc", "todo", "next", "sock", "rep", "hold"}
    BY <2>1, ThreadHere, RecordFields
  <2>3. t \in ThreadRecord
    BY <2>2, ReportAltered
  <2>4. t.mode = s.mode /\ t.pc = s.pc /\ t.hold = s.hold /\ t.todo = s.todo /\ t.rep = v
    BY <2>2
  <2>5. threads' = [threads EXCEPT ![p][j] = t]
    BY <1>2
  <2> HIDE DEF t
  <2>6. Follows(s, t)
    BY <1>2, <2>2, <2>3, <2>4 DEF Follows, Placed
  <2> QED
    BY <1>1, <1>2, <2>1, <2>5, <2>6, FollowingKeepsCount DEF UnchangedThreads, countVars, restVars,
       runVars, optionVars, tcpVars
<1>3. CASE ReporterPrints(p, i)
  BY <1>2, <1>3 DEF ReporterPrints, Reports
<1>4. CASE ReporterFrees(p, i)
  BY <1>2, <1>4 DEF ReporterFrees, Reports
<1>5. CASE ReporterIdles(p, i) \/ ReporterWakes(p, i)
  BY <1>1, <1>5, IgnoreKeepsCount DEF ReporterIdles, ReporterWakes, restVars, runVars, optionVars,
     tcpVars
<1> QED
  BY <1>3, <1>4, <1>5 DEF ReporterStep

--------------------------------------------------------------------------------
(* The listener.                                                                 *)

LEMMA RegisterKeepsCount ==
    ASSUME IInv, NEW p \in Program, process[p] = "running", NEW i \in Thread(p),
           threads[p][i].mode = "listener", UNCHANGED <<settings, conns>>,
           thread_register_nonterm(p, i)
    PROVE  IInv'
<1> DEFINE ts == threads[p]
           s == ts[i]
           t == [s EXCEPT !.pc = "listen", !.hold = "nonterm"]
           us == [ts EXCEPT ![i] = t]
           m == nonterminating_num[p]
<1>1. /\ s \in ThreadRecord /\ Placed(s) /\ NoListener(s.todo) /\ i \in DOMAIN ts \ {1}
      /\ DOMAIN s = {"mode", "pc", "todo", "next", "sock", "rep", "hold"}
      /\ Right(ts, thread_sNum[p], m) /\ s.pc = "register"
  BY ThreadHere, RecordFields DEF thread_register_nonterm, At
<1>2. s.hold = "no"
  BY <1>1 DEF Placed, Registered, Listening
<1>3. m = 0
  BY <1>1, <1>2, OnlyListenerHeld DEF One
<1>4. /\ t.mode = s.mode /\ t.pc = "listen" /\ t.hold = "nonterm" /\ t.todo = s.todo
      /\ t.rep = s.rep
  BY <1>1
<1>5. t \in ThreadRecord
  BY <1>1 DEF ThreadRecord, PCs
<1>6. threads' = [threads EXCEPT ![p] = us]
  BY DEF thread_register_nonterm
<1> HIDE DEF t
<1>7. Placed(t) /\ Counted(s) /\ Counted(t)
  BY <1>1, <1>2, <1>4 DEF Placed, Counted, Finished, Registered, Listening
<1>8. Continues(s, t)
  BY <1>1, <1>4, <1>5, <1>7 DEF Continues
<1>9. Right(us, thread_sNum[p], 1)
  BY <1>1, <1>4, <1>7, <1>8, ThreadContinues DEF One
<1>10. nonterminating_num' = [nonterminating_num EXCEPT ![p] = 1]
  BY <1>3 DEF thread_register_nonterm
<1> HIDE DEF us
<1> QED
  BY <1>6, <1>9, <1>10, HoldChanges DEF thread_register_nonterm, signalVars, IInv

LEMMA UnregisterKeepsCount ==
    ASSUME IInv, NEW p \in Program, process[p] = "running", NEW i \in Thread(p),
           threads[p][i].mode = "listener", UNCHANGED <<settings, conns>>,
           thread_unregister_nonterm(p, i)
    PROVE  IInv'
<1> DEFINE ts == threads[p]
           s == ts[i]
           t == [s EXCEPT !.pc = "finish", !.hold = "no"]
           us == [ts EXCEPT ![i] = t]
           m == nonterminating_num[p]
<1>1. /\ s \in ThreadRecord /\ Placed(s) /\ NoListener(s.todo) /\ i \in DOMAIN ts \ {1}
      /\ DOMAIN s = {"mode", "pc", "todo", "next", "sock", "rep", "hold"}
      /\ Right(ts, thread_sNum[p], m) /\ s.pc = "unregister"
  BY ThreadHere, RecordFields DEF thread_unregister_nonterm, At
<1>2. s.hold \in {"nonterm", "released"}
  BY <1>1 DEF Placed, Registered, ThreadRecord
<1>3. m = One(s.hold = "nonterm")
  BY <1>1, OnlyListenerHeld
<1>4. /\ t.mode = s.mode /\ t.pc = "finish" /\ t.hold = "no" /\ t.todo = s.todo
      /\ t.rep = s.rep
  BY <1>1
<1>5. t \in ThreadRecord
  BY <1>1 DEF ThreadRecord, PCs
<1>6. threads' = [threads EXCEPT ![p] = us]
  BY DEF thread_unregister_nonterm
<1> HIDE DEF t
<1>7. Placed(t) /\ Counted(t) /\ (Counted(s) <=> s.hold = "nonterm")
  BY <1>1, <1>2, <1>4 DEF Placed, Counted, Finished, Registered, Listening
<1>8. Continues(s, t)
  BY <1>1, <1>4, <1>5, <1>7 DEF Continues
<1>9. CASE s.hold = "nonterm"
  <2>1. Right(us, thread_sNum[p], 0)
    BY <1>1, <1>4, <1>7, <1>8, <1>9, ThreadContinues DEF One
  <2>2. m = 1
    BY <1>3, <1>9 DEF One
  <2> HIDE DEF us
  <2>3. /\ nonterminating_num' = [nonterminating_num EXCEPT ![p] = 0]
        /\ thread_sNum' = thread_sNum /\ process' = process
    BY <2>2 DEF thread_unregister_nonterm
  <2> QED
    BY <1>6, <2>1, <2>3, HoldChanges DEF IInv
<1>10. CASE s.hold = "released"
  <2>1. Right(us, thread_sNum[p] + 1, 0)
    BY <1>1, <1>4, <1>7, <1>8, <1>10, ThreadContinues DEF One
  <2>2. nonterminating_num[p] = 0
    BY <1>3, <1>10 DEF One
  <2> HIDE DEF us
  <2>3. /\ thread_sNum' = [thread_sNum EXCEPT ![p] = thread_sNum[p] + 1]
        /\ nonterminating_num' = nonterminating_num /\ process' = process
    BY <2>2 DEF thread_unregister_nonterm
  <2> QED
    BY <1>6, <2>1, <2>2, <2>3, CountChanges DEF IInv
<1> QED
  BY <1>2, <1>9, <1>10

(* The copies of a client, its listener, and the client: one listener at most,   *)
(* and none in compatibility mode.                                               *)
LEMMA ClientsInitialised ==
    ASSUME NEW s, SettingsShape(s)
    PROVE  LET q == client_init(s)
           IN /\ q \in Seq({Client0, Listener0})
              /\ \A k, l \in DOMAIN q : q[k].mode = "listener" /\ q[l].mode = "listener" => k = l
              /\ Is(s, "COMPAT") => q \in Seq({Client0})
<1> DEFINE a == [i \in 1 .. s.threads - 1 |-> Client0]
           b == IF NeedsListener(s) THEN <<Listener0>> ELSE <<>>
           ab == a \o b
           q == ab \o <<Client0>>
<1>1. client_init(s) = q
  BY DEF client_init, Client0, Listener0
<1>2. Client0.mode = "client" /\ Listener0.mode = "listener"
  BY DEF Client0, Listener0, Settings_Copy
<1>3. /\ a \in Seq({Client0}) /\ a \in Seq({Client0, Listener0})
      /\ \A k \in DOMAIN a : a[k] = Client0 /\ k \in 1 .. Len(a)
  <2>1. s.threads - 1 \in Int
    BY DEF SettingsShape
  <2>2. CASE s.threads - 1 >= 0
    BY <2>1, <2>2
  <2>3. CASE s.threads - 1 < 0
    <3>1. 1 .. s.threads - 1 = {}
      BY <2>1, <2>3
    <3>2. a = <<>>
      BY <3>1
    <3>3. <<>> \in Seq({Client0}) /\ <<>> \in Seq({Client0, Listener0}) /\ DOMAIN <<>> = {}
      OBVIOUS
    <3> HIDE DEF a
    <3> QED
      BY <3>2, <3>3
  <2> QED
    BY <2>1, <2>2, <2>3
<1>4. b \in Seq({Client0, Listener0}) /\ (b = <<>> \/ b = <<Listener0>>)
      /\ (Is(s, "COMPAT") => b = <<>>)
  <2>1. <<>> \in Seq({Client0, Listener0}) /\ <<Listener0>> \in Seq({Client0, Listener0})
    OBVIOUS
  <2>2. b = <<>> \/ b = <<Listener0>>
    BY Zenon
  <2>3. Is(s, "COMPAT") => b = <<>>
    BY Zenon DEF NeedsListener
  <2> HIDE DEF a, b
  <2> QED
    BY <2>1, <2>2, <2>3
<1> HIDE DEF a, b
<1>5. /\ ab \in Seq({Client0, Listener0})
      /\ \A k \in DOMAIN ab : ab[k].mode = "listener" => k = Len(a) + 1
  <2>1. CASE b = <<>>
    <3>1. ab = a
      BY <1>3, <2>1
    <3> QED
      BY <1>2, <1>3, <3>1
  <2>2. CASE b = <<Listener0>>
    <3>1. ab = Append(a, Listener0)
      BY <1>3, <2>2
    <3> HIDE DEF ab
    <3>2. /\ ab \in Seq({Client0, Listener0}) /\ DOMAIN ab = 1 .. Len(a) + 1 /\ Len(a) \in Nat
          /\ \A k \in 1 .. Len(a) : ab[k] = a[k]
      BY <1>3, <3>1
    <3>3. \A k \in 1 .. Len(a) : a[k] = Client0
      BY <1>3
    <3> QED
      BY <1>2, <3>2, <3>3
  <2> QED
    BY <1>4, <2>1, <2>2
<1>6. Is(s, "COMPAT") => ab = a
  BY <1>3, <1>4
<1> HIDE DEF ab
<1>7. /\ q \in Seq({Client0, Listener0})
      /\ \A k \in DOMAIN q : q[k].mode = "listener" => k = Len(a) + 1
      /\ ab \in Seq({Client0}) => q \in Seq({Client0})
  <2>1. q = Append(ab, Client0)
    BY <1>5
  <2> HIDE DEF q
  <2>2. /\ q \in Seq({Client0, Listener0}) /\ DOMAIN q = 1 .. Len(ab) + 1 /\ Len(ab) \in Nat
        /\ \A k \in 1 .. Len(ab) : q[k] = ab[k]
        /\ q[Len(ab) + 1] = Client0
    BY <1>5, <2>1
  <2>3. ab \in Seq({Client0}) => q \in Seq({Client0})
    BY <2>1
  <2>4. DOMAIN ab = 1 .. Len(ab)
    BY <1>5
  <2>5. \A k \in DOMAIN q : q[k].mode = "listener" => k \in DOMAIN ab /\ q[k] = ab[k]
    BY <1>2, <2>2, <2>4
  <2> QED
    BY <1>5, <2>2, <2>3, <2>5
<1> HIDE DEF q
<1> QED
  BY <1>1, <1>3, <1>6, <1>7

(* A header is read by the listener of a server only, and the client that comes  *)
(* back has no listener of its own.                                              *)
LEMMA HeaderClients ==
    ASSUME IInv, NEW p \in Program, ReadsHeaders(p)
    PROVE  client_init(ClientSettings(p)) \in Seq({Client0})
<1>1. SettingsShape(settings[p])
  BY DEF IInv
<1>2. Comes(p)
  <2> SUFFICES ASSUME ~ Comes(p) PROVE FALSE
    OBVIOUS
  <2>1. ListenerSettings(p) = Settings_GenerateListenerSettings(settings[p])
    BY DEF Comes, ListenerSettings
  <2>2. ListenerSettings(p).flags = (settings[p].flags \cup {"COMPAT"}) \ {"DAEMON"}
    BY <1>1, <2>1 DEF Settings_GenerateListenerSettings, SettingsShape
  <2> QED
    BY <2>2 DEF ReadsHeaders
<1> DEFINE hdr == Settings_GenerateClientHdr(settings[Peer(p)])
           s == Settings_GenerateClientSettings(settings[p], HostOf[Peer(p)], hdr)
<1>3. ClientSettings(p) = s
  BY <1>2 DEF ClientSettings
<1>4. hdr.amount \in Int /\ hdr.bufferlen \in Nat
  <2> PICK client : client = settings[Peer(p)]
    OBVIOUS
  <2>1. SettingsShape(client)
    BY DEF IInv, Program, Peer
  <2> DEFINE a == client.amount
             b == IF Is(client, "MODETIME") THEN -client.amount ELSE client.amount % AmountLimit
  <2>2. a \in Nat /\ -a \in Int /\ a % AmountLimit \in Int
    BY <2>1, LimitAssumption DEF SettingsShape
  <2>3. b \in Int
    BY <2>2
  <2>4. (IF Is(client, "BUFLENSET") THEN client.bufLen ELSE 0) \in Nat
    BY <2>1 DEF SettingsShape
  <2>5. hdr.amount = b
    BY DEF Settings_GenerateClientHdr
  <2>6. hdr.bufferlen = IF Is(client, "BUFLENSET") THEN client.bufLen ELSE 0
    BY DEF Settings_GenerateClientHdr
  <2> QED
    BY <2>3, <2>4, <2>5, <2>6
<1> HIDE DEF hdr
<1>5. SettingsShape(s) /\ "COMPAT" \in s.flags
  <2> DEFINE n == IF hdr.amount < 0 THEN -hdr.amount ELSE hdr.amount
  <2>1. n \in Nat
    BY <1>4
  <2>2. /\ DOMAIN s = DOMAIN settings[p] /\ s.threads = 1 /\ s.amount = n
        /\ s.bufLen = (IF hdr.bufferlen # 0 THEN hdr.bufferlen ELSE settings[p].bufLen)
    BY <1>1 DEF Settings_GenerateClientSettings, SettingsShape
  <2>3. "COMPAT" \in s.flags
    BY <1>1 DEF Settings_GenerateClientSettings, SettingsShape
  <2> HIDE DEF s, n
  <2> QED
    BY <1>1, <1>4, <2>1, <2>2, <2>3 DEF SettingsShape
<1> HIDE DEF s
<1> QED
  BY <1>3, <1>5, ClientsInitialised DEF Is

LEMMA HeaderKeepsCount ==
    ASSUME IInv, NEW p \in Program, process[p] = "running", NEW i \in Thread(p),
           threads[p][i].mode = "listener", ReadClientHeader(p, i)
    PROVE  IInv'
<1> DEFINE s == threads[p][i]
           c == conns[s.sock]
           held == IF c.hdr \/ c.data THEN c.hdr ELSE buffer[p]
           hdr == Settings_GenerateClientHdr(settings[Peer(p)])
           client == IF ReadsHeaders(p) /\ held /\ AsksForTest(hdr)
                     THEN client_init(ClientSettings(p)) ELSE <<>>
           now == "RUN_NOW" \in hdr.flags
           server == Settings_Copy("server", IF now THEN <<>> ELSE client, s.sock)
           todo == Append(IF now THEN client ELSE <<>>, server)
           t == [s EXCEPT !.pc = "begin", !["todo"] = todo]
<1>1. /\ s \in ThreadRecord
      /\ DOMAIN s = {"mode", "pc", "todo", "next", "sock", "rep", "hold"}
      /\ conns \in Seq(Connections)
  BY ThreadHere, RecordFields DEF IInv
<1>2. /\ s.pc = "header" /\ threads' = [threads EXCEPT ![p][i] = t]
      /\ UNCHANGED <<conns, thread_sNum, nonterminating_num, process, settings>>
  BY DEF ReadClientHeader, Alters, At, UnchangedThreads, countVars, restVars, runVars, optionVars
<1>3. client \in Seq({Client0})
  BY HeaderClients
<1> HIDE DEF held, hdr, client, now
<1>4. server \in NewServer /\ server.mode = "server"
  <2>1. s.sock \in Nat
    BY <1>1 DEF ThreadRecord
  <2> DEFINE next == IF now THEN <<>> ELSE client
  <2>2. next \in Seq({Client0})
    BY <1>3
  <2> HIDE DEF next
  <2>3. Settings_Copy("server", next, s.sock) =
          [mode |-> "server", pc |-> "read", todo |-> <<>>, next |-> next, sock |-> s.sock,
           rep |-> "none", hold |-> "no"]
    BY DEF Settings_Copy, FirstStep
  <2>4. Settings_Copy("server", next, s.sock) \in NewServer
    BY <2>1, <2>2, <2>3 DEF NewServer
  <2> QED
    BY <2>3, <2>4 DEF next
<1> HIDE DEF server
<1>5. todo \in Seq(Fresh) /\ NoListener(todo)
  <2> DEFINE before == IF now THEN client ELSE <<>>
  <2>1. before \in Seq({Client0})
    BY <1>3
  <2>2. before \in Seq(Fresh) /\ NoListener(before)
    BY <2>1, NextIsFresh
  <2> HIDE DEF before
  <2>3. todo = Append(before, server)
    BY DEF before
  <2> HIDE DEF todo
  <2>4. server \in Fresh
    BY <1>4 DEF Fresh
  <2>5. /\ DOMAIN todo = 1 .. Len(before) + 1 /\ Len(before) \in Nat
        /\ \A k \in 1 .. Len(before) : todo[k] = before[k]
        /\ todo[Len(before) + 1] = server /\ todo \in Seq(Fresh)
        /\ DOMAIN before = 1 .. Len(before)
    BY <2>2, <2>3, <2>4
  <2> QED
    BY <1>4, <2>2, <2>5 DEF NoListener
<1> HIDE DEF todo
<1>6. "begin" \in PCs
  BY DEF PCs
<1>7. t \in ThreadRecord
  BY <1>1, <1>5, <1>6, FieldAltered
<1>8. Follows(s, t)
  BY <1>1, <1>2, <1>5, <1>7 DEF Follows, Registered, Listening
<1> HIDE DEF t
<1> QED
  BY <1>1, <1>2, <1>8, FollowingKeepsCount

LEMMA OpenListenerKeepsCount ==
    ASSUME IInv, NEW p \in Program, process[p] = "running", NEW i \in Thread(p),
           threads[p][i].mode = "listener",
           \/ Listen(p, i) \/ Accept(p, i) \/ AcceptTimeout(p, i) \/ NoInterrupt(p, i)
           \/ Interrupted(p, i) \/ Admit(p, i) \/ TryAgain(p, i) \/ NextClient(p, i)
    PROVE  IInv'
<1> DEFINE s == threads[p][i]
<1>1. /\ s \in ThreadRecord /\ NoListener(s.todo)
      /\ DOMAIN s = {"mode", "pc", "todo", "next", "sock", "rep", "hold"}
      /\ conns \in Seq(Connections)
  BY ThreadHere, RecordFields DEF IInv
<1>2. Registered = {"accept", "check", "header", "begin", "listen", "admit", "unregister"}
      /\ Registered \subseteq PCs
  BY DEF Registered, Listening, PCs
<1>3. ASSUME s.pc \in Registered, NEW pc \in Registered, Goes(p, i, pc),
             UNCHANGED <<thread_sNum, nonterminating_num, process, settings>>,
             conns' \in Seq(Connections)
      PROVE  IInv'
  BY <1>2, <1>3, GoesKeepsCount
<1> USE DEF At, UnchangedThreads, countVars, restVars, runVars, optionVars, tcpVars
<1>4. CASE Listen(p, i)
  BY <1>1, <1>2, <1>3, <1>4 DEF Listen
<1>5. CASE Accept(p, i)
  <2> DEFINE c == Min(Queue(p))
             t == [s EXCEPT !.pc = "check", !["sock"] = c]
  <2>1. /\ s.pc = "accept" /\ threads' = [threads EXCEPT ![p][i] = t]
        /\ conns' = [conns EXCEPT ![c].state = "taken"]
        /\ UNCHANGED <<thread_sNum, nonterminating_num, process, settings>>
    BY <1>5 DEF Accept, Alters
  <2>2. c \in Nat
    BY <1>1, <1>5, QueuePlace DEF Accept
  <2> HIDE DEF c
  <2>3. conns' \in Seq(Connections)
    BY <1>1, <2>1, ConnectionAltered
  <2>4. t \in ThreadRecord
    BY <1>1, <1>2, <2>2, FieldAltered
  <2>5. Follows(s, t)
    BY <1>1, <1>2, <2>1, <2>4 DEF Follows
  <2> HIDE DEF t
  <2> QED
    BY <1>1, <2>1, <2>3, <2>5, FollowingKeepsCount
<1>6. CASE AcceptTimeout(p, i)
  <2>1. conns' \in Seq(Connections)
    BY <1>1, <1>6, DroppedAreConnections DEF AcceptTimeout, StopListening
  <2> QED
    BY <1>2, <1>3, <1>6, <2>1 DEF AcceptTimeout, StopListening
<1>7. CASE NoInterrupt(p, i)
  BY <1>1, <1>2, <1>3, <1>7 DEF NoInterrupt
<1>8. CASE Interrupted(p, i)
  <2>1. conns' \in Seq(Connections)
    BY <1>1, <1>8, ConnectionAltered, DroppedAreConnections DEF Interrupted
  <2> QED
    BY <1>2, <1>3, <1>8, <2>1 DEF Interrupted
<1>9. CASE Admit(p, i)
  BY <1>1, <1>2, <1>3, <1>9 DEF Admit
<1>10. CASE TryAgain(p, i)
  <2>1. conns' \in Seq(Connections)
    BY <1>1, <1>10, ConnectionAltered DEF TryAgain
  <2>2. PICK pc \in {"accept", "unregister"} : Goes(p, i, pc)
    BY <1>10, Zenon DEF TryAgain
  <2>3. s.pc = "admit" /\ UNCHANGED <<thread_sNum, nonterminating_num, process, settings>>
    BY <1>10 DEF TryAgain
  <2> QED
    BY <1>2, <1>3, <2>1, <2>2, <2>3
<1>11. CASE NextClient(p, i)
  <2>1. s.pc = "begin" /\ UNCHANGED <<thread_sNum, nonterminating_num, process, settings>>
    BY <1>11 DEF NextClient
  <2>2. \/ Goes(p, i, "accept") /\ conns' = conns
        \/ Goes(p, i, "unregister") /\ conns' = Dropped(conns, p, {"queued"})
    BY <1>11 DEF NextClient, StopListening
  <2>3. conns' \in Seq(Connections)
    BY <1>1, <2>2, DroppedAreConnections
  <2> QED
    BY <1>2, <1>3, <2>1, <2>2, <2>3
<1> QED
  BY <1>4, <1>5, <1>6, <1>7, <1>8, <1>9, <1>10, <1>11

(* The listener goes out of the count with the first client of the last group.   *)
LEMMA GroupKeepsCount ==
    ASSUME IInv, NEW p \in Program, process[p] = "running", NEW i \in Thread(p),
           threads[p][i].mode = "listener", AdmitGroup(p, i)
    PROVE  IInv'
<1> DEFINE ts == threads[p]
           s == ts[i]
           t == [s EXCEPT !.pc = "header"]
           us == [ts EXCEPT ![i] = t]
           n == thread_sNum[p]
           m == nonterminating_num[p]
<1>1. /\ s \in ThreadRecord /\ Placed(s) /\ NoListener(s.todo) /\ i \in DOMAIN ts \ {1}
      /\ DOMAIN s = {"mode", "pc", "todo", "next", "sock", "rep", "hold"}
      /\ Right(ts, n, m) /\ conns \in Seq(Connections)
  BY ThreadHere, RecordFields DEF IInv
<1>2. s.pc = "admit" /\ UNCHANGED <<process, settings, conns>>
  BY DEF AdmitGroup, At, restVars, runVars, optionVars
<1>3. {"admit", "header"} \subseteq Registered /\ {"admit", "header"} \subseteq PCs
  BY DEF Registered, Listening, PCs
<1>4. CASE mClients[p] # 1
  <2>1. Goes(p, i, "header") /\ UNCHANGED countVars
    BY <1>4 DEF AdmitGroup
  <2> QED
    BY <1>1, <1>2, <1>3, <2>1, GoesKeepsCount DEF countVars
<1>5. CASE mClients[p] = 1
  <2>1. t \in ThreadRecord
    BY <1>1, <1>3, PlaceAltered
  <2>2. Follows(s, t)
    BY <1>1, <1>2, <1>3, <2>1 DEF Follows
  <2>3. Continues(s, t) /\ (Counted(s) <=> Counted(t)) /\ t.hold = s.hold
    BY <1>1, <2>2, ThreadFollows DEF Follows
  <2>4. m = One(t.hold = "nonterm")
    BY <1>1, <2>3, OnlyListenerHeld
  <2>5. Right(us, n, m)
    BY <1>1, <2>3, <2>4, ThreadContinues
  <2> HIDE DEF us
  <2>6. Right(Released(us), n - m, 0)
    BY <2>5, ListenersReleased
  <2>7. /\ threads' = [threads EXCEPT ![p] = Released(us)]
        /\ thread_sNum' = [thread_sNum EXCEPT ![p] = n - m]
        /\ nonterminating_num' = [nonterminating_num EXCEPT ![p] = 0]
    BY <1>5 DEF AdmitGroup, StillHeld, us
  <2> HIDE DEF n, m
  <2> QED
    BY <1>1, <1>2, <2>6, <2>7, ProcessKeepsCount
<1> QED
  BY <1>4, <1>5

LEMMA ListenerKeepsCount ==
    ASSUME IInv, NEW p \in Program, process[p] = "running", NEW i \in Thread(p), ListenerStep(p, i)
    PROVE  IInv'
<1>1. threads[p][i].mode = "listener" /\ conns \in Seq(Connections)
  BY DEF ListenerStep, IInv
<1>2. CASE \/ Listen(p, i) \/ Accept(p, i) \/ AcceptTimeout(p, i) \/ NoInterrupt(p, i)
           \/ Interrupted(p, i) \/ Admit(p, i) \/ TryAgain(p, i) \/ NextClient(p, i)
  BY <1>1, <1>2, OpenListenerKeepsCount
<1>3. CASE AdmitGroup(p, i)
  BY <1>1, <1>3, GroupKeepsCount
<1>4. CASE ReadClientHeader(p, i)
  BY <1>1, <1>4, HeaderKeepsCount
<1>5. ASSUME UNCHANGED <<restVars, tcpVars, timer, mishaps>>
      PROVE  settings' = settings /\ conns' = conns
  BY <1>5 DEF restVars, runVars, optionVars, tcpVars
<1>6. CASE thread_register_nonterm(p, i) /\ UNCHANGED <<restVars, tcpVars, timer, mishaps>>
  BY <1>1, <1>5, <1>6, RegisterKeepsCount
<1>7. CASE thread_unregister_nonterm(p, i) /\ UNCHANGED <<restVars, tcpVars, timer, mishaps>>
  BY <1>1, <1>5, <1>7, UnregisterKeepsCount
<1>8. CASE /\ At(p, i, "finish") /\ thread_run_wrapper(p, i)
           /\ UNCHANGED <<restVars, tcpVars, timer, mishaps>>
  BY <1>1, <1>5, <1>8, WrapperKeepsCount DEF At
<1> QED
  BY <1>2, <1>3, <1>4, <1>6, <1>7, <1>8 DEF ListenerStep

--------------------------------------------------------------------------------
(* main, the signals and the settings.                                           *)

(* main ends, or a signal ends the process.                                      *)
LEMMA EndKeepsCount ==
    ASSUME IInv, NEW p \in Program, NEW v, v = "joined" => thread_sNum[p] <= 0,
           process' = [process EXCEPT ![p] = v],
           UNCHANGED <<threads, thread_sNum, nonterminating_num, settings>>,
           conns' \in Seq(Connections)
    PROVE  IInv'
<1>1. \A q \in Program : process'[q] = "joined" => thread_sNum'[q] <= 0
  BY DEF IInv
<1> QED
  BY <1>1 DEF IInv

LEMMA LaunchedKeepsCount ==
    ASSUME IInv, NEW p \in Program, NEW ts,
           Right(ts, thread_sNum[p], nonterminating_num[p]),
           threads' = [threads EXCEPT ![p] = ts],
           UNCHANGED <<thread_sNum, nonterminating_num, process, settings>>,
           conns' \in Seq(Connections)
    PROVE  IInv'
<1>1. \A q \in Program : Right(threads'[q], thread_sNum'[q], nonterminating_num'[q])
  BY DEF IInv
<1> QED
  BY <1>1 DEF IInv

LEMMA MainKeepsCount ==
    ASSUME IInv, NEW p \in Program, main(p)
    PROVE  IInv'
<1> DEFINE q == IF Comes(p) THEN <<Settings_Copy("listener", <<>>, 0)>> ELSE client_init(settings[p])
           todo == Append(q, reporter)
           us == [threads[p] EXCEPT ![1] = [@ EXCEPT !.pc = "join", !.todo = todo]]
<1>1. /\ process[p] = "running" /\ threads[p][1].pc = "start"
      /\ UNCHANGED <<thread_sNum, nonterminating_num, settings, conns>>
  BY DEF main, At, countVars, runVars, optionVars, tcpVars
<1>2. /\ Right(threads[p], thread_sNum[p], nonterminating_num[p])
      /\ conns \in Seq(Connections) /\ SettingsShape(settings[p])
  BY DEF IInv
<1>3. CASE process' = [process EXCEPT ![p] = "usage"] /\ UNCHANGED threads
  BY <1>1, <1>2, <1>3, EndKeepsCount
<1>4. CASE process' = process /\ threads' = [threads EXCEPT ![p] = us]
  <2>1. /\ q \in Seq({Client0, Listener0})
        /\ \A k, l \in DOMAIN q : q[k].mode = "listener" /\ q[l].mode = "listener" => k = l
    <3>1. CASE Comes(p)
      <4>1. q = <<Listener0>>
        BY <3>1 DEF Listener0
      <4> HIDE DEF q
      <4> QED
        BY <4>1
    <3>2. CASE ~Comes(p)
      BY <1>2, <3>2, ClientsInitialised
    <3> QED
      BY <3>1, <3>2
  <2> HIDE DEF q
  <2>2. reporter.mode = "reporter" /\ {Client0, Listener0, reporter} \subseteq Fresh
    BY DEF reporter, Settings_Copy, Fresh
  <2>3. todo \in Seq(Fresh)
    BY <2>1, <2>2
  <2>4. \A k, l \in DOMAIN todo : todo[k].mode = "listener" /\ todo[l].mode = "listener" => k = l
    <3>1. /\ DOMAIN todo = 1 .. Len(q) + 1 /\ todo[Len(q) + 1] = reporter
          /\ \A k \in 1 .. Len(q) : todo[k] = q[k]
          /\ DOMAIN q = 1 .. Len(q) /\ Len(q) \in Nat
      BY <2>1
    <3> HIDE DEF todo
    <3>2. \A k \in DOMAIN todo : todo[k].mode = "listener" => k \in DOMAIN q /\ todo[k] = q[k]
      BY <2>2, <3>1
    <3> QED
      BY <2>1, <3>2
  <2> HIDE DEF todo
  <2>5. Right(us, thread_sNum[p], nonterminating_num[p])
    BY <1>1, <1>2, <2>3, <2>4, MainLaunches
  <2> HIDE DEF us
  <2> QED
    BY <1>1, <1>2, <1>4, <2>5, LaunchedKeepsCount
<1>5. CASE process' = process
           /\ threads' = [threads EXCEPT ![p][1] = [@ EXCEPT !.pc = "join", !.todo = todo]]
  BY <1>4, <1>5
<1> QED
  BY <1>3, <1>5 DEF main

LEMMA JoinKeepsCount ==
    ASSUME IInv, NEW p \in Program, JoinAll(p)
    PROVE  IInv'
<1>1. /\ thread_sNum[p] <= 0 /\ process' = [process EXCEPT ![p] = "joined"]
      /\ UNCHANGED <<threads, thread_sNum, nonterminating_num, settings>>
      /\ conns' = WithoutProcess(conns, p)
  BY DEF JoinAll, thread_joinall, countVars, restVars, runVars, optionVars
<1>2. conns' \in Seq(Connections)
  BY <1>1, ClosedAreConnections DEF IInv
<1> QED
  BY <1>1, <1>2, EndKeepsCount

LEMMA SignalKeepsCount ==
    ASSUME IInv, NEW p \in Program, NEW signo, Signal(p, signo)
    PROVE  IInv'
<1>1. conns' \in Seq(Connections) /\ settings' = settings /\ process[p] = "running"
  BY ClosedAreConnections DEF Signal, Sig_Interupt, IInv, runVars, optionVars
<1>2. CASE process' = [process EXCEPT ![p] = "killed"] /\ UNCHANGED <<threads, countVars>>
  BY <1>1, <1>2, EndKeepsCount DEF countVars
<1>3. CASE process' = process /\ UNCHANGED <<threads, countVars>>
  BY <1>1, <1>3 DEF IInv, countVars
<1>4. CASE process' = process /\ thread_release_nonterm(p)
  <2>1. Right(threads[p], thread_sNum[p], nonterminating_num[p])
    BY DEF IInv
  <2>2. Right(Released(threads[p]), thread_sNum[p] - nonterminating_num[p], 0)
    BY <2>1, ListenersReleased
  <2> DEFINE us == Released(threads[p])
             n == thread_sNum[p] - nonterminating_num[p]
  <2>3. /\ threads' = [threads EXCEPT ![p] = us]
        /\ thread_sNum' = [thread_sNum EXCEPT ![p] = n]
        /\ nonterminating_num' = [nonterminating_num EXCEPT ![p] = 0]
    BY <1>4 DEF thread_release_nonterm, StillHeld
  <2> HIDE DEF us, n
  <2> QED
    BY <1>1, <1>4, <2>2, <2>3, ProcessKeepsCount DEF us, n
<1> QED
  BY <1>2, <1>3, <1>4 DEF Signal, Sig_Interupt

LEMMA ReadKeepsCount ==
    ASSUME IInv, NEW p \in Program, Read(p)
    PROVE  IInv'
<1>1. UNCHANGED <<threads, thread_sNum, nonterminating_num, process, conns>>
  BY DEF Read, threadVars, tcpVars
<1>2. ASSUME NEW o, Interpreted(p, o)
      PROVE  DOMAIN settings' = Program /\ \A q \in Program : SettingsShape(settings'[q])
  <2>1. SettingsShape(Settings_Interpret(settings[p], o.opt, o.arg))
    BY InterpretKeepsShape DEF IInv
  <2>2. settings' = [settings EXCEPT ![p] = Settings_Interpret(settings[p], o.opt, o.arg)]
    BY <1>2 DEF Interpreted
  <2> QED
    BY <2>1, <2>2 DEF IInv
<1>3. settings' = settings \/ \E o : Interpreted(p, o)
  <2>1. CASE Settings_ParseEnvironment(p)
    BY <2>1, Zenon DEF Settings_ParseEnvironment
  <2>2. CASE PriorityOption(p)
    BY <2>2, Zenon DEF PriorityOption
  <2>3. CASE SecondOption(p)
    BY <2>3, Zenon DEF SecondOption
  <2> QED
    BY <2>1, <2>2, <2>3 DEF Read, Settings_ParseCommandLine
<1>4. DOMAIN settings' = Program /\ \A q \in Program : SettingsShape(settings'[q])
  BY <1>2, <1>3 DEF IInv
<1> QED
  BY <1>1, <1>4 DEF IInv

--------------------------------------------------------------------------------
(* Every step.                                                                   *)

LEMMA InitCounts == Init => IInv
<1> SUFFICES ASSUME Init PROVE IInv
  OBVIOUS
<1> DEFINE t == Settings_Copy("main", <<>>, 0)
<1>1. SettingsShape(Settings_Initialize)
  BY DEF SettingsShape, Settings_Initialize
<1>2. settings = [p \in Program |-> Settings_Initialize]
  BY DEF Init, OptionsInit
<1>3. t = [mode |-> "main", pc |-> "start", todo |-> <<>>, next |-> <<>>, sock |-> 0,
           rep |-> "none", hold |-> "no"]
  BY DEF Settings_Copy, FirstStep
<1>4. t \in ThreadRecord
  <2>1. <<>> \in Seq(Fresh) /\ <<>> \in Seq({Client0})
    OBVIOUS
  <2> HIDE DEF t
  <2> QED
    BY <1>3, <2>1 DEF ThreadRecord, PCs
<1>5. Placed(t)
  <2> HIDE DEF t
  <2> QED
    BY <1>3 DEF Placed
<1>6. /\ threads = [p \in Program |-> <<t>>] /\ thread_sNum = [p \in Program |-> 0]
      /\ nonterminating_num = [p \in Program |-> 0] /\ process = [p \in Program |-> "running"]
      /\ conns = <<>>
  BY DEF Init, ThreadsInit
<1>7. Right(<<t>>, 0, 0)
  <2> DEFINE ts == <<t>>
  <2> HIDE DEF t
  <2>1. ts \in Seq(ThreadRecord) /\ DOMAIN ts = {1} /\ ts[1] = t
    BY <1>4
  <2> HIDE DEF ts
  <2>2. OneListener(ts)
    BY <1>3, <2>1 DEF OneListener, NoListener
  <2>3. Counting(ts) = {}
    BY <2>1 DEF Counting
  <2>4. Cardinality(Counting(ts)) = 0
    BY <2>3, FS_EmptySet
  <2>5. Right(ts, 0, 0)
    BY <1>3, <1>5, <2>1, <2>2, <2>4 DEF Right
  <2> QED
    BY <2>5 DEF ts
<1> HIDE DEF t
<1>8. conns \in Seq(Connections)
  BY <1>6
<1> QED
  BY <1>1, <1>2, <1>6, <1>7, <1>8 DEF IInv

LEMMA ThreadStepKeepsCount ==
    ASSUME IInv, NEW p \in Program, NEW i \in Thread(p), ThreadStep(p, i)
    PROVE  IInv'
<1>1. process[p] = "running"
  BY DEF ThreadStep
<1>2. CASE Wrapper(p, i)
  BY <1>1, <1>2, StartKeepsCount DEF Wrapper, restVars, runVars, optionVars, tcpVars
<1> QED
  BY <1>1, <1>2, ClientKeepsCount, ServerKeepsCount, ListenerKeepsCount, ReporterKeepsCount
     DEF ThreadStep

LEMMA NextKeepsCount == IInv /\ [Next]_vars => IInv'
<1> SUFFICES ASSUME IInv, [Next]_vars PROVE IInv'
  OBVIOUS
<1>1. CASE UNCHANGED vars
  BY <1>1 DEF vars, optionVars, threadVars, tcpVars, IInv
<1>2. ASSUME NEW p \in Program, MainStep(p) PROVE IInv'
  BY <1>2, ReadKeepsCount, MainKeepsCount, JoinKeepsCount DEF MainStep
<1>3. ASSUME NEW p \in Program, Alarm(p) \/ Interrupt(p) PROVE IInv'
  BY <1>3, SignalKeepsCount DEF Alarm, Interrupt
<1>4. ASSUME NEW p \in Program, NEW i \in Thread(p), ThreadStep(p, i) PROVE IInv'
  BY <1>4, ThreadStepKeepsCount
<1> QED
  BY <1>1, <1>2, <1>3, <1>4 DEF Next, ProcessStep

LEMMA CountsAreInvariant == Spec => []IInv
BY InitCounts, NextKeepsCount, PTL DEF Spec

(* The count of thread_joinall is the number of the threads that are to be       *)
(* waited for, whatever signals come and whichever threads start, stop or leave  *)
(* the count (Thread.c:142-148, 213-224, 328-392).                               *)
THEOREM CountOfThreads == Spec => []CountIsRight
<1>1. IInv => CountIsRight
  <2> SUFFICES ASSUME IInv, NEW p \in Program
               PROVE  thread_sNum[p] =
                         Quantify(Thread(p) \ {1}, LAMBDA i : Counted(threads[p][i]))
    BY DEF CountIsRight
  <2>1. thread_sNum[p] = Cardinality(Counting(threads[p]))
    BY DEF IInv, Right
  <2> QED
    BY <2>1 DEF Quantify, Counting, Thread
<1> QED
  BY <1>1, CountsAreInvariant, PTL

(* main returns from thread_joinall when every client and every server has       *)
(* finished and no report waits to be printed (main.cpp:250).                    *)
THEOREM MainWaitsForAll == Spec => []NothingCutOff
<1>1. IInv => NothingCutOff
  <2> SUFFICES ASSUME IInv, NEW p \in Program, process[p] = "joined", NEW i \in Thread(p)
               PROVE  /\ threads[p][i].mode \in {"client", "server"} => Finished(threads[p][i])
                      /\ threads[p][i].rep \in {"none", "released"}
    BY DEF NothingCutOff
  <2> DEFINE ts == threads[p]
             n == thread_sNum[p]
  <2>1. Right(ts, n, nonterminating_num[p]) /\ n <= 0
    BY DEF IInv
  <2>2. IsFiniteSet(Counting(ts)) /\ n \in Nat /\ n = Cardinality(Counting(ts))
    <3> HIDE DEF ts, n
    <3> QED
      BY <2>1, CountedThreads DEF Right
  <2>3. Counting(ts) = {}
    BY <2>1, <2>2, FS_EmptySet
  <2>4. ts[i] \in ThreadRecord /\ Placed(ts[i]) /\ (ts[i].mode = "main" <=> i = 1)
    BY <2>1 DEF Right, Thread
  <2>5. ts[i].mode \in {"client", "server"} => Finished(ts[i])
    BY <2>3, <2>4 DEF Counting, Counted, Placed, Thread
  <2>6. ts[i].rep \in {"none", "released"}
    BY <2>4, <2>5 DEF Placed, Finished, ThreadRecord
  <2> QED
    BY <2>5, <2>6
<1> QED
  BY <1>1, CountsAreInvariant, PTL

--------------------------------------------------------------------------------
(* What an option does to the settings the command line is checked for.          *)

Flagged == {"MODETIME", "BUFLENSET", "BWSET", "UDP"}
Same(s, t) ==
    /\ t.threadMode = s.threadMode /\ t.mMode = s.mMode
    /\ t.amount = s.amount /\ t.bufLen = s.bufLen /\ t.rate = s.rate
    /\ \A f \in Flagged : Is(t, f) <=> Is(s, f)

LEMMA SameIsTransitive ==
    ASSUME NEW s, NEW t, NEW u, Same(s, t), Same(t, u)
    PROVE  Same(s, u)
BY Zenon DEF Same

LEMMA OtherFieldIsSame ==
    ASSUME NEW s, NEW f, NEW v,
           f \notin {"threadMode", "mMode", "amount", "bufLen", "rate", "flags"}
    PROVE  Same(s, [s EXCEPT ![f] = v])
BY DEF Same, Is

LEMMA OtherFlagIsSame ==
    ASSUME NEW s, SettingsShape(s), NEW f, f \notin Flagged
    PROVE  Same(s, Set(s, f)) /\ Same(s, Unset(s, f))
BY DEF Same, Is, Set, Unset, SettingsShape, Flagged

LEMMA MulticastIsSame ==
    ASSUME NEW s, SettingsShape(s), NEW h
    PROVE  Same(s, WithMulticast(s, h))
<1>1. Same(s, s)
  BY DEF Same
<1> QED
  BY <1>1, OtherFlagIsSame DEF WithMulticast, Flagged

LEMMA OptionTables ==
    /\ DOMAIN FlagOption = {"e", "m", "z", "D", "N", "U", "W", "X"}
    /\ \A o \in DOMAIN FlagOption : FlagOption[o] \notin Flagged
    /\ DOMAIN NumberOption = {"k", "p", "w", "M", "P", "S", "T"}
    /\ \A o \in DOMAIN NumberOption :
          NumberOption[o] \notin {"threadMode", "mMode", "amount", "bufLen", "rate", "flags"}
    /\ \A o \in DOMAIN ReportFlag : ReportFlag[o] \notin Flagged
BY DEF FlagOption, NumberOption, ReportFlag, Flagged

Telling == {"b", "c", "d", "l", "n", "r", "s", "t", "u", "C"}

LEMMA OtherOptionIsSame ==
    ASSUME NEW s, SettingsShape(s), NEW opt, NEW arg, opt \notin Telling
    PROVE  Same(s, Settings_Interpret(s, opt, arg))
<1> USE OtherFieldIsSame, OtherFlagIsSame
<1>1. Same(s, s)
  BY DEF Same
<1>2. CASE opt \in DOMAIN FlagOption
  BY <1>2, OptionTables DEF Settings_Interpret
<1>3. CASE opt \in DOMAIN NumberOption
  BY <1>3, OptionTables DEF Settings_Interpret
<1>4. opt \in {"0", "1"} => Same(s, Settings_Interpret(s, opt, arg))
  BY OptionTables DEF Settings_Interpret, Flagged
<1>5. Same(s, Interval(s, arg))
  <2>1. \A v : Same(s, [s EXCEPT !.interval = v])
    OBVIOUS
  <2> DEFINE n == IF atoi(arg) < SMALLEST_INTERVAL THEN SMALLEST_INTERVAL ELSE atoi(arg)
             t == [s EXCEPT !.interval = n,
                            !.flags = @ \cup {f \in {"ENHANCEDREPORT"} : n < ENHANCED_INTERVAL}]
  <2> HIDE DEF n
  <2>2. Same(s, t)
    BY DEF Same, Is, Flagged, SettingsShape
  <2> HIDE DEF t
  <2>3. Interval(s, arg) \in {[s EXCEPT !.interval = 0], t}
    BY DEF Interval, n, t
  <2> QED
    BY <2>1, <2>2, <2>3
<1>6. Same(s, [s EXCEPT !.flags = @ \cup {ReportFlag[c] : c \in ToSet(arg) \cap DOMAIN ReportFlag}])
  BY OptionTables DEF Same, Is, SettingsShape
<1>7. Same(s, Unset([s EXCEPT !.output = arg], "STDOUT"))
  BY DEF Same, Is, Flagged, SettingsShape, Unset
<1>8. Same(s, Bind(s, arg))
  <2> DEFINE v6 == Is(s, "DOMAIN")
             at == IF v6 THEN 4 ELSE 2
             name == IF v6 THEN <<arg[2]>> ELSE <<arg[1]>>
             split == s.threadMode = "Client" /\ (~v6 \/ arg[1] = "[")
             port == IF Len(arg) > at THEN atoi(<<arg[at + 1]>>) ELSE s.bindPort
             bound == IF ~split THEN [s EXCEPT !.localhost = arg]
                      ELSE [s EXCEPT !.localhost = name, !.bindPort = port]
  <2>1. Bind(s, arg) = WithMulticast(bound, bound.localhost)
    BY Zenon DEF Bind
  <2> HIDE DEF split, name, port
  <2>2. Same(s, bound)
    BY DEF Same, Is
  <2>3. SettingsShape(bound)
    BY DEF SettingsShape
  <2> HIDE DEF bound
  <2> QED
    BY <2>1, <2>2, <2>3, MulticastIsSame, SameIsTransitive
<1>9. Same(s, IPv6Domain(s))
  <2>1. Same(s, Set(s, "DOMAIN")) /\ SettingsShape(Set(s, "DOMAIN"))
    BY DEF Set, SettingsShape, Flagged
  <2>2. Same(s, WithMulticast(Set(s, "DOMAIN"), s.host))
    BY <2>1, MulticastIsSame, SameIsTransitive
  <2> QED
    BY <2>1, <2>2 DEF IPv6Domain
<1>10. ASSUME NEW a PROVE Same(s, FileInput(s, a)) /\ SettingsShape(FileInput(s, a))
  BY <1>1 DEF FileInput, Same, Is, Set, SettingsShape, Flagged
<1>11. Same(s, StdinInput(s))
  <2>1. Same(FileInput(s, <<"<stdin>">>), Set(FileInput(s, <<"<stdin>">>), "STDIN"))
    BY <1>10 DEF Flagged
  <2> QED
    BY <1>1, <1>10, <2>1, SameIsTransitive DEF StdinInput
<1>12. Same(s, ListenPort(s, arg))
  BY <1>1 DEF ListenPort
<1>13. Same(s, Set([s EXCEPT !.congestion = arg], "CONGESTION"))
  BY DEF Same, Is, Set, SettingsShape, Flagged
<1>14. \A v : Same(s, [s EXCEPT !.format = v]) /\ Same(s, [s EXCEPT !.reportMode = v])
  OBVIOUS
<1> HIDE DEF Same
<1>15. CASE opt \notin DOMAIN FlagOption /\ opt \notin DOMAIN NumberOption
  BY <1>1, <1>4, <1>5, <1>6, <1>7, <1>8, <1>9, <1>10, <1>11, <1>12, <1>13, <1>14, <1>15
     DEF Settings_Interpret, Telling
<1> QED
  BY <1>2, <1>3, <1>15

(* The options that tell it.                                                     *)
LEMMA TellingOption ==
    ASSUME NEW s, NEW arg
    PROVE  /\ Settings_Interpret(s, "b", arg) = Bandwidth(s, arg)
           /\ Settings_Interpret(s, "c", arg) = ClientMode(s, arg)
           /\ Settings_Interpret(s, "d", arg) = TestMode(s, "DualTest")
           /\ Settings_Interpret(s, "l", arg) = Length(s, arg)
           /\ Settings_Interpret(s, "n", arg) = Amount(s, arg)
           /\ Settings_Interpret(s, "r", arg) = TestMode(s, "TradeOff")
           /\ Settings_Interpret(s, "s", arg) = ServerMode(s)
           /\ Settings_Interpret(s, "t", arg) = Time(s, arg)
           /\ Settings_Interpret(s, "u", arg) = UDP(s)
           /\ Settings_Interpret(s, "C", arg) = Compatibility(s)
BY OptionTables DEF Settings_Interpret

BandwidthTold(s, t, arg) ==
    /\ t.threadMode = s.threadMode /\ t.mMode = s.mMode /\ t.amount = s.amount
    /\ \A f \in Flagged : Is(t, f) <=> (Is(s, f) \/ f = "BWSET")
    /\ t.rate = atoi(arg)
    /\ t.bufLen = IF Is(s, "BUFLENSET") THEN s.bufLen ELSE kDefault_UDPBufLen
UDPTold(s, t) ==
    /\ t.threadMode = s.threadMode /\ t.mMode = s.mMode /\ t.amount = s.amount
    /\ \A f \in Flagged : Is(t, f) <=> (Is(s, f) \/ f = "UDP")
    /\ t.rate = IF Is(s, "BWSET") \/ Is(s, "UDP") THEN s.rate ELSE kDefault_UDPRate
    /\ t.bufLen = IF Is(s, "BUFLENSET") THEN s.bufLen ELSE kDefault_UDPBufLen
AmountTold(s, t, arg, timed) ==
    /\ t.threadMode = s.threadMode /\ t.mMode = s.mMode
    /\ t.amount = atoi(arg) /\ t.bufLen = s.bufLen /\ t.rate = s.rate
    /\ \A f \in Flagged \ {"MODETIME"} : Is(t, f) <=> Is(s, f)
    /\ Is(t, "MODETIME") <=> timed
LengthTold(s, t, arg) ==
    /\ t.threadMode = s.threadMode /\ t.mMode = s.mMode
    /\ t.amount = s.amount /\ t.bufLen = atoi(arg) /\ t.rate = s.rate
    /\ \A f \in Flagged : Is(t, f) <=> (Is(s, f) \/ f = "BUFLENSET")
ModeTold(s, t, mode) ==
    /\ t.threadMode = IF s.threadMode = "Unknown" THEN mode ELSE s.threadMode
    /\ t.mMode = s.mMode /\ t.amount = s.amount /\ t.bufLen = s.bufLen /\ t.rate = s.rate
    /\ \A f \in Flagged : Is(t, f) <=> Is(s, f)
TestTold(s, t, mode) ==
    /\ t.mMode = IF s.threadMode = "Client" \/ mode = "Normal" THEN mode ELSE s.mMode
    /\ t.threadMode = s.threadMode
    /\ t.amount = s.amount /\ t.bufLen = s.bufLen /\ t.rate = s.rate
    /\ \A f \in Flagged : Is(t, f) <=> Is(s, f)

LEMMA BandwidthTells ==
    ASSUME NEW s, SettingsShape(s), NEW arg
    PROVE  BandwidthTold(s, Bandwidth(s, arg), arg)
<1> DEFINE units == IF Last(arg) = "pps" THEN "PPS" ELSE "BW"
           r == [s EXCEPT !.rate = atoi(arg), !.units = units]
           w == Set(r, "BWSET")
<1> HIDE DEF units
<1>1. /\ r.threadMode = s.threadMode /\ r.mMode = s.mMode /\ r.amount = s.amount
      /\ r.bufLen = s.bufLen /\ r.rate = atoi(arg) /\ r.flags = s.flags
      /\ "flags" \in DOMAIN r /\ "bufLen" \in DOMAIN r
  BY DEF SettingsShape
<1> HIDE DEF r
<1>2. /\ w.threadMode = s.threadMode /\ w.mMode = s.mMode /\ w.amount = s.amount
      /\ w.bufLen = s.bufLen /\ w.rate = atoi(arg) /\ w.flags = s.flags \cup {"BWSET"}
      /\ "bufLen" \in DOMAIN w
  BY <1>1 DEF Set
<1> HIDE DEF w
<1>3. Bandwidth(s, arg) = BufLenForUDP(w)
  BY DEF Bandwidth, w, r, units
<1>4. BandwidthTold(s, BufLenForUDP(w), arg)
  BY <1>2 DEF BandwidthTold, BufLenForUDP, Is, Flagged
<1> QED
  BY <1>3, <1>4

LEMMA UDPTells ==
    ASSUME NEW s, SettingsShape(s)
    PROVE  UDPTold(s, UDP(s))
<1> DEFINE rated == IF Is(s, "BWSET") THEN s ELSE [s EXCEPT !.rate = kDefault_UDPRate]
           w == IF Is(s, "UDP") THEN s ELSE Set(rated, "UDP")
<1>1. /\ rated.threadMode = s.threadMode /\ rated.mMode = s.mMode /\ rated.amount = s.amount
      /\ rated.bufLen = s.bufLen /\ rated.flags = s.flags
      /\ rated.rate = (IF Is(s, "BWSET") THEN s.rate ELSE kDefault_UDPRate)
      /\ "flags" \in DOMAIN rated /\ "bufLen" \in DOMAIN rated
  BY DEF SettingsShape
<1> HIDE DEF rated
<1>2. /\ w.threadMode = s.threadMode /\ w.mMode = s.mMode /\ w.amount = s.amount
      /\ w.bufLen = s.bufLen /\ w.flags = s.flags \cup {"UDP"}
      /\ w.rate = (IF Is(s, "BWSET") \/ Is(s, "UDP") THEN s.rate ELSE kDefault_UDPRate)
      /\ "bufLen" \in DOMAIN w
  BY <1>1 DEF Set, Is, SettingsShape
<1> HIDE DEF w
<1>3. UDP(s) = BufLenForUDP(w)
  BY DEF UDP, w, rated
<1>4. UDPTold(s, BufLenForUDP(w))
  BY <1>2 DEF UDPTold, BufLenForUDP, Is, Flagged
<1> QED
  BY <1>3, <1>4

LEMMA OthersTell ==
    ASSUME NEW s, SettingsShape(s), NEW arg
    PROVE  /\ AmountTold(s, Amount(s, arg), arg, FALSE) /\ AmountTold(s, Time(s, arg), arg, TRUE)
           /\ LengthTold(s, Length(s, arg), arg)
           /\ ModeTold(s, ClientMode(s, arg), "Client") /\ ModeTold(s, ServerMode(s), "Listener")
           /\ TestTold(s, TestMode(s, "DualTest"), "DualTest")
           /\ TestTold(s, TestMode(s, "TradeOff"), "TradeOff")
           /\ TestTold(s, Compatibility(s), "Normal")
<1>1. AmountTold(s, Amount(s, arg), arg, FALSE)
  BY DEF Amount, Unset, AmountTold, Is, Flagged, SettingsShape
<1>2. AmountTold(s, Time(s, arg), arg, TRUE)
  BY DEF Time, Set, AmountTold, Is, Flagged, SettingsShape
<1>3. LengthTold(s, Length(s, arg), arg)
  BY DEF Length, Set, LengthTold, Is, Flagged, SettingsShape
<1>4. ModeTold(s, ServerMode(s), "Listener")
  BY DEF ServerMode, ModeTold, Is, SettingsShape
<1>5. ModeTold(s, ClientMode(s, arg), "Client")
  <2> DEFINE r == [s EXCEPT !.host = arg]
             c == [r EXCEPT !.threadMode = "Client", !.threads = 1]
  <2>1. SettingsShape(c) /\ c.threadMode = "Client"
    BY DEF SettingsShape
  <2>2. /\ r.threadMode = s.threadMode
        /\ c.mMode = s.mMode /\ c.amount = s.amount /\ c.bufLen = s.bufLen /\ c.rate = s.rate
        /\ r.mMode = s.mMode /\ r.amount = s.amount /\ r.bufLen = s.bufLen /\ r.rate = s.rate
        /\ c.flags = s.flags /\ r.flags = s.flags
    BY DEF SettingsShape
  <2> HIDE DEF r, c
  <2>3. Same(c, WithMulticast(c, arg))
    BY <2>1, MulticastIsSame
  <2>4. ClientMode(s, arg) = IF s.threadMode # "Unknown" THEN r ELSE WithMulticast(c, arg)
    BY DEF ClientMode, r, c
  <2> QED
    BY <2>1, <2>2, <2>3, <2>4 DEF ModeTold, Same, Is
<1>6. TestTold(s, TestMode(s, "DualTest"), "DualTest") /\ TestTold(s, TestMode(s, "TradeOff"), "TradeOff")
  BY DEF TestMode, TestTold, Is, SettingsShape
<1>7. TestTold(s, Compatibility(s), "Normal")
  BY DEF Compatibility, Set, TestTold, Is, SettingsShape, Flagged
<1> QED
  BY <1>1, <1>2, <1>3, <1>4, <1>5, <1>6, <1>7

(* Which options do not matter for what.                                         *)
LEMMA Untold ==
    ASSUME NEW s, SettingsShape(s), NEW opt, NEW arg
    PROVE  LET t == Settings_Interpret(s, opt, arg)
           IN /\ opt \notin {"c", "s"} => t.threadMode = s.threadMode
              /\ opt \notin {"d", "r", "C"} => t.mMode = s.mMode
              /\ opt \notin {"t", "n"} =>
                    t.amount = s.amount /\ (Is(t, "MODETIME") <=> Is(s, "MODETIME"))
              /\ opt \notin {"l", "u", "b"} => t.bufLen = s.bufLen
              /\ opt \notin {"u", "b"} => t.rate = s.rate
              /\ opt # "l" => (Is(t, "BUFLENSET") <=> Is(s, "BUFLENSET"))
              /\ opt # "b" => (Is(t, "BWSET") <=> Is(s, "BWSET"))
              /\ opt # "u" => (Is(t, "UDP") <=> Is(s, "UDP"))
<1> PICK t : t = Settings_Interpret(s, opt, arg)
  OBVIOUS
<1>1. CASE opt \notin Telling
  <2>1. Same(s, t)
    BY <1>1, OtherOptionIsSame
  <2> QED
    BY <2>1 DEF Same, Flagged
<1>2. CASE opt = "b"
  <2>1. BandwidthTold(s, t, arg)
    BY <1>2, TellingOption, BandwidthTells
  <2> QED
    BY <1>2, <2>1 DEF BandwidthTold, Flagged
<1>3. CASE opt = "u"
  <2>1. UDPTold(s, t)
    BY <1>3, TellingOption, UDPTells
  <2> QED
    BY <1>3, <2>1 DEF UDPTold, Flagged
<1>4. CASE opt = "t"
  <2>1. t = Time(s, arg)
    BY <1>4, TellingOption
  <2>2. AmountTold(s, t, arg, TRUE)
    BY <2>1, OthersTell, Zenon
  <2> QED
    BY <1>4, <2>2 DEF AmountTold, Flagged
<1>5. CASE opt = "n"
  <2>1. t = Amount(s, arg)
    BY <1>5, TellingOption
  <2>2. AmountTold(s, t, arg, FALSE)
    BY <2>1, OthersTell, Zenon
  <2> QED
    BY <1>5, <2>2 DEF AmountTold, Flagged
<1>6. CASE opt = "l"
  <2>1. LengthTold(s, t, arg)
    BY <1>6, TellingOption, OthersTell
  <2> QED
    BY <1>6, <2>1 DEF LengthTold, Flagged
<1>7. CASE opt \in {"c", "s"}
  <2>1. t = ClientMode(s, arg) \/ t = ServerMode(s)
    BY <1>7, TellingOption
  <2>2. ModeTold(s, t, "Client") \/ ModeTold(s, t, "Listener")
    BY <2>1, OthersTell, Zenon
  <2> QED
    BY <1>7, <2>2 DEF ModeTold, Flagged
<1>8. CASE opt \in {"d", "r", "C"}
  <2>1. TestTold(s, t, "DualTest") \/ TestTold(s, t, "TradeOff") \/ TestTold(s, t, "Normal")
    BY <1>8, TellingOption, OthersTell
  <2> QED
    BY <1>8, <2>1 DEF TestTold, Flagged
<1> QED
  BY <1>1, <1>2, <1>3, <1>4, <1>5, <1>6, <1>7, <1>8 DEF Telling

--------------------------------------------------------------------------------
(* What was met last and first when one more option is met.                      *)

LEMMA LargestIndex ==
    ASSUME NEW T, NEW n \in T, n \in Int, T \subseteq Int, \A i \in T : i <= n
    PROVE  Max(T) = n
<1>1. \E m \in T : \A i \in T : m >= i
  OBVIOUS
<1>2. Max(T) \in T /\ \A i \in T : Max(T) >= i
  BY <1>1 DEF Max
<1>3. Max(T) \in Int /\ Max(T) >= n /\ Max(T) <= n
  BY <1>2
<1> QED
  BY <1>3

LEMMA SmallestIndex ==
    ASSUME NEW T, NEW n \in T, n \in Int, T \subseteq Int, \A i \in T : n <= i
    PROVE  Min(T) = n
<1>1. \E m \in T : \A i \in T : m <= i
  OBVIOUS
<1>2. Min(T) \in T /\ \A i \in T : Min(T) <= i
  BY <1>1 DEF Min
<1>3. Min(T) \in Int /\ Min(T) >= n /\ Min(T) <= n
  BY <1>2
<1> QED
  BY <1>3

Listed(h) == \E S : h \in Seq(S)

LEMMA OneMore ==
    ASSUME NEW h, Listed(h), NEW e
    PROVE  /\ Listed(Append(h, e)) /\ Len(h) \in Nat /\ DOMAIN h = 1 .. Len(h)
           /\ DOMAIN Append(h, e) = 1 .. Len(h) + 1
           /\ \A i \in 1 .. Len(h) : Append(h, e)[i] = h[i]
           /\ Append(h, e)[Len(h) + 1] = e
<1>1. PICK S : h \in Seq(S)
  BY DEF Listed
<1> DEFINE R == S \cup {e}
<1>2. h \in Seq(R) /\ e \in R
  BY <1>1
<1> HIDE DEF R
<1>3. Append(h, e) \in Seq(R)
  BY <1>2
<1> QED
  BY <1>2, <1>3 DEF Listed

LEMMA MeantNext ==
    ASSUME NEW h, Listed(h), NEW e, NEW opts
    PROVE  /\ e[1] \in opts => Meant(Append(h, e), opts) = Meant(h, opts) \cup {Len(h) + 1}
           /\ e[1] \notin opts => Meant(Append(h, e), opts) = Meant(h, opts)
<1> DEFINE k == Append(h, e)
           n == Len(h)
<1>2. /\ n \in Nat /\ DOMAIN h = 1 .. n /\ DOMAIN k = 1 .. n + 1
      /\ \A i \in 1 .. n : k[i] = h[i]
      /\ k[n + 1] = e
  BY OneMore
<1> HIDE DEF k, n
<1>3. 1 .. n + 1 = 1 .. n \cup {n + 1} /\ n + 1 \notin 1 .. n
  BY <1>2
<1>4. CASE e[1] \in opts
  <2>1. Meant(k, opts) = Meant(h, opts) \cup {n + 1}
    BY <1>2, <1>3, <1>4 DEF Meant
  <2> QED
    BY <1>4, <2>1 DEF k, n
<1>5. CASE e[1] \notin opts
  <2>1. Meant(k, opts) = Meant(h, opts)
    BY <1>2, <1>3, <1>5 DEF Meant
  <2> QED
    BY <1>5, <2>1 DEF k, n
<1> QED
  BY <1>4, <1>5

LEMMA MeantPlaces ==
    ASSUME NEW h, Listed(h), NEW opts
    PROVE  Len(h) \in Nat /\ Meant(h, opts) \subseteq 1 .. Len(h)
BY OneMore DEF Meant

LEMMA LastIsThis ==
    ASSUME NEW h, Listed(h), NEW e, NEW opts, e[1] \in opts
    PROVE  /\ Meant(Append(h, e), opts) # {}
           /\ LastMeant(Append(h, e), opts) = e
<1> DEFINE T == Meant(h, opts) \cup {Len(h) + 1}
<1>1. Meant(Append(h, e), opts) = T
  BY MeantNext
<1>2. Len(h) \in Nat /\ Meant(h, opts) \subseteq 1 .. Len(h)
  BY MeantPlaces
<1>3. T \subseteq Int /\ Len(h) + 1 \in T /\ \A i \in T : i <= Len(h) + 1
  BY <1>2
<1>4. Max(T) = Len(h) + 1
  BY <1>2, <1>3, LargestIndex
<1>5. Append(h, e)[Len(h) + 1] = e
  BY OneMore
<1> QED
  BY <1>1, <1>3, <1>4, <1>5 DEF LastMeant

LEMMA LastStays ==
    ASSUME NEW h, Listed(h), NEW e, NEW opts, e[1] \notin opts, Meant(h, opts) # {}
    PROVE  LastMeant(Append(h, e), opts) = LastMeant(h, opts)
<1> DEFINE T == Meant(h, opts)
<1>1. Meant(Append(h, e), opts) = T
  BY MeantNext
<1>2. Len(h) \in Nat /\ T \subseteq 1 .. Len(h)
  BY MeantPlaces
<1>3. Max(T) \in T
  <2> DEFINE U == {Len(h) - i : i \in T}
  <2>1. U \subseteq Nat /\ U # {}
    BY <1>2
  <2>2. PICK u \in U : \A v \in U : u <= v
    BY <2>1, LeastIndex
  <2>3. PICK i \in T : u = Len(h) - i
    OBVIOUS
  <2>4. ASSUME NEW j \in T PROVE j <= i
    <3>1. Len(h) - j \in U
      OBVIOUS
    <3>2. u <= Len(h) - j /\ i \in Int /\ j \in Int /\ Len(h) \in Int
      BY <1>2, <2>2, <3>1
    <3> QED
      BY <2>3, <3>2
  <2>5. i \in Int /\ T \subseteq Int
    BY <1>2
  <2>6. Max(T) = i
    BY <2>4, <2>5, LargestIndex
  <2> QED
    BY <2>6
<1>4. Append(h, e)[Max(T)] = h[Max(T)]
  BY <1>2, <1>3, OneMore
<1> QED
  BY <1>1, <1>4 DEF LastMeant

LEMMA FirstStays ==
    ASSUME NEW h, Listed(h), NEW e, NEW opts, Meant(h, opts) # {}
    PROVE  /\ Meant(Append(h, e), opts) # {}
           /\ FirstMeant(Append(h, e), opts) = FirstMeant(h, opts)
<1> DEFINE T == Meant(h, opts)
           V == Meant(Append(h, e), opts)
<1>1. V = T \/ V = T \cup {Len(h) + 1}
  BY MeantNext
<1>2. Len(h) \in Nat /\ T \subseteq 1 .. Len(h)
  BY MeantPlaces
<1>3. T \subseteq Nat /\ T # {}
  BY <1>2
<1> HIDE DEF V, T
<1>4. Min(T) \in T /\ \A i \in T : Min(T) <= i
  BY <1>3, LeastIndex
<1>5. Min(T) \in V /\ V \subseteq Int /\ \A i \in V : Min(T) <= i
  <2> PICK m : m = Min(T)
    OBVIOUS
  <2>1. m \in T /\ \A i \in T : m <= i
    BY <1>4
  <2> QED
    BY <1>1, <1>2, <2>1 DEF T
<1>6. Min(V) = Min(T)
  BY <1>5, SmallestIndex
<1>7. Append(h, e)[Min(T)] = h[Min(T)]
  BY <1>2, <1>4, OneMore DEF T
<1> QED
  BY <1>5, <1>6, <1>7 DEF FirstMeant, T, V

LEMMA FirstIsThis ==
    ASSUME NEW h, Listed(h), NEW e, NEW opts, e[1] \in opts, Meant(h, opts) = {}
    PROVE  /\ Meant(Append(h, e), opts) # {}
           /\ FirstMeant(Append(h, e), opts) = e
<1>1. Meant(Append(h, e), opts) = {Len(h) + 1}
  BY MeantNext
<1>2. Len(h) + 1 \in Int
  BY OneMore
<1>3. Min({Len(h) + 1}) = Len(h) + 1
  <2> DEFINE n == Len(h) + 1
  <2> HIDE DEF n
  <2>1. n \in Int
    BY <1>2 DEF n
  <2>2. Min({n}) = n
    BY <2>1, SmallestIndex
  <2> QED
    BY <2>2 DEF n
<1>4. Append(h, e)[Len(h) + 1] = e
  BY OneMore
<1> QED
  BY <1>1, <1>3, <1>4 DEF FirstMeant

--------------------------------------------------------------------------------
(* What the settings say is what the options met so far say.                     *)

Told(s, h) ==
    /\ FollowsLine(s, h)
    /\ Is(s, "BUFLENSET") <=> Meant(h, {"l"}) # {}
    /\ Is(s, "BWSET") <=> Meant(h, {"b"}) # {}
    /\ Is(s, "UDP") <=> Meant(h, {"u"}) # {}
    /\ RunsBothWays(s) => s.threadMode = "Client"

LEMMA NothingTold == Told(Settings_Initialize, <<>>)
<1>1. \A opts : Meant(<<>>, opts) = {}
  BY DEF Meant
<1>2. /\ Settings_Initialize.threadMode = "Unknown" /\ Settings_Initialize.mMode = "Normal"
      /\ Settings_Initialize.amount = 1000 /\ Settings_Initialize.bufLen = 128 * 1024
      /\ Settings_Initialize.rate = 0 /\ Settings_Initialize.flags = {"MODETIME", "STDOUT"}
  BY DEF Settings_Initialize
<1> QED
  BY <1>1, <1>2 DEF Told, FollowsLine, ModeFollows, TestFollows, AmountFollows, LengthFollows,
                    RateFollows, RunsBothWays, Is

LEMMA OptionTells ==
    ASSUME NEW s, SettingsShape(s), NEW h, Listed(h), NEW opt, NEW arg, Told(s, h)
    PROVE  Told(Settings_Interpret(s, opt, arg), Append(h, <<opt, arg>>))
<1> PICK t : t = Settings_Interpret(s, opt, arg)
  OBVIOUS
<1> PICK e : e = <<opt, arg>>
  OBVIOUS
<1> PICK k : k = Append(h, e)
  OBVIOUS
<1>e. e[1] = opt /\ e[2] = arg
  OBVIOUS
<1>u. /\ opt \notin {"c", "s"} => t.threadMode = s.threadMode
      /\ opt \notin {"d", "r", "C"} => t.mMode = s.mMode
      /\ opt \notin {"t", "n"} =>
            t.amount = s.amount /\ (Is(t, "MODETIME") <=> Is(s, "MODETIME"))
      /\ opt \notin {"l", "u", "b"} => t.bufLen = s.bufLen
      /\ opt \notin {"u", "b"} => t.rate = s.rate
      /\ opt # "l" => (Is(t, "BUFLENSET") <=> Is(s, "BUFLENSET"))
      /\ opt # "b" => (Is(t, "BWSET") <=> Is(s, "BWSET"))
      /\ opt # "u" => (Is(t, "UDP") <=> Is(s, "UDP"))
  BY Untold
<1>b. opt = "b" => BandwidthTold(s, t, arg)
  BY TellingOption, BandwidthTells
<1>v. opt = "u" => UDPTold(s, t)
  BY TellingOption, UDPTells
<1>l. opt = "l" => LengthTold(s, t, arg)
  BY TellingOption, OthersTell
<1>t. (opt = "t" => AmountTold(s, t, arg, TRUE)) /\ (opt = "n" => AmountTold(s, t, arg, FALSE))
  <2>1. opt = "t" => t = Time(s, arg)
    BY TellingOption
  <2>2. opt = "n" => t = Amount(s, arg)
    BY TellingOption
  <2> QED
    BY <2>1, <2>2, OthersTell, Zenon
<1>c. (opt = "c" => ModeTold(s, t, "Client")) /\ (opt = "s" => ModeTold(s, t, "Listener"))
  <2>1. opt = "c" => t = ClientMode(s, arg)
    BY TellingOption
  <2>2. opt = "s" => t = ServerMode(s)
    BY TellingOption
  <2> QED
    BY <2>1, <2>2, OthersTell, Zenon
<1>d. /\ opt = "d" => TestTold(s, t, "DualTest")
      /\ opt = "r" => TestTold(s, t, "TradeOff")
      /\ opt = "C" => TestTold(s, t, "Normal")
  BY TellingOption, OthersTell
<1>p. ASSUME NEW opts, opt \in opts
      PROVE  Meant(k, opts) # {} /\ LastMeant(k, opts) = e
  BY <1>p, LastIsThis
<1>q. ASSUME NEW opts, opt \notin opts
      PROVE  /\ Meant(k, opts) = Meant(h, opts)
             /\ Meant(h, opts) # {} => LastMeant(k, opts) = LastMeant(h, opts)
  BY <1>q, LastStays, MeantNext
<1>r. ASSUME NEW opts, Meant(h, opts) # {}
      PROVE  Meant(k, opts) # {} /\ FirstMeant(k, opts) = FirstMeant(h, opts)
  BY <1>r, FirstStays
<1>s. ASSUME NEW opts, opt \in opts, Meant(h, opts) = {}
      PROVE  Meant(k, opts) # {} /\ FirstMeant(k, opts) = e
  BY <1>s, FirstIsThis
<1>1. ModeFollows(t, k)
  <2> DEFINE M == {"c", "s"}
  <2>1. CASE opt \notin M
    BY <1>u, <1>q, <1>r, <2>1 DEF Told, FollowsLine, ModeFollows
  <2>2. CASE opt \in M /\ Meant(h, M) = {}
    <3>1. s.threadMode = "Unknown"
      BY <2>2 DEF Told, FollowsLine, ModeFollows
    <3>2. Meant(k, M) # {} /\ FirstMeant(k, M)[1] = opt
      BY <1>e, <1>s, <2>2
    <3> QED
      BY <1>c, <2>2, <3>1, <3>2 DEF ModeFollows, ModeTold
  <2>3. CASE opt \in M /\ Meant(h, M) # {}
    <3>1. s.threadMode = IF FirstMeant(h, M)[1] = "c" THEN "Client" ELSE "Listener"
      BY <2>3 DEF Told, FollowsLine, ModeFollows
    <3>2. t.threadMode = s.threadMode
      BY <1>c, <2>3, <3>1 DEF ModeTold
    <3> QED
      BY <1>r, <2>3, <3>1, <3>2 DEF ModeFollows
  <2> QED
    BY <2>1, <2>2, <2>3
<1>2. TestFollows(t, k) /\ (RunsBothWays(t) => t.threadMode = "Client")
  <2> DEFINE M == {"d", "r", "C"}
  <2>0. s.threadMode = "Client" => t.threadMode = "Client"
    BY <1>c, <1>u DEF ModeTold
  <2>1. CASE opt \notin M
    <3>1. t.mMode = s.mMode /\ Meant(k, M) = Meant(h, M)
      BY <1>u, <1>q, <2>1
    <3>2. Meant(h, M) # {} => LastMeant(k, M) = LastMeant(h, M)
      BY <1>q, <2>1
    <3> QED
      BY <2>0, <3>1, <3>2 DEF Told, FollowsLine, TestFollows, RunsBothWays
  <2>2. CASE opt = "C"
    BY <1>d, <2>2 DEF TestTold, TestFollows, RunsBothWays
  <2>3. CASE opt \in {"d", "r"} /\ s.threadMode = "Client"
    <3>1. Meant(k, M) # {} /\ LastMeant(k, M)[1] = opt
      BY <1>e, <1>p, <2>3
    <3>2. t.mMode = (IF opt = "d" THEN "DualTest" ELSE "TradeOff") /\ t.threadMode = "Client"
      BY <1>d, <2>3 DEF TestTold
    <3> QED
      BY <2>3, <3>1, <3>2 DEF TestFollows
  <2>4. CASE opt \in {"d", "r"} /\ s.threadMode # "Client"
    <3>1. t.mMode = s.mMode /\ ~ RunsBothWays(s)
      BY <1>d, <2>4 DEF TestTold, Told
    <3> QED
      BY <3>1 DEF TestFollows, RunsBothWays
  <2> QED
    BY <2>1, <2>2, <2>3, <2>4
<1>3. AmountFollows(t, k)
  <2> DEFINE M == {"t", "n"}
  <2>1. CASE opt \notin M
    <3>1. Meant(k, M) = Meant(h, M) /\ (Meant(h, M) # {} => LastMeant(k, M) = LastMeant(h, M))
      BY <1>q, <2>1
    <3> QED
      BY <1>u, <2>1, <3>1 DEF Told, FollowsLine, AmountFollows
  <2>2. CASE opt \in M
    <3>1. Meant(k, M) # {} /\ LastMeant(k, M)[1] = opt /\ LastMeant(k, M)[2] = arg
      BY <1>e, <1>p, <2>2
    <3>2. t.amount = atoi(arg) /\ (Is(t, "MODETIME") <=> opt = "t")
      BY <1>t, <2>2 DEF AmountTold
    <3> QED
      BY <3>1, <3>2 DEF AmountFollows
  <2> QED
    BY <2>1, <2>2
<1>4. LengthFollows(t, k) /\ (Is(t, "BUFLENSET") <=> Meant(k, {"l"}) # {})
  <2> DEFINE L == {"l"}
             M == {"u", "b"}
  <2>0. s.bufLen = IF Meant(h, L) # {} THEN atoi(LastMeant(h, L)[2])
                   ELSE IF Meant(h, M) # {} THEN kDefault_UDPBufLen ELSE 128 * 1024
    BY DEF Told, FollowsLine, LengthFollows
  <2>1. CASE opt = "l"
    <3>1. Meant(k, L) # {} /\ LastMeant(k, L)[2] = arg
      BY <1>e, <1>p, <2>1
    <3>2. t.bufLen = atoi(arg) /\ Is(t, "BUFLENSET")
      BY <1>l, <2>1 DEF LengthTold, Flagged
    <3> QED
      BY <3>1, <3>2 DEF LengthFollows
  <2>2. CASE opt # "l"
    <3>1. Meant(k, L) = Meant(h, L) /\ (Meant(h, L) # {} => LastMeant(k, L) = LastMeant(h, L))
      BY <1>q, <2>2
    <3>2. Is(t, "BUFLENSET") <=> Meant(k, L) # {}
      BY <1>u, <2>2, <3>1 DEF Told
    <3>3. CASE opt \in M
      <4>1. Meant(k, M) # {}
        BY <1>p, <3>3
      <4>2. t.bufLen = IF Is(s, "BUFLENSET") THEN s.bufLen ELSE kDefault_UDPBufLen
        BY <1>b, <1>v, <3>3 DEF BandwidthTold, UDPTold
      <4>3. Is(s, "BUFLENSET") <=> Meant(h, L) # {}
        BY DEF Told
      <4> HIDE DEF L, M
      <4>4. t.bufLen = IF Meant(k, L) # {} THEN atoi(LastMeant(k, L)[2])
                       ELSE IF Meant(k, M) # {} THEN kDefault_UDPBufLen ELSE 128 * 1024
        BY <2>0, <3>1, <4>1, <4>2, <4>3
      <4> QED
        BY <3>2, <4>4 DEF LengthFollows, L, M
    <3>4. CASE opt \notin M
      <4>1. Meant(k, M) = Meant(h, M) /\ t.bufLen = s.bufLen
        BY <1>q, <1>u, <2>2, <3>4
      <4> HIDE DEF L, M
      <4>4. t.bufLen = IF Meant(k, L) # {} THEN atoi(LastMeant(k, L)[2])
                       ELSE IF Meant(k, M) # {} THEN kDefault_UDPBufLen ELSE 128 * 1024
        BY <2>0, <3>1, <4>1
      <4> QED
        BY <3>2, <4>4 DEF LengthFollows, L, M
    <3> QED
      BY <3>3, <3>4
  <2> QED
    BY <2>1, <2>2
<1>5. /\ RateFollows(t, k)
      /\ Is(t, "BWSET") <=> Meant(k, {"b"}) # {}
      /\ Is(t, "UDP") <=> Meant(k, {"u"}) # {}
  <2> DEFINE B == {"b"}
             U == {"u"}
  <2>0. /\ s.rate = IF Meant(h, B) # {} THEN atoi(LastMeant(h, B)[2])
                    ELSE IF Meant(h, U) # {} THEN kDefault_UDPRate ELSE 0
        /\ Is(s, "BWSET") <=> Meant(h, B) # {}
        /\ Is(s, "UDP") <=> Meant(h, U) # {}
    BY DEF Told, FollowsLine, RateFollows
  <2>1. CASE opt = "b"
    <3>1. Meant(k, B) # {} /\ LastMeant(k, B)[2] = arg /\ Meant(k, U) = Meant(h, U)
      BY <1>e, <1>p, <1>q, <2>1
    <3>2. t.rate = atoi(arg) /\ Is(t, "BWSET") /\ (Is(t, "UDP") <=> Is(s, "UDP"))
      BY <1>b, <1>u, <2>1 DEF BandwidthTold, Flagged
    <3> QED
      BY <2>0, <3>1, <3>2 DEF RateFollows
  <2>2. CASE opt # "b"
    <3>1. Meant(k, B) = Meant(h, B) /\ (Meant(h, B) # {} => LastMeant(k, B) = LastMeant(h, B))
      BY <1>q, <2>2
    <3>2. Is(t, "BWSET") <=> Meant(k, B) # {}
      BY <1>u, <2>0, <2>2, <3>1
    <3>3. CASE opt = "u"
      <4>1. Meant(k, U) # {}
        BY <1>p, <3>3
      <4>2. t.rate = (IF Is(s, "BWSET") \/ Is(s, "UDP") THEN s.rate ELSE kDefault_UDPRate)
            /\ Is(t, "UDP")
        BY <1>v, <3>3 DEF UDPTold, Flagged
      <4> HIDE DEF B, U
      <4>3. t.rate = IF Meant(k, B) # {} THEN atoi(LastMeant(k, B)[2])
                     ELSE IF Meant(k, U) # {} THEN kDefault_UDPRate ELSE 0
        BY <2>0, <3>1, <4>1, <4>2
      <4> QED
        BY <3>2, <4>1, <4>2, <4>3 DEF RateFollows, B, U
    <3>4. CASE opt # "u"
      <4>1. Meant(k, U) = Meant(h, U) /\ t.rate = s.rate /\ (Is(t, "UDP") <=> Is(s, "UDP"))
        BY <1>q, <1>u, <2>2, <3>4
      <4> HIDE DEF B, U
      <4>2. t.rate = IF Meant(k, B) # {} THEN atoi(LastMeant(k, B)[2])
                     ELSE IF Meant(k, U) # {} THEN kDefault_UDPRate ELSE 0
        BY <2>0, <3>1, <4>1
      <4>3. Is(t, "UDP") <=> Meant(k, U) # {}
        BY <2>0, <4>1
      <4> QED
        BY <3>2, <4>2, <4>3 DEF RateFollows, B, U
    <3> QED
      BY <3>3, <3>4
  <2> QED
    BY <2>1, <2>2
<1> QED
  BY <1>1, <1>2, <1>3, <1>4, <1>5 DEF Told, FollowsLine

(* Settings change, and an option is met, when an option is interpreted.         *)
LEMMA ReadingTells ==
    ASSUME NEW p \in Program, Read(p)
    PROVE  UNCHANGED <<settings, seen>> \/ \E o : Interpreted(p, o)
<1>1. CASE Settings_ParseEnvironment(p)
  BY <1>1, Zenon DEF Settings_ParseEnvironment
<1>2. CASE PriorityOption(p)
  BY <1>2, Zenon DEF PriorityOption
<1>3. CASE SecondOption(p)
  BY <1>3, Zenon DEF SecondOption
<1> QED
  BY <1>1, <1>2, <1>3 DEF Read, Settings_ParseCommandLine

LEMMA ThreadsTellNothing ==
    ASSUME NEW p \in Program, NEW i \in Thread(p), ThreadStep(p, i)
    PROVE  UNCHANGED <<settings, seen>>
<1> USE DEF UnchangedThreads, restVars, runVars, optionVars
<1>1. CASE ClientStep(p, i)
  BY <1>1 DEF ClientStep, Connect, InitiateServer, Begin, StopWriting, EndClient
<1>2. CASE ServerStep(p, i)
  BY <1>2 DEF ServerStep, StopReading, EndServer
<1>3. CASE ListenerStep(p, i)
  BY <1>3, Zenon DEF ListenerStep, Listen, Accept, AcceptTimeout, NoInterrupt, Interrupted, AdmitGroup,
               Admit, TryAgain, ReadClientHeader, NextClient
<1>4. CASE ReporterStep(p, i)
  BY <1>4 DEF ReporterStep, ReporterPrints, ReporterFrees, ReporterIdles, ReporterWakes
<1>5. CASE Wrapper(p, i)
  BY <1>5 DEF Wrapper
<1> QED
  BY <1>1, <1>2, <1>3, <1>4, <1>5 DEF ThreadStep

LEMMA OnlyOptionsTell ==
    ASSUME [Next]_vars
    PROVE  UNCHANGED <<settings, seen>> \/ \E p \in Program : \E o : Interpreted(p, o)
<1> USE DEF restVars, runVars, optionVars
<1>1. CASE UNCHANGED vars
  BY <1>1 DEF vars
<1>2. ASSUME NEW p \in Program, Alarm(p) \/ Interrupt(p) \/ main(p) \/ JoinAll(p)
      PROVE  UNCHANGED <<settings, seen>>
  BY <1>2 DEF Alarm, Interrupt, Signal, main, JoinAll
<1> QED
  BY <1>1, <1>2, ReadingTells, ThreadsTellNothing DEF Next, ProcessStep, MainStep

LineInv ==
    /\ DOMAIN seen = Program
    /\ \A p \in Program : Listed(seen[p]) /\ Told(settings[p], seen[p])

LEMMA InitTells == Init => LineInv
<1> SUFFICES ASSUME Init PROVE LineInv
  OBVIOUS
<1>1. /\ settings = [p \in Program |-> Settings_Initialize]
      /\ seen = [p \in Program |-> <<>>]
  BY DEF Init, OptionsInit
<1>2. Listed(<<>>)
  <2>1. <<>> \in Seq({})
    OBVIOUS
  <2> QED
    BY <2>1 DEF Listed
<1> QED
  BY <1>1, <1>2, NothingTold DEF LineInv

LEMMA NextTells == IInv /\ LineInv /\ [Next]_vars => LineInv'
<1> SUFFICES ASSUME IInv, LineInv, [Next]_vars PROVE LineInv'
  OBVIOUS
<1>1. CASE UNCHANGED <<settings, seen>>
  BY <1>1 DEF LineInv
<1>2. ASSUME NEW p \in Program, NEW o, Interpreted(p, o) PROVE LineInv'
  <2> PICK s : s = Settings_Interpret(settings[p], o.opt, o.arg)
    OBVIOUS
  <2> PICK h : h = Append(seen[p], <<o.opt, o.arg>>)
    OBVIOUS
  <2>1. settings' = [settings EXCEPT ![p] = s] /\ seen' = [seen EXCEPT ![p] = h]
    BY <1>2 DEF Interpreted
  <2>2. Listed(seen[p]) /\ Told(settings[p], seen[p]) /\ SettingsShape(settings[p])
    BY DEF IInv, LineInv
  <2>3. Listed(h) /\ Told(s, h)
    <3> PICK e : e = <<o.opt, o.arg>>
      OBVIOUS
    <3>1. Listed(Append(seen[p], e))
      BY <2>2, OneMore
    <3> QED
      BY <2>2, <3>1, OptionTells
  <2> QED
    BY <2>1, <2>3 DEF IInv, LineInv
<1> QED
  BY <1>1, <1>2, OnlyOptionsTell

(* The settings a process has read are what its environment and command line say *)
(* of all the options together, in whatever order they are given                 *)
(* (Settings.cpp:390-405, 494-501).                                              *)
THEOREM OrderDoesNotMatter == Spec => []SettingsFollowTheLine
<1>1. LineInv => SettingsFollowTheLine
  BY DEF LineInv, Told, SettingsFollowTheLine
<1> QED
  BY <1>1, CountsAreInvariant, InitTells, NextTells, PTL DEF Spec

--------------------------------------------------------------------------------
(* The test that comes back.                                                     *)

(* The client that far starts for the test that comes back runs the test that    *)
(* near was asked for: header and settings are an inverse operation for a time,  *)
(* whatever the two command lines say (Settings.cpp:760-920).                    *)
THEOREM TestComesBackAsAsked == Spec => []ReverseAsAsked
<1>1. IInv => ReverseAsAsked
  <2> SUFFICES ASSUME IInv, RunsBothWays(settings[near]), settings[far].threadMode = "Listener"
               PROVE  LET asked == settings[near]
                          back == ClientSettings(far)
                      IN /\ back.port = Settings_GenerateListenerSettings(asked).port
                         /\ back.host = HostOf[near]
                         /\ back.mMode = asked.mMode
                         /\ back.flowID = asked.flowID
                         /\ Is(asked, "MODETIME") /\ asked.amount > 0 =>
                                Is(back, "MODETIME") /\ back.amount = asked.amount
                         /\ Is(asked, "BUFLENSET") /\ asked.bufLen > 0 =>
                                back.bufLen = asked.bufLen
    BY DEF ReverseAsAsked
  <2> PICK asked : asked = settings[near]
    OBVIOUS
  <2> PICK server : server = settings[far]
    OBVIOUS
  <2> PICK hdr : hdr = Settings_GenerateClientHdr(asked)
    OBVIOUS
  <2> PICK back : back = Settings_GenerateClientSettings(server, HostOf[near], hdr)
    OBVIOUS
  <2>1. SettingsShape(asked) /\ SettingsShape(server)
    BY DEF IInv, Program
  <2>2. ClientSettings(far) = back
    BY DEF ClientSettings, Comes, Peer
  <2>3. Settings_GenerateListenerSettings(asked).port = PortToComeBackTo(asked)
    BY <2>1 DEF Settings_GenerateListenerSettings, SettingsShape, PortToComeBackTo
  <2>4. /\ hdr.port = PortToComeBackTo(asked) /\ hdr.flowID = asked.flowID
        /\ Is(asked, "MODETIME") => hdr.amount = -asked.amount
        /\ Is(asked, "BUFLENSET") => hdr.bufferlen = asked.bufLen
    BY DEF Settings_GenerateClientHdr
  <2>5. "RUN_NOW" \in hdr.flags <=> asked.mMode = "DualTest"
    BY DEF Settings_GenerateClientHdr
  <2>6. back.port = hdr.port /\ back.flowID = hdr.flowID /\ back.host = HostOf[near]
    BY <2>1 DEF Settings_GenerateClientSettings, SettingsShape
  <2>7. back.mMode = IF "RUN_NOW" \in hdr.flags THEN "DualTest" ELSE "TradeOff"
    BY <2>1 DEF Settings_GenerateClientSettings, SettingsShape
  <2>8. /\ back.amount = IF hdr.amount < 0 THEN -hdr.amount ELSE hdr.amount
        /\ back.bufLen = IF hdr.bufferlen # 0 THEN hdr.bufferlen ELSE server.bufLen
    BY <2>1 DEF Settings_GenerateClientSettings, SettingsShape
  <2>9. back.flags = server.flags \cup {"COMPAT"} \cup {f \in {"MODETIME"} : hdr.amount < 0}
    BY <2>1 DEF Settings_GenerateClientSettings, SettingsShape
  <2>10. back.mMode = asked.mMode
    BY <2>5, <2>7 DEF RunsBothWays
  <2>11. ASSUME Is(asked, "MODETIME"), asked.amount > 0
         PROVE  Is(back, "MODETIME") /\ back.amount = asked.amount
    <3> DEFINE n == asked.amount
    <3>1. n \in Nat /\ hdr.amount = -n /\ n > 0
      BY <2>1, <2>4, <2>11 DEF SettingsShape
    <3> HIDE DEF n
    <3>2. hdr.amount < 0 /\ -hdr.amount = n
      BY <3>1
    <3> QED
      BY <2>8, <2>9, <3>2 DEF Is, n
  <2>12. ASSUME Is(asked, "BUFLENSET"), asked.bufLen > 0
         PROVE  back.bufLen = asked.bufLen
    BY <2>1, <2>4, <2>8, <2>12 DEF SettingsShape
  <2> QED
    BY <2>2, <2>3, <2>4, <2>6, <2>10, <2>11, <2>12
<1> QED
  BY <1>1, CountsAreInvariant, PTL

--------------------------------------------------------------------------------
(* Where the pass over a command line stands: gnu_optind and nextchar.           *)

(* n: the length of the line.                                                    *)
InLine(o, n) == o.optind \in 1 .. n + 1 /\ (o.nextchar # <<>> => o.optind <= n)

LEMMA GotPlace ==
    ASSUME NEW opt, NEW arg, NEW j, NEW n \in Nat, j \in 1 .. n + 1
    PROVE  InLine(Got(opt, arg, j, <<>>), n) /\ InLine(Bad(j, <<>>), n)
BY DEF InLine, Got, Bad

LEMMA ShortPlace ==
    ASSUME NEW a, Len(a) \in Nat, NEW i \in 1 .. Len(a), NEW chars, NEW known
    PROVE  InLine(ShortOption(a, i, chars, known), Len(a))
<1> PICK c : c = Head(chars)
  OBVIOUS
<1> PICK rest : rest = Tail(chars)
  OBVIOUS
<1> PICK n : n = Len(a)
  OBVIOUS
<1> DEFINE after == IF rest = <<>> THEN i + 1 ELSE i
<1>1. n \in Nat /\ i \in 1 .. n
  OBVIOUS
<1>2. after \in 1 .. n + 1 /\ (rest # <<>> => after <= n)
  BY <1>1
<1> HIDE DEF after
<1>3. \A o, x : InLine(Got(o, x, after, rest), n)
  BY <1>2 DEF InLine, Got
<1>4. InLine(Bad(after, rest), n)
  BY <1>3 DEF Bad
<1>5. \A o, x : InLine(Got(o, x, i + 1, <<>>), n) /\ (i < n => InLine(Got(o, x, i + 2, <<>>), n))
  <2>1. i + 1 \in 1 .. n + 1 /\ (i < n => i + 2 \in 1 .. n + 1)
    BY <1>1
  <2> QED
    BY <1>1, <2>1, GotPlace
<1>6. InLine(NoArgumentLeft(i), n)
  BY <1>5 DEF NoArgumentLeft, Bad
<1>7. ShortOption(a, i, chars, known) \in
        {Bad(after, rest), Got(c, Nothing, after, rest), Got(c, rest, i + 1, <<>>),
         NoArgumentLeft(i)} \cup {Got(c, a[i + 1], i + 2, <<>>) : x \in {y \in {0} : i < n}}
  BY Zenon DEF ShortOption, after
<1> QED
  BY <1>3, <1>4, <1>5, <1>6, <1>7

LEMMA LongPlace ==
    ASSUME NEW a, Len(a) \in Nat, NEW i \in 1 .. Len(a), NEW known
    PROVE  InLine(LongOption(a, i, known), Len(a))
<1> PICK n : n = Len(a)
  OBVIOUS
<1>1. n \in Nat /\ i \in 1 .. n
  OBVIOUS
<1>2. \A o, x : InLine(Got(o, x, i + 1, <<>>), n) /\ (i < n => InLine(Got(o, x, i + 2, <<>>), n))
  <2>1. i + 1 \in 1 .. n + 1 /\ (i < n => i + 2 \in 1 .. n + 1)
    BY <1>1
  <2> QED
    BY <1>1, <2>1, GotPlace
<1>3. InLine(Bad(i + 1, <<>>), n) /\ InLine(NoArgumentLeft(i), n)
  BY <1>2 DEF NoArgumentLeft, Bad
<1> PICK found : found = Candidates(a[i][2], known)
  OBVIOUS
<1> PICK val : val = long_options[CHOOSE m \in found : TRUE]
  OBVIOUS
<1>4. \/ LongOption(a, i, known) = Bad(i + 1, <<>>)
      \/ LongOption(a, i, known) = Got(val, Nothing, i + 1, <<>>)
      \/ LongOption(a, i, known) = Got(val, SubSeq(a[i], 4, Len(a[i])), i + 1, <<>>)
      \/ LongOption(a, i, known) = Got(val, a[i + 1], i + 2, <<>>) /\ i < n
      \/ LongOption(a, i, known) = NoArgumentLeft(i)
  BY DEF LongOption
<1> QED
  BY <1>2, <1>3, <1>4

LEMMA GetoptPlace ==
    ASSUME NEW a, Len(a) \in Nat, NEW i \in 1 .. Len(a) + 1, NEW chars,
           chars # <<>> => i <= Len(a), NEW known
    PROVE  InLine(gnu_getopt_long(a, i, chars, known), Len(a))
<1> PICK n : n = Len(a)
  OBVIOUS
<1>1. n \in Nat /\ i \in 1 .. n + 1
  OBVIOUS
<1>2. CASE chars # <<>>
  <2>1. i \in 1 .. n
    BY <1>1, <1>2
  <2> QED
    BY <1>2, <2>1, ShortPlace DEF gnu_getopt_long
<1>3. CASE chars = <<>> /\ i > n
  <2>1. gnu_getopt_long(a, i, chars, known) = EndOfOptions(i)
    BY <1>3 DEF gnu_getopt_long
  <2> QED
    BY <1>1, <2>1, GotPlace DEF EndOfOptions
<1>4. CASE chars = <<>> /\ ~ (i > n)
  <2>1. i \in 1 .. n /\ i + 1 \in 1 .. n + 1
    BY <1>1, <1>4
  <2>2. InLine(EndOfOptions(i + 1), n) /\ InLine(Got("word", a[i], i + 1, <<>>), n)
    BY <1>1, <2>1, GotPlace DEF EndOfOptions
  <2>3. \/ gnu_getopt_long(a, i, chars, known) = EndOfOptions(i + 1)
        \/ gnu_getopt_long(a, i, chars, known) = Got("word", a[i], i + 1, <<>>)
        \/ gnu_getopt_long(a, i, chars, known) = ShortOption(a, i, Tail(a[i]), known.short)
        \/ gnu_getopt_long(a, i, chars, known) = LongOption(a, i, known.long)
    BY <1>4 DEF gnu_getopt_long
  <2>4. /\ InLine(ShortOption(a, i, Tail(a[i]), known.short), n)
        /\ InLine(LongOption(a, i, known.long), n)
    BY <2>1, ShortPlace, LongPlace
  <2> QED
    BY <2>2, <2>3, <2>4
<1> QED
  BY <1>2, <1>3, <1>4

Passes == {"environment", "priority", "second", "read", "exit"}
ReadingInv ==
    /\ DOMAIN getopt = Program
    /\ \A p \in Program : Len(line[p].argv) \in Nat
    /\ \A p \in Program :
          /\ DOMAIN getopt[p] = {"pass", "optind", "nextchar"}
          /\ getopt[p].pass \in Passes
          /\ getopt[p].pass \notin {"environment", "exit"} =>
                InLine(getopt[p], Len(line[p].argv))

LEMMA InitReads == Init => ReadingInv
<1> SUFFICES ASSUME Init PROVE ReadingInv
  OBVIOUS
<1>1. PICK s \in Scenario : line = s.line
  BY DEF Init, OptionsInit
<1>2. \A p \in Program : Len(line[p].argv) \in Nat
  BY <1>1, ScenarioAssumption
<1>3. getopt = [p \in Program |-> [pass |-> "environment", optind |-> 1, nextchar |-> <<>>]]
  BY DEF Init, OptionsInit
<1> QED
  BY <1>2, <1>3 DEF ReadingInv, Passes

(* The passes go on from one place in the line to the next.                      *)
LEMMA PassGoesOn ==
    ASSUME ReadingInv, NEW p \in Program, UNCHANGED line, NEW g,
           getopt' = [getopt EXCEPT ![p] = g],
           DOMAIN g = {"pass", "optind", "nextchar"}, g.pass \in Passes,
           g.pass \notin {"environment", "exit"} => InLine(g, Len(line[p].argv))
    PROVE  ReadingInv'
BY DEF ReadingInv

LEMMA ReadingGoesOn ==
    ASSUME ReadingInv, NEW p \in Program, Read(p)
    PROVE  ReadingInv'
<1> PICK n : n = Len(line[p].argv)
  OBVIOUS
<1>1. n \in Nat /\ UNCHANGED line
  BY DEF ReadingInv, Read
<1>2. /\ DOMAIN getopt[p] = {"pass", "optind", "nextchar"} /\ getopt[p].pass \in Passes
      /\ getopt[p].pass \notin {"environment", "exit"} => InLine(getopt[p], n)
  BY DEF ReadingInv
<1>3. ASSUME NEW o, Interpreted(p, o),
             getopt[p].pass \notin {"environment", "exit"} => InLine(o, n)
      PROVE  ReadingInv'
  <2> PICK g : g = [pass |-> IF Exits(o.opt, o.arg) THEN "exit" ELSE getopt[p].pass,
                    optind |-> o.optind, nextchar |-> o.nextchar]
    OBVIOUS
  <2>1. getopt' = [getopt EXCEPT ![p] = g]
    BY <1>3 DEF Interpreted
  <2>2. g.pass \in {"exit", getopt[p].pass} /\ g.optind = o.optind /\ g.nextchar = o.nextchar
    OBVIOUS
  <2>3. DOMAIN g = {"pass", "optind", "nextchar"}
    OBVIOUS
  <2>4. g.pass \in Passes
    BY <1>2, <2>2 DEF Passes
  <2>5. g.pass \notin {"environment", "exit"} => InLine(g, n)
    BY <1>3, <2>2 DEF InLine
  <2> QED
    BY <1>1, <2>1, <2>3, <2>4, <2>5, PassGoesOn
<1>4. ASSUME NEW pass, pass \in Passes, NEW j, j \in 1 .. n + 1,
             getopt' = [getopt EXCEPT ![p] = [pass |-> pass, optind |-> j, nextchar |-> <<>>]]
      PROVE  ReadingInv'
  <2> PICK g : g = [pass |-> pass, optind |-> j, nextchar |-> <<>>]
    OBVIOUS
  <2>1. DOMAIN g = {"pass", "optind", "nextchar"} /\ g.pass \in Passes /\ InLine(g, n)
    BY <1>4 DEF InLine
  <2>2. getopt' = [getopt EXCEPT ![p] = g]
    BY <1>4
  <2> QED
    BY <1>1, <2>1, <2>2, PassGoesOn
<1>5. 1 \in 1 .. n + 1
  BY <1>1
<1> PICK o : o = NextOption(p)
  OBVIOUS
<1>6. getopt[p].pass \notin {"environment", "exit"} => InLine(o, n)
  <2> SUFFICES ASSUME getopt[p].pass \notin {"environment", "exit"} PROVE InLine(o, n)
    OBVIOUS
  <2>1. getopt[p].optind \in 1 .. n + 1 /\ (getopt[p].nextchar # <<>> => getopt[p].optind <= n)
    BY <1>2 DEF InLine
  <2> QED
    BY <1>1, <2>1, GetoptPlace DEF NextOption
<1>7. CASE Settings_ParseEnvironment(p)
  <2>1. getopt[p].pass = "environment"
    BY <1>7, Zenon DEF Settings_ParseEnvironment
  <2>2. \/ getopt' = [getopt EXCEPT ![p] = [pass |-> "priority", optind |-> 1, nextchar |-> <<>>]]
        \/ \E e : Interpreted(p, e)
    BY <1>7, Zenon DEF Settings_ParseEnvironment
  <2>3. "priority" \in Passes
    BY DEF Passes
  <2> QED
    BY <1>3, <1>4, <1>5, <2>1, <2>2, <2>3
<1>8. CASE PriorityOption(p)
  <2>1. getopt[p].pass = "priority"
    BY <1>8, Zenon DEF PriorityOption
  <2>2. \/ getopt' = [getopt EXCEPT ![p] = [pass |-> "second", optind |-> 1, nextchar |-> <<>>]]
        \/ getopt' = [getopt EXCEPT ![p].optind = o.optind, ![p].nextchar = o.nextchar]
        \/ Interpreted(p, o)
    BY <1>8, Zenon DEF PriorityOption
  <2>3. ASSUME getopt' = [getopt EXCEPT ![p].optind = o.optind, ![p].nextchar = o.nextchar]
        PROVE  ReadingInv'
    <3> PICK g : g = [[getopt[p] EXCEPT !.optind = o.optind] EXCEPT !.nextchar = o.nextchar]
      OBVIOUS
    <3>1. getopt' = [getopt EXCEPT ![p] = g]
      BY <2>3, <1>2 DEF ReadingInv
    <3>2. /\ DOMAIN g = {"pass", "optind", "nextchar"} /\ g.pass = getopt[p].pass
          /\ g.optind = o.optind /\ g.nextchar = o.nextchar
      BY <1>2
    <3>3. InLine(g, n)
      BY <1>6, <2>1, <3>2 DEF InLine
    <3> QED
      BY <1>1, <1>2, <3>1, <3>2, <3>3, PassGoesOn
  <2>4. "second" \in Passes
    BY DEF Passes
  <2> QED
    BY <1>3, <1>4, <1>5, <1>6, <2>2, <2>3, <2>4
<1>9. CASE SecondOption(p)
  <2>1. getopt[p].pass = "second"
    BY <1>9, Zenon DEF SecondOption
  <2>2. \/ getopt' = [getopt EXCEPT ![p] = [pass |-> "read", optind |-> o.optind, nextchar |-> <<>>]]
        \/ Interpreted(p, o)
    BY <1>9, Zenon DEF SecondOption
  <2>3. InLine(o, n) /\ o.optind \in 1 .. n + 1
    BY <1>6, <2>1 DEF InLine
  <2>4. "read" \in Passes
    BY DEF Passes
  <2> QED
    BY <1>3, <1>4, <2>2, <2>3, <2>4
<1> QED
  BY <1>7, <1>8, <1>9 DEF Read, Settings_ParseCommandLine

--------------------------------------------------------------------------------
(* The connection a thread is about has been made.                               *)

Made(t, D) ==
    /\ t.sock \in D \cup {0}
    /\ \A k \in DOMAIN t.todo : t.todo[k].sock \in D \cup {0}
    /\ \A k \in DOMAIN t.next : t.next[k].sock \in D \cup {0}
MadeInv == \A p \in Program : \A i \in Thread(p) : Made(threads[p][i], DOMAIN conns)

(* A thread goes on about the same connection, with the same threads to start.   *)
About(t, s) == t.sock = s.sock /\ t.todo = s.todo /\ t.next \in {s.next, <<>>}

LEMMA AboutSame ==
    ASSUME NEW s, NEW t, About(t, s), NEW D, NEW E, D \subseteq E, Made(s, D)
    PROVE  Made(t, E)
<1>1. t.sock \in E \cup {0} /\ \A k \in DOMAIN t.todo : t.todo[k].sock \in E \cup {0}
  BY DEF About, Made
<1>2. CASE t.next = <<>>
  BY <1>1, <1>2 DEF Made
<1>3. CASE t.next = s.next
  BY <1>1, <1>3 DEF Made
<1> QED
  BY <1>2, <1>3 DEF About

LEMMA MoreConnections ==
    ASSUME NEW t, NEW D, NEW E, D \subseteq E, Made(t, D)
    PROVE  Made(t, E)
BY DEF Made

LEMMA OneThreadMade ==
    ASSUME IInv, MadeInv, NEW p \in Program, NEW i \in Thread(p), NEW t,
           threads' = [threads EXCEPT ![p][i] = t],
           DOMAIN conns \subseteq DOMAIN conns', Made(t, DOMAIN conns')
    PROVE  MadeInv'
<1> PICK E : E = DOMAIN conns'
  OBVIOUS
<1>1. /\ \A q \in Program : DOMAIN threads'[q] = DOMAIN threads[q]
      /\ \A q \in Program : \A j \in Thread(q) :
            threads'[q][j] = IF q = p /\ j = i THEN t ELSE threads[q][j]
  BY DEF IInv, Thread
<1>2. ASSUME NEW q \in Program, NEW j \in DOMAIN threads'[q] PROVE Made(threads'[q][j], E)
  BY <1>1, MoreConnections DEF MadeInv, Thread
<1> QED
  BY <1>2 DEF MadeInv, Thread

LEMMA ThreadsAboutSame ==
    ASSUME IInv, MadeInv, DOMAIN conns \subseteq DOMAIN conns',
           \A p \in Program : DOMAIN threads'[p] = DOMAIN threads[p],
           \A p \in Program : \A i \in Thread(p) : About(threads'[p][i], threads[p][i])
    PROVE  MadeInv'
<1>1. ASSUME NEW p \in Program, NEW i \in DOMAIN threads'[p]
      PROVE  Made(threads'[p][i], DOMAIN conns')
  <2> PICK E : E = DOMAIN conns'
    OBVIOUS
  <2>1. i \in Thread(p) /\ Made(threads[p][i], DOMAIN conns) /\ About(threads'[p][i], threads[p][i])
    BY DEF MadeInv, Thread
  <2> QED
    BY <2>1, AboutSame
<1> QED
  BY <1>1 DEF MadeInv, Thread

LEMMA ThreadsSame ==
    ASSUME MadeInv, UNCHANGED threads, DOMAIN conns \subseteq DOMAIN conns'
    PROVE  MadeInv'
<1> PICK E : E = DOMAIN conns'
  OBVIOUS
<1>1. \A p \in Program : \A i \in Thread(p) : Made(threads[p][i], E)
  BY MoreConnections DEF MadeInv
<1> QED
  BY <1>1 DEF MadeInv, Thread

LEMMA HereMade ==
    ASSUME IInv, MadeInv, NEW p \in Program, NEW i \in Thread(p)
    PROVE  /\ threads[p][i] \in ThreadRecord /\ Made(threads[p][i], DOMAIN conns)
           /\ threads[p][i] = [mode |-> threads[p][i].mode, pc |-> threads[p][i].pc,
                todo |-> threads[p][i].todo, next |-> threads[p][i].next,
                sock |-> threads[p][i].sock, rep |-> threads[p][i].rep,
                hold |-> threads[p][i].hold]
<1>1. threads[p] \in Seq(ThreadRecord)
  BY DEF IInv, Right
<1>2. threads[p][i] \in ThreadRecord
  BY <1>1 DEF Thread
<1> QED
  BY <1>2 DEF ThreadRecord, MadeInv

(* A thread alters its place and one field that says nothing of connections.     *)
LEMMA AlteredMade ==
    ASSUME IInv, MadeInv, NEW p \in Program, NEW i \in Thread(p),
           NEW pc, NEW field, field \notin {"sock", "todo", "next"}, NEW value,
           \/ Alters(p, i, pc, field, value)
           \/ Goes(p, i, pc)
           \/ threads' = [threads EXCEPT ![p][i].rep = value],
           DOMAIN conns \subseteq DOMAIN conns'
    PROVE  MadeInv'
<1> PICK s : s = threads[p][i]
  OBVIOUS
<1> PICK t : threads' = [threads EXCEPT ![p][i] = t] /\ About(t, s)
  <2>1. CASE Alters(p, i, pc, field, value)
    <3> DEFINE t == [s EXCEPT !.pc = pc, ![field] = value]
    <3>1. s \in ThreadRecord
      BY HereMade
    <3>2. t.sock = s.sock /\ t.todo = s.todo /\ t.next = s.next
      BY <3>1 DEF ThreadRecord
    <3>3. About(t, s)
      BY <3>2 DEF About
    <3>4. threads' = [threads EXCEPT ![p][i] = t]
      BY <2>1 DEF Alters
    <3> QED
      BY <3>3, <3>4
  <2>2. CASE Goes(p, i, pc)
    <3> DEFINE t == [s EXCEPT !.pc = pc]
    <3>1. About(t, s)
      BY DEF About
    <3>2. threads' = [threads EXCEPT ![p][i] = t]
      BY <2>2 DEF Goes
    <3> QED
      BY <3>1, <3>2
  <2>3. CASE threads' = [threads EXCEPT ![p][i].rep = value]
    <3> DEFINE t == [s EXCEPT !.rep = value]
    <3>1. About(t, s)
      BY DEF About
    <3>2. threads' = [threads EXCEPT ![p][i] = t]
      BY <2>3
    <3> QED
      BY <3>1, <3>2
  <2> QED
    BY <2>1, <2>2, <2>3
<1>1. Made(s, DOMAIN conns)
  BY HereMade
<1>2. Made(t, DOMAIN conns')
  BY <1>1, AboutSame
<1> QED
  BY <1>2, OneThreadMade

LEMMA GoesMade ==
    ASSUME IInv, MadeInv, NEW p \in Program, NEW i \in Thread(p), NEW pc, Goes(p, i, pc),
           DOMAIN conns \subseteq DOMAIN conns'
    PROVE  MadeInv'
<1>1. "rep" \notin {"sock", "todo", "next"}
  OBVIOUS
<1> QED
  BY <1>1, AlteredMade

(* A thread stops, registers itself or takes itself out.                         *)
LEMMA LeavingMade ==
    ASSUME IInv, MadeInv, NEW p \in Program, NEW i \in Thread(p),
           \/ thread_stop(p, i) \/ thread_register_nonterm(p, i) \/ thread_unregister_nonterm(p, i),
           DOMAIN conns \subseteq DOMAIN conns'
    PROVE  MadeInv'
<1> PICK s : s = threads[p][i]
  OBVIOUS
<1>1. /\ About([s EXCEPT !.pc = "stopped", !.next = <<>>], s)
      /\ About([s EXCEPT !.pc = "listen", !.hold = "nonterm"], s)
      /\ About([s EXCEPT !.pc = "finish", !.hold = "no"], s)
  <2>1. s = [mode |-> s.mode, pc |-> s.pc, todo |-> s.todo, next |-> s.next,
             sock |-> s.sock, rep |-> s.rep, hold |-> s.hold]
    BY HereMade
  <2> QED
    BY <2>1 DEF About
<1> PICK t : threads' = [threads EXCEPT ![p][i] = t] /\ About(t, s)
  BY <1>1 DEF thread_stop, thread_register_nonterm, thread_unregister_nonterm
<1>2. Made(s, DOMAIN conns)
  BY HereMade
<1>3. Made(t, DOMAIN conns')
  BY <1>2, AboutSame
<1> QED
  BY <1>3, OneThreadMade

(* A thread ends: what it is to start then was made with it.                     *)
LEMMA EndMade ==
    ASSUME IInv, MadeInv, NEW p \in Program, NEW i \in Thread(p),
           thread_run_wrapper(p, i), DOMAIN conns \subseteq DOMAIN conns'
    PROVE  MadeInv'
<1> PICK s : s = threads[p][i]
  OBVIOUS
<1> PICK rep : rep = IF s.rep = "printed" THEN "released" ELSE s.rep
  OBVIOUS
<1> PICK t : t = [s EXCEPT !.pc = "after", !.todo = s.next, !.next = <<>>, !.rep = rep]
  OBVIOUS
<1>1. s = [mode |-> s.mode, pc |-> s.pc, todo |-> s.todo, next |-> s.next,
           sock |-> s.sock, rep |-> s.rep, hold |-> s.hold]
  BY HereMade
<1>2. t.sock = s.sock /\ t.todo = s.next /\ t.next = <<>>
  BY <1>1
<1>3. Made(s, DOMAIN conns)
  BY HereMade
<1>4. Made(t, DOMAIN conns')
  <2> PICK E : E = DOMAIN conns'
    OBVIOUS
  <2>1. t.sock \in E \cup {0} /\ \A k \in DOMAIN t.todo : t.todo[k].sock \in E \cup {0}
    BY <1>2, <1>3 DEF Made
  <2>2. DOMAIN t.next = {}
    BY <1>2
  <2> QED
    BY <2>1, <2>2 DEF Made
<1>5. threads' = [threads EXCEPT ![p][i] = t]
  BY DEF thread_run_wrapper
<1> QED
  BY <1>4, <1>5, OneThreadMade

(* One of the settings a thread has to start becomes a thread.                   *)
LEMMA StartMade ==
    ASSUME IInv, MadeInv, NEW p \in Program, NEW i \in Thread(p), thread_start(p, i),
           UNCHANGED conns
    PROVE  MadeInv'
<1> PICK s : s = threads[p][i]
  OBVIOUS
<1> PICK new : new = Head(s.todo)
  OBVIOUS
<1> PICK D : D = DOMAIN conns
  OBVIOUS
<1>1. s \in ThreadRecord /\ Made(s, D) /\ threads[p] \in Seq(ThreadRecord) /\ DOMAIN threads = Program
  BY HereMade DEF IInv, Right
<1>2. s.todo \in Seq(Fresh) /\ s.todo # <<>>
  BY <1>1 DEF ThreadRecord, thread_start
<1>3. new \in Fresh /\ new = s.todo[1] /\ 1 \in DOMAIN s.todo
  BY <1>2
<1>4. new.todo = <<>> /\ new.next \in Seq({Client0}) /\ new.sock \in D \cup {0}
  <2>1. new.sock \in D \cup {0}
    BY <1>1, <1>3 DEF Made
  <2>2. CASE new \in NewServer
    BY <2>1, <2>2 DEF NewServer
  <2>3. CASE new \in {Client0, Listener0, reporter}
    <3>1. new.todo = <<>> /\ new.next = <<>>
      BY <2>3 DEF Client0, Listener0, reporter, Settings_Copy
    <3>2. <<>> \in Seq({Client0})
      OBVIOUS
    <3> QED
      BY <2>1, <3>1, <3>2
  <2> QED
    BY <1>3, <2>2, <2>3 DEF Fresh
<1>5. Client0.sock = 0
  BY DEF Client0, Settings_Copy
<1>6. Made(new, D)
  <2>1. \A k \in DOMAIN new.next : new.next[k] = Client0
    BY <1>4
  <2> QED
    BY <1>4, <1>5, <2>1 DEF Made
<1> PICK t : t = [s EXCEPT !.todo = Tail(s.todo)]
  OBVIOUS
<1>7. Made(t, D)
  <2>1. t.sock = s.sock /\ t.next = s.next /\ t.todo = Tail(s.todo)
    BY <1>1 DEF ThreadRecord
  <2>2. ASSUME NEW k \in DOMAIN Tail(s.todo) PROVE Tail(s.todo)[k].sock \in D \cup {0}
    <3>1. k + 1 \in DOMAIN s.todo /\ Tail(s.todo)[k] = s.todo[k + 1]
      BY <1>2
    <3> QED
      BY <1>1, <3>1 DEF Made
  <2> QED
    BY <1>1, <2>1, <2>2 DEF Made
<1> PICK us : us = [threads[p] EXCEPT ![i] = t]
  OBVIOUS
<1>8. DOMAIN us = DOMAIN threads[p] /\ \A j \in DOMAIN us : Made(us[j], D)
  BY <1>7 DEF MadeInv, Thread
<1>9. Listed(us) /\ DOMAIN us = 1 .. Len(us)
  <2> DEFINE R == ThreadRecord \cup {t}
             ts == threads[p]
  <2>1. ts \in Seq(R) /\ t \in R /\ i \in DOMAIN ts
    BY <1>1 DEF Thread
  <2> HIDE DEF R, ts
  <2>2. [ts EXCEPT ![i] = t] \in Seq(R)
    BY <2>1
  <2>3. us \in Seq(R)
    BY <2>2 DEF ts
  <2> QED
    BY <2>3 DEF Listed
<1>10. threads' = [threads EXCEPT ![p] = Append(us, new)]
  BY DEF thread_start
<1>11. \A j \in DOMAIN Append(us, new) : Made(Append(us, new)[j], D)
  <2> PICK v : v = Append(us, new)
    OBVIOUS
  <2>1. /\ DOMAIN us = 1 .. Len(us) /\ Len(us) \in Nat /\ DOMAIN v = 1 .. Len(us) + 1
        /\ \A j \in 1 .. Len(us) : v[j] = us[j]
        /\ v[Len(us) + 1] = new
    BY <1>9, OneMore
  <2>2. ASSUME NEW j \in DOMAIN v PROVE Made(v[j], D)
    <3>1. j \in 1 .. Len(us) \/ j = Len(us) + 1
      BY <2>1
    <3>2. CASE j \in 1 .. Len(us)
      BY <1>8, <2>1, <3>2
    <3>3. CASE j = Len(us) + 1
      BY <1>6, <2>1, <3>3
    <3> QED
      BY <3>1, <3>2, <3>3
  <2> QED
    BY <2>2
<1>12. ASSUME NEW q \in Program, NEW j \in DOMAIN threads'[q] PROVE Made(threads'[q][j], D)
  <2>1. CASE q = p
    <3>1. threads'[q] = Append(us, new)
      BY <1>1, <1>10, <2>1
    <3> QED
      BY <1>11, <3>1
  <2>2. CASE q # p
    <3>1. threads'[q] = threads[q]
      BY <1>10, <2>2
    <3> QED
      BY <3>1 DEF MadeInv, Thread
  <2> QED
    BY <2>1, <2>2
<1> QED
  BY <1>12 DEF MadeInv, Thread

(* What main and the listener start is about no connection, or the one at hand.  *)
LEMMA OneMoreMade ==
    ASSUME NEW S, NEW q \in Seq(S), NEW e, NEW D, e.sock \in D \cup {0},
           \A x \in S : x.sock \in D \cup {0}
    PROVE  \A k \in DOMAIN Append(q, e) : Append(q, e)[k].sock \in D \cup {0}
<1> PICK v : v = Append(q, e)
  OBVIOUS
<1>1. /\ DOMAIN v = 1 .. Len(q) + 1 /\ Len(q) \in Nat /\ v[Len(q) + 1] = e
      /\ \A k \in 1 .. Len(q) : v[k] = q[k] /\ q[k] \in S
  <2>1. Listed(q) /\ DOMAIN q = 1 .. Len(q) /\ \A k \in 1 .. Len(q) : q[k] \in S
    BY DEF Listed
  <2> QED
    BY <2>1, OneMore
<1>2. \A k \in DOMAIN v : k \in 1 .. Len(q) \/ k = Len(q) + 1
  BY <1>1
<1> QED
  BY <1>1, <1>2

LEMMA MainMade ==
    ASSUME IInv, MadeInv, NEW p \in Program, main(p)
    PROVE  MadeInv'
<1> DEFINE q == IF Comes(p) THEN <<Settings_Copy("listener", <<>>, 0)>> ELSE client_init(settings[p])
           todo == Append(q, reporter)
           t == [threads[p][1] EXCEPT !.pc = "join", !.todo = todo]
<1>1. UNCHANGED conns /\ (UNCHANGED threads \/ threads' = [threads EXCEPT ![p][1] = t])
  BY DEF main, tcpVars
<1>2. q \in Seq({Client0, Listener0})
  <2>1. CASE Comes(p)
    <3>1. q = <<Listener0>>
      BY <2>1 DEF Listener0
    <3> HIDE DEF q
    <3> QED
      BY <3>1
  <2>2. CASE ~Comes(p)
    BY <2>2, ClientsInitialised DEF IInv
  <2> QED
    BY <2>1, <2>2
<1>3. Client0.sock = 0 /\ Listener0.sock = 0 /\ reporter.sock = 0
  BY DEF Client0, Listener0, reporter, Settings_Copy
<1> HIDE DEF q
<1>4. \A k \in DOMAIN todo : todo[k].sock \in DOMAIN conns \cup {0}
  BY <1>2, <1>3, OneMoreMade
<1>5. 1 \in Thread(p)
  BY DEF IInv, Right, Thread
<1> HIDE DEF todo
<1>6. Made(t, DOMAIN conns)
  <2> PICK s : s = threads[p][1]
    OBVIOUS
  <2>1. s \in ThreadRecord /\ Made(s, DOMAIN conns)
    BY <1>5, HereMade
  <2>2. t.sock = s.sock /\ t.next = s.next /\ t.todo = todo
    BY <2>1 DEF ThreadRecord
  <2> HIDE DEF t
  <2> QED
    BY <1>4, <2>1, <2>2 DEF Made
<1> HIDE DEF t
<1>7. Made(t, DOMAIN conns')
  BY <1>1, <1>6
<1> QED
  BY <1>1, <1>5, <1>7, OneThreadMade, ThreadsSame

LEMMA HeaderMade ==
    ASSUME IInv, MadeInv, NEW p \in Program, NEW i \in Thread(p), ReadClientHeader(p, i)
    PROVE  MadeInv'
<1> DEFINE s == threads[p][i]
           c == conns[s.sock]
           held == IF c.hdr \/ c.data THEN c.hdr ELSE buffer[p]
           hdr == Settings_GenerateClientHdr(settings[Peer(p)])
           client == IF ReadsHeaders(p) /\ held /\ AsksForTest(hdr)
                     THEN client_init(ClientSettings(p)) ELSE <<>>
           now == "RUN_NOW" \in hdr.flags
           next == IF now THEN <<>> ELSE client
           before == IF now THEN client ELSE <<>>
           server == Settings_Copy("server", next, s.sock)
           todo == Append(before, server)
           t == [s EXCEPT !.pc = "begin", !["todo"] = todo]
<1>1. s \in ThreadRecord /\ Made(s, DOMAIN conns)
  BY HereMade
<1>2. threads' = [threads EXCEPT ![p][i] = t] /\ UNCHANGED conns
  BY DEF ReadClientHeader, Alters
<1>3. client \in Seq({Client0})
  BY HeaderClients
<1> HIDE DEF held, hdr, client, now
<1>4. before \in Seq({Client0})
  BY <1>3
<1> HIDE DEF before, next
<1>5. Client0.sock = 0 /\ server.sock = s.sock
  BY DEF Client0, Settings_Copy
<1>6. s.sock \in DOMAIN conns \cup {0}
  BY <1>1 DEF Made
<1> HIDE DEF server
<1>7. \A k \in DOMAIN todo : todo[k].sock \in DOMAIN conns \cup {0}
  BY <1>4, <1>5, <1>6, OneMoreMade
<1> HIDE DEF todo
<1>8. t.sock = s.sock /\ t.next = s.next /\ t.todo = todo
  BY <1>1 DEF ThreadRecord
<1> HIDE DEF t
<1>9. Made(t, DOMAIN conns')
  BY <1>1, <1>2, <1>7, <1>8 DEF Made
<1> QED
  BY <1>2, <1>9, OneThreadMade

(* A thread is about another connection.                                         *)
LEMMA SocketMade ==
    ASSUME IInv, MadeInv, NEW p \in Program, NEW i \in Thread(p), NEW pc,
           NEW c \in DOMAIN conns', Alters(p, i, pc, "sock", c), DOMAIN conns \subseteq DOMAIN conns'
    PROVE  MadeInv'
<1> PICK E : E = DOMAIN conns'
  OBVIOUS
<1> PICK s : s = threads[p][i]
  OBVIOUS
<1> PICK t : t = [s EXCEPT !.pc = pc, !["sock"] = c]
  OBVIOUS
<1>1. s \in ThreadRecord /\ Made(s, DOMAIN conns)
  BY HereMade
<1>2. t.sock = c /\ t.todo = s.todo /\ t.next = s.next
  BY <1>1 DEF ThreadRecord
<1>3. Made(s, E)
  BY <1>1, MoreConnections
<1>4. Made(t, E)
  BY <1>2, <1>3 DEF Made
<1>5. threads' = [threads EXCEPT ![p][i] = t]
  BY DEF Alters
<1> QED
  BY <1>4, <1>5, OneThreadMade

(* Nothing takes a connection out of the list.                                   *)
LEMMA ConnectionsStay ==
    ASSUME NEW p, NEW states, NEW c, NEW v
    PROVE  /\ DOMAIN Dropped(conns, p, states) = DOMAIN conns
           /\ DOMAIN WithoutProcess(conns, p) = DOMAIN conns
           /\ DOMAIN [conns EXCEPT ![c].hdr = v] = DOMAIN conns
           /\ DOMAIN [conns EXCEPT ![c].data = v] = DOMAIN conns
           /\ DOMAIN [conns EXCEPT ![c].eof = v] = DOMAIN conns
           /\ DOMAIN [conns EXCEPT ![c].state = v] = DOMAIN conns
           /\ DOMAIN Dropped([conns EXCEPT ![c].state = v], p, states) = DOMAIN conns
BY DEF Dropped, WithoutProcess

LEMMA ReleasedMade ==
    ASSUME IInv, MadeInv, NEW p \in Program, NEW ts,
           DOMAIN ts = DOMAIN threads[p],
           \A i \in Thread(p) : About(ts[i], threads[p][i]),
           threads' = [threads EXCEPT ![p] = Released(ts)],
           DOMAIN conns \subseteq DOMAIN conns'
    PROVE  MadeInv'
<1>1. /\ DOMAIN Released(ts) = DOMAIN threads[p]
      /\ \A i \in Thread(p) : About(Released(ts)[i], threads[p][i])
  <2>1. \A i \in DOMAIN ts : Released(ts)[i] \in {ts[i], [ts[i] EXCEPT !.hold = "released"]}
    BY DEF Released
  <2>2. \A x : \A s : About(x, s) => About([x EXCEPT !.hold = "released"], s)
    BY DEF About
  <2>3. DOMAIN Released(ts) = DOMAIN ts
    BY DEF Released
  <2> QED
    BY <2>1, <2>2, <2>3 DEF Thread
<1>2. \A q \in Program : threads'[q] = IF q = p THEN Released(ts) ELSE threads[q]
  BY DEF IInv
<1>3. \A s : About(s, s)
  BY DEF About
<1>4. /\ \A q \in Program : DOMAIN threads'[q] = DOMAIN threads[q]
      /\ \A q \in Program : \A i \in Thread(q) : About(threads'[q][i], threads[q][i])
  BY <1>1, <1>2, <1>3
<1> QED
  BY <1>4, ThreadsAboutSame

LEMMA ClientMade ==
    ASSUME IInv, MadeInv, NEW p \in Program, NEW i \in Thread(p), ClientStep(p, i)
    PROVE  MadeInv'
<1> USE ConnectionsStay
<1>1. CASE Connect(p, i)
  <2>1. CASE conns' = Append(conns, Connection(p)) /\ Alters(p, i, "hdr", "sock", Len(conns) + 1)
    <3>1. Len(conns) + 1 \in DOMAIN conns' /\ DOMAIN conns \subseteq DOMAIN conns'
      <4>1. Listed(conns)
        BY DEF IInv, Listed
      <4> QED
        BY <2>1, <4>1, OneMore
    <3> QED
      BY <2>1, <3>1, SocketMade
  <2>2. CASE thread_stop(p, i) /\ UNCHANGED conns
    BY <2>2, LeavingMade
  <2> QED
    BY <1>1, <2>1, <2>2 DEF Connect
<1>2. CASE InitiateServer(p, i)
  BY <1>2, AlteredMade DEF InitiateServer
<1>3. CASE Begin(p, i)
  BY <1>3, AlteredMade DEF Begin
<1>4. CASE StopWriting(p, i)
  BY <1>4, AlteredMade DEF StopWriting, tcpVars
<1>5. CASE EndClient(p, i)
  BY <1>5, EndMade DEF EndClient
<1> QED
  BY <1>1, <1>2, <1>3, <1>4, <1>5 DEF ClientStep

LEMMA ListenerMade ==
    ASSUME IInv, MadeInv, NEW p \in Program, NEW i \in Thread(p), ListenerStep(p, i)
    PROVE  MadeInv'
<1> USE ConnectionsStay
<1>1. CASE Listen(p, i)
  BY <1>1, AlteredMade DEF Listen
<1>2. CASE Accept(p, i)
  <2> PICK c : c = Min(Queue(p))
    OBVIOUS
  <2>1. c \in DOMAIN conns
    <3>1. Queue(p) \subseteq Nat /\ Queue(p) # {}
      BY <1>2 DEF Accept, Queue, IInv
    <3>2. c \in Queue(p)
      BY <3>1, LeastIndex
    <3> QED
      BY <3>2 DEF Queue
  <2>2. Alters(p, i, "check", "sock", c) /\ conns' = [conns EXCEPT ![c].state = "taken"]
    BY <1>2 DEF Accept
  <2> QED
    BY <2>1, <2>2, SocketMade
<1>3. CASE AcceptTimeout(p, i)
  <2>1. Goes(p, i, "unregister") /\ conns' = Dropped(conns, p, {"queued"})
    BY <1>3 DEF AcceptTimeout, StopListening
  <2>2. DOMAIN conns' = DOMAIN conns
    BY <2>1
  <2> QED
    BY <2>1, <2>2, GoesMade
<1>4. CASE NoInterrupt(p, i)
  BY <1>4, AlteredMade DEF NoInterrupt, tcpVars
<1>5. CASE Interrupted(p, i)
  <2> PICK c : c = threads[p][i].sock
    OBVIOUS
  <2> PICK cs : cs = [conns EXCEPT ![c].state = "queued"]
    OBVIOUS
  <2>0. conns' = Dropped(cs, p, {"queued"}) /\ DOMAIN cs = DOMAIN conns
    BY <1>5 DEF Interrupted
  <2>1. Goes(p, i, "unregister") /\ DOMAIN conns' = DOMAIN conns
    BY <1>5, <2>0 DEF Interrupted, Dropped
  <2> QED
    BY <2>1, GoesMade
<1>6. CASE AdmitGroup(p, i)
  <2>1. UNCHANGED conns
    BY <1>6 DEF AdmitGroup
  <2>2. CASE Goes(p, i, "header")
    BY <2>1, <2>2, AlteredMade
  <2>3. CASE threads' = [threads EXCEPT ![p] = Released([threads[p] EXCEPT ![i].pc = "header"])]
    <3> PICK ts : ts = [threads[p] EXCEPT ![i].pc = "header"]
      OBVIOUS
    <3>1. DOMAIN ts = DOMAIN threads[p]
      OBVIOUS
    <3>2. \A j \in Thread(p) : About(ts[j], threads[p][j])
      BY DEF About, Thread
    <3> QED
      BY <2>1, <2>3, <3>1, <3>2, ReleasedMade
  <2> QED
    BY <1>6, <2>2, <2>3 DEF AdmitGroup
<1>7. CASE Admit(p, i)
  BY <1>7, AlteredMade DEF Admit, tcpVars
<1>8. CASE TryAgain(p, i)
  <2> PICK pc : Goes(p, i, pc)
    BY <1>8 DEF TryAgain
  <2> QED
    BY <1>8, AlteredMade DEF TryAgain
<1>9. CASE ReadClientHeader(p, i)
  BY <1>9, HeaderMade
<1>10. CASE NextClient(p, i)
  <2>1. \/ Goes(p, i, "accept") /\ UNCHANGED conns
        \/ Goes(p, i, "unregister") /\ conns' = Dropped(conns, p, {"queued"})
    BY <1>10 DEF NextClient, StopListening
  <2>2. (Goes(p, i, "accept") \/ Goes(p, i, "unregister")) /\ DOMAIN conns' = DOMAIN conns
    BY <2>1 DEF Dropped
  <2> QED
    BY <2>2, GoesMade
<1>11. CASE (thread_register_nonterm(p, i) \/ thread_unregister_nonterm(p, i)) /\ UNCHANGED conns
  BY <1>11, LeavingMade
<1>12. CASE thread_run_wrapper(p, i) /\ UNCHANGED conns
  BY <1>12, EndMade
<1> QED
  BY <1>1, <1>2, <1>3, <1>4, <1>5, <1>6, <1>7, <1>8, <1>9, <1>10, <1>11, <1>12
     DEF ListenerStep, tcpVars

LEMMA ThreadStepMade ==
    ASSUME IInv, MadeInv, NEW p \in Program, NEW i \in Thread(p), ThreadStep(p, i)
    PROVE  MadeInv'
<1> USE ConnectionsStay
<1>1. CASE ServerStep(p, i)
  <2>1. CASE StopReading(p, i)
    BY <2>1, AlteredMade DEF StopReading, tcpVars
  <2>2. CASE EndServer(p, i)
    BY <2>2, EndMade DEF EndServer
  <2> QED
    BY <1>1, <2>1, <2>2 DEF ServerStep
<1>2. CASE ReporterStep(p, i)
  <2>1. UNCHANGED conns
    BY <1>2 DEF ReporterStep, ReporterPrints, ReporterFrees, ReporterIdles, ReporterWakes, tcpVars
  <2>2. ASSUME NEW j \in Thread(p), NEW rep, threads' = [threads EXCEPT ![p][j].rep = rep]
        PROVE  MadeInv'
    BY <2>1, <2>2, AlteredMade
  <2>3. CASE ReporterPrints(p, i)
    BY <2>2, <2>3 DEF ReporterPrints, Reports
  <2>4. CASE ReporterFrees(p, i)
    BY <2>2, <2>4 DEF ReporterFrees, Reports
  <2>5. CASE ReporterIdles(p, i)
    BY <2>1, <2>5, AlteredMade DEF ReporterIdles, thread_setignore
  <2>6. CASE ReporterWakes(p, i)
    BY <2>1, <2>6, AlteredMade DEF ReporterWakes, thread_unsetignore
  <2> QED
    BY <1>2, <2>3, <2>4, <2>5, <2>6 DEF ReporterStep
<1>3. CASE Wrapper(p, i)
  BY <1>3, StartMade DEF Wrapper, tcpVars
<1> QED
  BY <1>1, <1>2, <1>3, ClientMade, ListenerMade DEF ThreadStep

LEMMA NextMade == IInv /\ MadeInv /\ [Next]_vars => MadeInv'
<1> SUFFICES ASSUME IInv, MadeInv, [Next]_vars PROVE MadeInv'
  OBVIOUS
<1> USE ConnectionsStay
<1>1. CASE UNCHANGED vars
  BY <1>1, ThreadsSame DEF vars, threadVars, tcpVars
<1>2. ASSUME NEW p \in Program, Read(p) \/ JoinAll(p) PROVE MadeInv'
  BY <1>2, ThreadsSame DEF Read, JoinAll, thread_joinall, threadVars, tcpVars
<1>3. ASSUME NEW p \in Program, Alarm(p) \/ Interrupt(p) PROVE MadeInv'
  <2>1. DOMAIN conns \subseteq DOMAIN conns'
    BY <1>3 DEF Alarm, Interrupt, Signal
  <2>2. UNCHANGED threads \/ threads' = [threads EXCEPT ![p] = Released(threads[p])]
    BY <1>3 DEF Alarm, Interrupt, Signal, Sig_Interupt, thread_release_nonterm
  <2>3. \A i \in Thread(p) : About(threads[p][i], threads[p][i])
    BY DEF About
  <2> QED
    BY <2>1, <2>2, <2>3, ThreadsSame, ReleasedMade
<1>4. ASSUME NEW p \in Program, NEW i \in Thread(p), ThreadStep(p, i) PROVE MadeInv'
  BY <1>4, ThreadStepMade
<1> QED
  BY <1>1, <1>2, <1>3, <1>4, MainMade DEF Next, ProcessStep, MainStep

LEMMA InitMade == Init => MadeInv
<1> SUFFICES ASSUME Init PROVE MadeInv
  OBVIOUS
<1> PICK t : t = Settings_Copy("main", <<>>, 0)
  OBVIOUS
<1>1. threads = [p \in Program |-> <<t>>]
  BY DEF Init, ThreadsInit
<1>2. t.sock = 0 /\ t.todo = <<>> /\ t.next = <<>>
  BY DEF Settings_Copy
<1>3. \A D : Made(t, D)
  BY <1>2 DEF Made
<1>4. \A p \in Program : \A i \in Thread(p) : threads[p][i] = t
  BY <1>1 DEF Thread
<1> QED
  BY <1>3, <1>4 DEF MadeInv

--------------------------------------------------------------------------------
(* What is read of a line, and how a process ends.                               *)

LEMMA ThreadsReadNothing ==
    ASSUME NEW p \in Program, NEW i \in Thread(p), ThreadStep(p, i)
    PROVE  UNCHANGED <<line, getopt, process>>
<1> USE DEF UnchangedThreads, restVars, runVars, optionVars
<1>1. CASE ClientStep(p, i)
  BY <1>1 DEF ClientStep, Connect, InitiateServer, Begin, StopWriting, EndClient,
              thread_stop, thread_run_wrapper
<1>2. CASE ServerStep(p, i)
  BY <1>2 DEF ServerStep, StopReading, EndServer, thread_run_wrapper
<1>3. CASE ListenerStep(p, i)
  BY <1>3, Zenon DEF ListenerStep, Listen, Accept, AcceptTimeout, NoInterrupt, Interrupted, AdmitGroup,
               Admit, TryAgain, ReadClientHeader, NextClient,
               thread_register_nonterm, thread_unregister_nonterm, thread_run_wrapper
<1>4. CASE ReporterStep(p, i)
  BY <1>4 DEF ReporterStep, ReporterPrints, ReporterFrees, ReporterIdles, ReporterWakes,
              thread_setignore, thread_unsetignore
<1>5. CASE Wrapper(p, i)
  BY <1>5 DEF Wrapper, thread_start
<1> QED
  BY <1>1, <1>2, <1>3, <1>4, <1>5 DEF ThreadStep

Ends == {"running", "usage", "joined", "killed"}
TypeInv == ReadingInv /\ \A p \in Program : process[p] \in Ends

LEMMA InitTypes == Init => TypeInv
<1>1. Init => \A p \in Program : process[p] \in Ends
  BY DEF Init, ThreadsInit, Ends
<1> QED
  BY <1>1, InitReads DEF TypeInv

LEMMA NextTypes == IInv /\ TypeInv /\ [Next]_vars => TypeInv'
<1> SUFFICES ASSUME IInv, TypeInv, [Next]_vars PROVE TypeInv'
  OBVIOUS
<1> USE DEF restVars, runVars, optionVars
<1>1. CASE UNCHANGED <<line, getopt, process>>
  BY <1>1 DEF TypeInv, ReadingInv
<1>2. ASSUME NEW p \in Program, Read(p) PROVE TypeInv'
  <2>1. ReadingInv'
    BY <1>2, ReadingGoesOn DEF TypeInv
  <2>2. UNCHANGED process
    BY <1>2 DEF Read, threadVars
  <2> QED
    BY <2>1, <2>2 DEF TypeInv
<1>3. ASSUME NEW p \in Program, main(p) \/ JoinAll(p) \/ Alarm(p) \/ Interrupt(p)
      PROVE  TypeInv'
  <2>1. UNCHANGED <<line, getopt>>
    BY <1>3 DEF main, JoinAll, Alarm, Interrupt, Signal
  <2>2. \/ UNCHANGED process
        \/ \E e \in Ends : process' = [process EXCEPT ![p] = e]
    BY <1>3 DEF main, JoinAll, thread_joinall, Alarm, Interrupt, Signal, Sig_Interupt, Ends
  <2>3. \A q \in Program : process'[q] \in Ends
    BY <2>2 DEF TypeInv, IInv
  <2> QED
    BY <2>1, <2>3 DEF TypeInv, ReadingInv
<1>4. ASSUME NEW p \in Program, NEW i \in Thread(p), ThreadStep(p, i) PROVE TypeInv'
  BY <1>1, <1>4, ThreadsReadNothing
<1>5. CASE UNCHANGED vars
  BY <1>1, <1>5 DEF vars, threadVars
<1> QED
  BY <1>2, <1>3, <1>4, <1>5 DEF Next, ProcessStep, MainStep

(* No thread leaves its places, getopt never looks further than behind the last  *)
(* word of a line, and no thread uses a connection that was not made             *)
(* (gnu_getopt.c:340-734; Thread.c).                                              *)
THEOREM TypesAreKept == Spec => []TypeOK
<1>1. IInv /\ MadeInv /\ TypeInv => TypeOK
  <2> SUFFICES ASSUME IInv, MadeInv, TypeInv PROVE TypeOK
    OBVIOUS
  <2>1. ASSUME NEW p \in Program
        PROVE  /\ getopt[p].pass \in {"environment", "priority", "second", "read", "exit"}
               /\ getopt[p].pass \notin {"environment", "exit"} =>
                     getopt[p].optind \in 1 .. Len(line[p].argv) + 1
               /\ process[p] \in {"running", "usage", "joined", "killed"}
    BY DEF TypeInv, ReadingInv, Passes, Ends, InLine
  <2>2. ASSUME NEW p \in Program, NEW i \in Thread(p)
        PROVE  /\ threads[p][i].pc \in PCs /\ threads[p][i].sock \in 0 .. Len(conns)
               /\ threads[p][i].rep \in {"none", "closed", "printed", "released"}
    <3> PICK t : t = threads[p][i]
      OBVIOUS
    <3>1. t \in ThreadRecord /\ Made(t, DOMAIN conns)
      BY HereMade
    <3>2. DOMAIN conns = 1 .. Len(conns) /\ Len(conns) \in Nat
      BY DEF IInv
    <3>3. t.sock \in 0 .. Len(conns)
      BY <3>1, <3>2 DEF Made
    <3> QED
      BY <3>1, <3>3 DEF ThreadRecord
  <2>3. ASSUME NEW p \in Program PROVE nonterminating_num[p] \in 0 .. 1
    BY DEF IInv, Right
  <2>4. \A c \in DOMAIN conns : conns[c].state \in {"queued", "taken", "dropped"}
    <3>1. \A c \in DOMAIN conns : conns[c] \in Connections
      BY DEF IInv
    <3> QED
      BY <3>1 DEF Connections
  <2> QED
    BY <2>1, <2>2, <2>3, <2>4 DEF TypeOK
<1> QED
  BY <1>1, CountsAreInvariant, InitMade, NextMade, InitTypes, NextTypes, PTL DEF Spec

================================================================================

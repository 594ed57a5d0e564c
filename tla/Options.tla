-------------------------------- MODULE Options --------------------------------
(* How an iperf process comes to its settings: the environment variables, then   *)
(* the command line read twice by gnu_getopt_long, the first time for -V alone   *)
(* because -c and -B look a host up as soon as they are met (Settings.cpp,       *)
(* gnu_getopt.c).  And how settings are derived from settings when a test runs   *)
(* both ways: for the listener of the client, for the header the client sends,   *)
(* and for the client the server starts.                                         *)
(*                                                                               *)
(* A text is a sequence of tokens: <<"-","u","b","10">> is -ub10, <<"--","len",  *)
(* "=","8">> is --len=8.  What iperf reads in a text is a constant.              *)
(*                                                                               *)
(* A helper no action uses (BufLenForUDPAlways, ...) is a slip of the one that   *)
(* follows it; the README lists the property each would break.                   *)
EXTENDS Processes, Integers, FiniteSetsExt, SequencesExt

CONSTANTS
    Number,         \* Number[t]: the number a text starts with, atoi and byte_atoi
    Abbreviation,   \* Abbreviation[t]: the long options t is a proper prefix of
    MulticastHost,  \* texts that are multicast addresses
    AmountLimit     \* a header keeps an amount modulo this: 2^31

ASSUME NumberAssumption == \A t \in DOMAIN Number : Number[t] \in Nat
ASSUME LimitAssumption == AmountLimit \in Nat /\ AmountLimit > 0

VARIABLES
    line,       \* line[p]: the environment and the command line of a process
    getopt,     \* its pass over environment or command line: gnu_optind, nextchar
    settings,   \* ext_gSettings
    seen        \* history: the options Settings_Interpret was called with

optionVars == <<getopt, settings, seen>>

--------------------------------------------------------------------------------
(* The tables of options.  The value of a long option is its short form; "0" is  *)
(* what a long option returns that sets a flag of its own.                       *)
NoArgument == {"1", "d", "e", "h", "m", "r", "s", "u", "v", "z", "C", "D", "I", "N",
               "R", "U", "V", "W", "X"}
RequiredArgument == {"b", "c", "f", "i", "k", "l", "n", "o", "p", "t", "w", "x", "y",
                     "B", "F", "L", "M", "P", "S", "T", "Z"}
short_options == NoArgument \cup RequiredArgument
long_options ==
    [singleclient |-> "1", bandwidth |-> "b", client |-> "c", dualtest |-> "d",
     enhancedreports |-> "e", format |-> "f", help |-> "h", interval |-> "i", key |-> "k",
     len |-> "l", print_mss |-> "m", num |-> "n", output |-> "o", port |-> "p",
     tradeoff |-> "r", server |-> "s", time |-> "t", udp |-> "u", version |-> "v",
     window |-> "w", reportexclude |-> "x", reportstyle |-> "y", realtime |-> "z",
     bind |-> "B", compatibility |-> "C", daemon |-> "D", file_input |-> "F",
     stdin_input |-> "I", mss |-> "M", nodelay |-> "N", listenport |-> "L",
     parallel |-> "P", reverse |-> "R", tos |-> "S", ttl |-> "T", single_udp |-> "U",
     ipv6_domain |-> "V", suggest_win_size |-> "W"]
    @@ ("peer-detect" :> "X") @@ ("linux-congestion" :> "Z") @@ ("udp-counters-64bit" :> "0")
env_options == <<"V", "1", "b", "c", "d", "e", "f", "i", "k", "l", "m", "n", "p", "r", "s",
                 "t", "u", "w", "x", "y", "B", "C", "D", "F", "I", "M", "N", "L", "P", "S",
                 "T", "U", "W", "X", "Z">>

Pass == [priority |-> [short |-> {"V"}, long |-> {"ipv6_domain"}],
         second |-> [short |-> short_options, long |-> DOMAIN long_options]]

--------------------------------------------------------------------------------
(* One call of gnu_getopt_long.  The short options of the first pass start with  *)
(* a hyphen, and gnu_getopt is initialised once: in both passes it returns a     *)
(* word that is no option as option 1 and moves nothing to the end.              *)
Nothing == <<>>
Got(opt, arg, optind, nextchar) ==
    [opt |-> opt, arg |-> arg, optind |-> optind, nextchar |-> nextchar]
Bad(optind, nextchar) == Got("?", Nothing, optind, nextchar)
NoArgumentLeftSkipped(i) == Bad(i + 2, <<>>)
NoArgumentLeft(i) == Bad(i + 1, <<>>)

IsOption(text) == Head(text) \in {"-", "--"} /\ text # <<"-">>

(* The short option at the head of chars, in element i of the line a.            *)
ShortOption(a, i, chars, known) ==
    LET c == Head(chars)
        rest == Tail(chars)
        after == IF rest = <<>> THEN i + 1 ELSE i
    IN CASE c \notin known -> Bad(after, rest)
         [] c \in known \cap NoArgument -> Got(c, Nothing, after, rest)
         [] c \in known \cap RequiredArgument /\ rest # <<>> -> Got(c, rest, i + 1, <<>>)
         [] c \in known \cap RequiredArgument /\ rest = <<>> /\ i < Len(a) ->
                Got(c, a[i + 1], i + 2, <<>>)
         [] OTHER -> NoArgumentLeft(i)

(* The long options a name may stand for: itself, or those it is a prefix of.    *)
Candidates(name, known) ==
    IF name \in known THEN {name}
    ELSE IF name \in DOMAIN Abbreviation THEN Abbreviation[name] \cap known ELSE {}

LongOption(a, i, known) ==
    LET given == Len(a[i]) > 2
        found == Candidates(a[i][2], known)
        val == long_options[CHOOSE n \in found : TRUE]
        needs == val \in RequiredArgument
    IN CASE Cardinality(found) # 1 \/ (given /\ ~needs) -> Bad(i + 1, <<>>)
         [] Cardinality(found) = 1 /\ ~given /\ ~needs -> Got(val, Nothing, i + 1, <<>>)
         [] Cardinality(found) = 1 /\ given /\ needs ->
                Got(val, SubSeq(a[i], 4, Len(a[i])), i + 1, <<>>)
         [] Cardinality(found) = 1 /\ ~given /\ needs /\ i < Len(a) ->
                Got(val, a[i + 1], i + 2, <<>>)
         [] OTHER -> NoArgumentLeft(i)

EndOfOptions(optind) == Got("EOF", Nothing, optind, <<>>)
gnu_getopt_long(a, i, chars, known) ==
    CASE chars # <<>> -> ShortOption(a, i, chars, known.short)
      [] chars = <<>> /\ i > Len(a) -> EndOfOptions(i)
      [] OTHER ->
            CASE a[i] = <<"--">> -> EndOfOptions(i + 1)
              [] ~IsOption(a[i]) -> Got("word", a[i], i + 1, <<>>)
              [] Head(a[i]) = "-" /\ a[i] # <<"-">> ->
                    ShortOption(a, i, Tail(a[i]), known.short)
              [] OTHER -> LongOption(a, i, known.long)

--------------------------------------------------------------------------------
(* thread_Settings, with the bits of flags and flags_extend as a set.            *)
Settings_Initialize ==
    [threadMode |-> "Unknown", mMode |-> "Normal", flags |-> {"MODETIME", "STDOUT"},
     host |-> Nothing, localhost |-> Nothing, bindPort |-> 0, port |-> 5001,
     listenPort |-> 0, threads |-> 0, amount |-> 1000, rate |-> 0, units |-> "BW",
     bufLen |-> 128 * 1024, interval |-> 0, reportMode |-> "Default", format |-> Nothing,
     flowID |-> 0, win |-> 0, mss |-> 0, tos |-> 0, ttl |-> 1, file |-> Nothing,
     output |-> Nothing, congestion |-> Nothing]

Is(s, flag) == flag \in s.flags
Set(s, flag) == [s EXCEPT !.flags = @ \cup {flag}]
Unset(s, flag) == [s EXCEPT !.flags = @ \ {flag}]
atoi(t) == IF t \in DOMAIN Number THEN Number[t] ELSE 0
kDefault_UDPRate == 1024 * 1024
kDefault_UDPBufLen == 1470
SMALLEST_INTERVAL == 5      \* milliseconds, as interval is
ENHANCED_INTERVAL == 500

(* Options that set one flag, and options that set one field.                    *)
FlagOption == [e |-> "ENHANCEDREPORT", m |-> "PRINTMSS", z |-> "REALTIME", D |-> "DAEMON",
    N |-> "NODELAY", U |-> "SINGLEUDP", W |-> "SUGGESTWIN", X |-> "PEERVER"]
NumberOption == [k |-> "flowID", p |-> "port", w |-> "win", M |-> "mss", P |-> "threads",
                 S |-> "tos", T |-> "ttl"]
ReportFlag == [s |-> "NOSETTREPORT", c |-> "NOCONNREPORT", d |-> "NODATAREPORT",
               v |-> "NOSERVREPORT", m |-> "NOMULTREPORT"]

WithMulticast(s, host) == IF host \in MulticastHost THEN Set(s, "MULTICAST") ELSE s

(* UDP datagrams are kDefault_UDPBufLen long unless -l has been met (the second  *)
(* form; the first forgets it and is no part of the model).                      *)
BufLenForUDPAlways(s) == [s EXCEPT !.bufLen = kDefault_UDPBufLen]
BufLenForUDP(s) == IF Is(s, "BUFLENSET") THEN s ELSE [s EXCEPT !.bufLen = kDefault_UDPBufLen]

Bandwidth(s, arg) ==
    BufLenForUDP(Set([s EXCEPT !.rate = atoi(arg),
                               !.units = IF Last(arg) = "pps" THEN "PPS" ELSE "BW"], "BWSET"))
UDP(s) ==
    LET rated == IF Is(s, "BWSET") THEN s ELSE [s EXCEPT !.rate = kDefault_UDPRate]
    IN BufLenForUDP(IF Is(s, "UDP") THEN s ELSE Set(rated, "UDP"))

ClientMode(s, arg) ==
    LET hosted == [s EXCEPT !.host = arg]
    IN IF s.threadMode # "Unknown" THEN hosted
       ELSE WithMulticast([hosted EXCEPT !.threadMode = "Client", !.threads = 1], arg)
ServerMode(s) == IF s.threadMode = "Unknown" THEN [s EXCEPT !.threadMode = "Listener"] ELSE s

(* -d and -r after -C only warn; -C after them undoes them.                      *)
TestMode(s, mode) == IF s.threadMode = "Client" THEN [s EXCEPT !.mMode = mode] ELSE s
Compatibility(s) == [Set(s, "COMPAT") EXCEPT !.mMode = "Normal"]

Interval(s, arg) ==
    LET n == IF atoi(arg) < SMALLEST_INTERVAL THEN SMALLEST_INTERVAL ELSE atoi(arg)
    IN IF arg \notin DOMAIN Number THEN [s EXCEPT !.interval = 0]
       ELSE [s EXCEPT !.interval = n,
                      !.flags = @ \cup {f \in {"ENHANCEDREPORT"} : n < ENHANCED_INTERVAL}]
Amount(s, arg) == Unset([s EXCEPT !.amount = atoi(arg)], "MODETIME")
Time(s, arg) == Set(Set([s EXCEPT !.amount = atoi(arg)], "MODETIME"), "SERVERMODETIME")
Length(s, arg) == Set([s EXCEPT !.bufLen = atoi(arg)], "BUFLENSET")

(* A client may bind to a port as well: host:port, or [host]:port for IPv6.      *)
Bind(s, arg) ==
    LET v6 == Is(s, "DOMAIN")
        at == IF v6 THEN 4 ELSE 2
        name == IF v6 THEN <<arg[2]>> ELSE <<arg[1]>>
        split == s.threadMode = "Client" /\ (~v6 \/ arg[1] = "[")
        bound == IF ~split THEN [s EXCEPT !.localhost = arg]
                 ELSE [s EXCEPT !.localhost = name,
                                !.bindPort = IF Len(arg) > at THEN atoi(<<arg[at + 1]>>) ELSE @]
    IN WithMulticast(bound, bound.localhost)

IPv6Domain(s) ==
    IF s.threadMode = "Client" THEN WithMulticast(Set(s, "DOMAIN"), s.host) ELSE Set(s, "DOMAIN")

FileInput(s, arg) ==
    IF s.threadMode = "Client" THEN Set([s EXCEPT !.file = arg], "FILEINPUT") ELSE s
StdinInput(s) ==
    IF s.threadMode = "Client" THEN Set(FileInput(s, <<"<stdin>">>), "STDIN") ELSE s
ListenPort(s, arg) ==
    IF s.threadMode = "Client" THEN [s EXCEPT !.listenPort = atoi(arg)] ELSE s

(* Options after which iperf prints something and leaves.                        *)
Exits(opt, arg) == opt \in {"h", "v", "R"} \/ (opt = "b" /\ arg \notin DOMAIN Number)

Settings_Interpret(s, opt, arg) ==
    CASE opt \in DOMAIN FlagOption -> Set(s, FlagOption[opt])
      [] opt = "0" -> Set(s, "SEQNO64")
      [] opt = "1" -> Set(s, "SINGLECLIENT")
      [] opt \in DOMAIN NumberOption -> [s EXCEPT ![NumberOption[opt]] = atoi(arg)]
      [] opt = "b" -> Bandwidth(s, arg)
      [] opt = "c" -> ClientMode(s, arg)
      [] opt = "d" -> TestMode(s, "DualTest")
      [] opt = "f" -> [s EXCEPT !.format = arg]
      [] opt = "i" -> Interval(s, arg)
      [] opt = "l" -> Length(s, arg)
      [] opt = "n" -> Amount(s, arg)
      [] opt = "o" -> Unset([s EXCEPT !.output = arg], "STDOUT")
      [] opt = "r" -> TestMode(s, "TradeOff")
      [] opt = "s" -> ServerMode(s)
      [] opt = "t" -> Time(s, arg)
      [] opt = "u" -> UDP(s)
      [] opt = "x" ->
            [s EXCEPT !.flags = @ \cup {ReportFlag[c] : c \in ToSet(arg) \cap DOMAIN ReportFlag}]
      [] opt = "y" -> [s EXCEPT !.reportMode = IF arg[1] = "c" THEN "CSV" ELSE @]
      [] opt = "B" -> Bind(s, arg)
      [] opt = "C" -> Compatibility(s)
      [] opt = "F" -> FileInput(s, arg)
      [] opt = "I" -> StdinInput(s)
      [] opt = "L" -> ListenPort(s, arg)
      [] opt = "V" -> IPv6Domain(s)
      [] opt = "Z" -> Set([s EXCEPT !.congestion = arg], "CONGESTION")
      [] OTHER -> s

--------------------------------------------------------------------------------
OptionsInit(given) ==
    /\ line = given
    /\ getopt = [p \in Program |-> [pass |-> "environment", optind |-> 1, nextchar |-> <<>>]]
    /\ settings = [p \in Program |-> Settings_Initialize]
    /\ seen = [p \in Program |-> <<>>]

(* An option takes effect.                                                       *)
Interpreted(p, o) ==
    /\ settings' = [settings EXCEPT ![p] = Settings_Interpret(@, o.opt, o.arg)]
    /\ seen' = [seen EXCEPT ![p] = Append(@, <<o.opt, o.arg>>)]
    /\ getopt' = [getopt EXCEPT ![p] =
          [pass |-> IF Exits(o.opt, o.arg) THEN "exit" ELSE @.pass,
           optind |-> o.optind, nextchar |-> o.nextchar]]

(* The next environment variable that is set, in the order of the table.         *)
Settings_ParseEnvironment(p) ==
    LET given == SelectSeq(env_options, LAMBDA o : o \in DOMAIN line[p].env)
        i == getopt[p].optind
    IN /\ getopt[p].pass = "environment"
       /\ \/ /\ i > Len(given)
             /\ getopt' = [getopt EXCEPT ![p] =
                    [pass |-> "priority", optind |-> 1, nextchar |-> <<>>]]
             /\ UNCHANGED <<settings, seen>>
          \/ /\ i <= Len(given)
             /\ Interpreted(p, Got(given[i], line[p].env[given[i]], i + 1, <<>>))

(* One option of a pass.  After the first pass gnu_optind is set back.           *)
NextOption(p) ==
    gnu_getopt_long(line[p].argv, getopt[p].optind, getopt[p].nextchar, Pass[getopt[p].pass])

PriorityOption(p) ==
    LET o == NextOption(p)
    IN /\ getopt[p].pass = "priority"
       /\ \/ /\ o.opt = "EOF"
             /\ getopt' = [getopt EXCEPT ![p] =
                    [pass |-> "second", optind |-> 1, nextchar |-> <<>>]]
             /\ UNCHANGED <<settings, seen>>
          \/ /\ o.opt = "?"
             /\ getopt' = [getopt EXCEPT ![p].optind = o.optind, ![p].nextchar = o.nextchar]
             /\ UNCHANGED <<settings, seen>>
          \/ o.opt \notin {"EOF", "?"} /\ Interpreted(p, o)

SecondOption(p) ==
    LET o == NextOption(p)
    IN /\ getopt[p].pass = "second"
       /\ \/ /\ o.opt = "EOF"
             /\ getopt' = [getopt EXCEPT ![p] =
                    [pass |-> "read", optind |-> o.optind, nextchar |-> <<>>]]
             /\ UNCHANGED <<settings, seen>>
          \/ o.opt # "EOF" /\ Interpreted(p, o)

Settings_ParseCommandLine(p) == PriorityOption(p) \/ SecondOption(p)
HasRead(p) == getopt[p].pass \in {"read", "exit"}

--------------------------------------------------------------------------------
(* Settings derived from settings.                                               *)
RunsBothWays(s) == s.mMode \in {"DualTest", "TradeOff"}

(* The listener a client starts for the test that comes back.                    *)
PortOfServer(client) == client.port
PortToComeBackTo(client) == IF client.listenPort # 0 THEN client.listenPort ELSE client.port
NeedsListener(client) == ~Is(client, "COMPAT") /\ RunsBothWays(client)
Settings_GenerateListenerSettings(client) ==
    [client EXCEPT !.flags = (@ \cup {"COMPAT"}) \ {"DAEMON"},
                   !.port = IF client.listenPort # 0 THEN client.listenPort ELSE client.port,
                   !.amount = IF client.mMode = "TradeOff" THEN 2 * client.amount ELSE @,
                   !.file = Nothing, !.output = Nothing,
                   !.mMode = "Normal", !.threadMode = "Listener"]

(* The header: the amount is negative for a time.  Without HEADER_VERSION1 its   *)
(* base holds the pattern of the buffer, and nobody reads it.  The rate is sent  *)
(* when the user did not set it.                                                 *)
Settings_GenerateClientHdr(client) ==
    [flags |-> {f \in {"EXTEND", "VERSION1", "RUN_NOW"} :
                   \/ f = "EXTEND" /\ Is(client, "PEERVER")
                   \/ f = "VERSION1" /\ RunsBothWays(client)
                   \/ f = "RUN_NOW" /\ client.mMode = "DualTest"},
     bufferlen |-> IF Is(client, "BUFLENSET") THEN client.bufLen ELSE 0,
     port |-> PortToComeBackTo(client),
     numThreads |-> client.threads,
     amount |-> IF Is(client, "MODETIME") THEN -client.amount ELSE client.amount % AmountLimit,
     flowID |-> client.flowID,
     rate |-> IF Is(client, "BWSET") THEN -1 ELSE client.rate,   \* -1: what was in the buffer
     units |-> client.units]

(* The client a server starts when a header asks for a test back.  MODETIME is   *)
(* set for a negative amount; for a positive one it stays as the server has it.  *)
AsksForTest(hdr) == "VERSION1" \in hdr.flags
Settings_GenerateClientSettings(server, peer, hdr) ==
    LET rated == "EXTEND" \in hdr.flags /\ ~Is(server, "BWSET")
    IN [server EXCEPT
          !.flags = @ \cup {"COMPAT"} \cup {f \in {"MODETIME"} : hdr.amount < 0},
          !.port = hdr.port, !.threads = 1, !.flowID = hdr.flowID,
          !.bufLen = IF hdr.bufferlen # 0 THEN hdr.bufferlen ELSE @,
          !.amount = IF hdr.amount < 0 THEN -hdr.amount ELSE hdr.amount,
          !.file = Nothing, !.output = Nothing,
          !.mMode = IF "RUN_NOW" \in hdr.flags THEN "DualTest" ELSE "TradeOff",
          !.threadMode = "Client",
          !.rate = IF rated THEN hdr.rate ELSE @,
          !.units = IF rated THEN hdr.units ELSE @,
          !.host = peer]

--------------------------------------------------------------------------------
(* What a command line asks for, said of all the options together: h is the      *)
(* options in the order they were met, one after another.                        *)
Meant(h, opts) == {i \in DOMAIN h : h[i][1] \in opts}
LastMeant(h, opts) == h[Max(Meant(h, opts))]
FirstMeant(h, opts) == h[Min(Meant(h, opts))]

(* The first of -c and -s decides whether the process is a client.               *)
ModeFollows(s, h) ==
    s.threadMode = IF Meant(h, {"c", "s"}) = {} THEN "Unknown"
                   ELSE IF FirstMeant(h, {"c", "s"})[1] = "c" THEN "Client" ELSE "Listener"
(* A test that comes back is the last one asked for, and -C takes it back.       *)
TestFollows(s, h) ==
    RunsBothWays(s) =>
        /\ Meant(h, {"d", "r", "C"}) # {}
        /\ LastMeant(h, {"d", "r", "C"})[1] = (IF s.mMode = "DualTest" THEN "d" ELSE "r")
AmountFollows(s, h) ==
    IF Meant(h, {"t", "n"}) = {} THEN Is(s, "MODETIME") /\ s.amount = 1000
    ELSE LET o == LastMeant(h, {"t", "n"})
         IN (Is(s, "MODETIME") <=> o[1] = "t") /\ s.amount = atoi(o[2])
LengthFollows(s, h) ==
    s.bufLen = IF Meant(h, {"l"}) # {} THEN atoi(LastMeant(h, {"l"})[2])
               ELSE IF Meant(h, {"u", "b"}) # {} THEN kDefault_UDPBufLen ELSE 128 * 1024
RateFollows(s, h) ==
    s.rate = IF Meant(h, {"b"}) # {} THEN atoi(LastMeant(h, {"b"})[2])
             ELSE IF Meant(h, {"u"}) # {} THEN kDefault_UDPRate ELSE 0
FollowsLine(s, h) ==
    /\ ModeFollows(s, h) /\ TestFollows(s, h) /\ AmountFollows(s, h)
    /\ LengthFollows(s, h) /\ RateFollows(s, h)

(* Whether the test is for a time or an amount, and which, how long a buffer is  *)
(* and how fast it is sent, does not depend on the order in which -t and -n, -l, *)
(* -u and -b are given, but for the last of each kind (Settings_Interpret: "if   *)
(* -l has already been processed"); the first of -c and -s decides whether the   *)
(* process is a client (Settings.cpp:390-405, 494-501).                          *)
SettingsFollowTheLine ==
    \A p \in Program : getopt[p].pass = "read" => FollowsLine(settings[p], seen[p])
================================================================================

---------------------------- MODULE StartupProofs ----------------------------
(***************************************************************************)
(* Theorems about Startup, with Configuration and Network: for any file    *)
(* and any number of interfaces and addresses.                             *)
(***************************************************************************)
EXTENDS Startup, Lemmas, FiniteSetTheorems

-----------------------------------------------------------------------------
(* The table of a process: the lowest free number is free, and what opening and closing *)
(* do to the descriptors of each use. *)

\* There is a lowest free descriptor, and it is free.
LEMMA LowestFree ==
  ASSUME NEW table, DOMAIN table \subseteq Nat, IsFiniteSet(DOMAIN table)
  PROVE  Lowest(table) \in Nat /\ Lowest(table) \notin DOMAIN table
<1> DEFINE D == DOMAIN table
           n == Cardinality(D)
           Free == (0 .. n) \ D
<1>1. n \in Nat
  BY FS_CardinalityType
<1>2. Free # {}
  <2> SUFFICES ASSUME 0 .. n \subseteq D PROVE FALSE
    OBVIOUS
  <2>1. Cardinality(0 .. n) = n + 1
    BY <1>1, FS_Interval
  <2>2. Cardinality(0 .. n) <= Cardinality(D)
    BY FS_Subset
  <2> QED BY <1>1, <2>1, <2>2
<1>3. Free \subseteq Nat
  OBVIOUS
<1>4. PICK fd \in Free : \A other \in Free : fd <= other
  BY <1>2, <1>3, LeastNatural
<1>5. /\ fd \in 0 .. n /\ fd \notin D
      /\ \A other \in 0 .. fd - 1 : other \in D
  BY <1>1, <1>4
<1>6. Lowest(table) \in 0 .. n /\ Lowest(table) \notin D
  <2> HIDE DEF D, n
  <2>1. \E x \in 0 .. n : x \notin D /\ \A other \in 0 .. x - 1 : other \in D
    BY <1>5
  <2>2. Lowest(table) = CHOOSE x \in 0 .. n : x \notin D /\ \A other \in 0 .. x - 1 : other \in D
    BY Zenon DEF Lowest, D, n
  <2> QED BY <2>1, <2>2, Zenon
<1> QED BY <1>1, <1>6

\* A table of descriptors.
Proper(table) == Table(table) /\ IsFiniteSet(DOMAIN table)

\* Opening takes one free descriptor, for one use.
LEMMA OpenedTable ==
  ASSUME NEW table, Proper(table), NEW use \in Uses
  PROVE  /\ Proper(Opened(table, use))
         /\ DOMAIN Opened(table, use) = DOMAIN table \cup {Lowest(table)}
         /\ Lowest(table) \in Nat /\ Lowest(table) \notin DOMAIN table
         /\ UsedFor(Opened(table, use), use) = UsedFor(table, use) \cup {Lowest(table)}
         /\ \A other \in Uses \ {use} :
               UsedFor(Opened(table, use), other) = UsedFor(table, other)
<1>1. Lowest(table) \in Nat /\ Lowest(table) \notin DOMAIN table
  BY LowestFree DEF Proper, Table
<1>2. DOMAIN Opened(table, use) = DOMAIN table \cup {Lowest(table)}
  BY DEF Opened
<1>3. /\ Opened(table, use)[Lowest(table)] = use
      /\ \A fd \in DOMAIN table : Opened(table, use)[fd] = table[fd]
  BY <1>1 DEF Opened
<1>4. IsFiniteSet(DOMAIN table \cup {Lowest(table)})
  BY FS_AddElement DEF Proper
<1>5. Proper(Opened(table, use))
  BY <1>1, <1>2, <1>3, <1>4 DEF Proper, Table
<1>6. UsedFor(Opened(table, use), use) = UsedFor(table, use) \cup {Lowest(table)}
  BY <1>1, <1>2, <1>3 DEF UsedFor
<1>7. ASSUME NEW other \in Uses \ {use}
      PROVE  UsedFor(Opened(table, use), other) = UsedFor(table, other)
  BY <1>1, <1>2, <1>3 DEF UsedFor
<1> QED BY <1>1, <1>2, <1>5, <1>6, <1>7

\* Closing takes descriptors away and nothing else.
LEMMA ClosedTable ==
  ASSUME NEW table, Proper(table), NEW closing
  PROVE  /\ Proper(Closed(table, closing))
         /\ DOMAIN Closed(table, closing) = DOMAIN table \ closing
<1>1. /\ DOMAIN Closed(table, closing) = DOMAIN table \ closing
      /\ \A fd \in DOMAIN table \ closing : Closed(table, closing)[fd] = table[fd]
  BY DEF Closed
<1>2. IsFiniteSet(DOMAIN table \ closing)
  BY FS_Difference DEF Proper
<1>3. Proper(Closed(table, closing))
  BY <1>1, <1>2 DEF Proper, Table
<1> QED BY <1>1, <1>3

\* What stays open for a use when some descriptors are closed.
LEMMA ClosedUses ==
  ASSUME NEW table, NEW closing, NEW use
  PROVE  UsedFor(Closed(table, closing), use) = UsedFor(table, use) \ closing
  BY DEF UsedFor, Closed

\* What is open for a use, and when a close hits nothing else.
LEMMA UsesOfOpen ==
  ASSUME NEW table, NEW use
  PROVE  /\ HasOpen(table, use) <=> UsedFor(table, use) # {}
         /\ UsedFor(table, use) \subseteq DOMAIN table
         /\ \A closing : closing \cap DOMAIN table \subseteq UsedFor(table, use) =>
                            ~Misfits(table, closing, use)
  BY DEF HasOpen, UsedFor, Misfits

-----------------------------------------------------------------------------
(* Texts and settings. *)

\* A text that was cut is no longer than its field.
LEMMA CutText ==
  ASSUME NEW text \in Seq(STRING)
  PROVE  /\ Cut(text) \in Seq(STRING)
         /\ Len(Cut(text)) <= MaxString
         /\ text # <<>> => Len(Cut(text)) > 0
<1>1. PICK n : n = IF Len(text) > MaxString THEN MaxString ELSE Len(text)
  OBVIOUS
<1>2. n \in Nat /\ n <= Len(text) /\ n <= MaxString /\ (text # <<>> => n > 0)
  BY <1>1, ConfigurationAssumption
<1>3. Cut(text) = SubSeq(text, 1, n)
  BY <1>1 DEF Cut
<1>4. SubSeq(text, 1, n) \in Seq(STRING) /\ Len(SubSeq(text, 1, n)) = n
  BY <1>2
<1> QED BY <1>2, <1>3, <1>4

\* A text copied over an older one still fits, and is not empty.
LEMMA OverText ==
  ASSUME NEW old \in Seq(STRING), NEW text \in Seq(STRING)
  PROVE  /\ Over(old, text) \in Seq(STRING)
         /\ Len(old) <= MaxString => Len(Over(old, text)) <= MaxString
         /\ text # <<>> => Over(old, text) # <<>>
<1>1. PICK c, d : c = Cut(text) /\ d = SubSeq(old, Len(c) + 1, Len(old))
  OBVIOUS
<1>2. c \in Seq(STRING) /\ Len(c) <= MaxString /\ (text # <<>> => Len(c) > 0)
  BY <1>1, CutText
<1>3. /\ d \in Seq(STRING)
      /\ Len(d) = IF Len(c) <= Len(old) THEN Len(old) - Len(c) ELSE 0
  BY <1>1, <1>2
<1>4. Over(old, text) = c \o d
  BY <1>1 DEF Over
<1>5. c \o d \in Seq(STRING) /\ Len(c \o d) = Len(c) + Len(d)
  <2>1. c \in Seq(STRING) /\ d \in Seq(STRING)
    BY <1>2, <1>3
  <2> QED BY <2>1
<1>6. Len(old) <= MaxString => Len(c) + Len(d) <= MaxString
  BY <1>2, <1>3, ConfigurationAssumption
<1>7. text # <<>> => c \o d # <<>>
  BY <1>2, <1>3, <1>5
<1> QED BY <1>4, <1>5, <1>6, <1>7

\* The types of the fields of a line.
LEMMA LineTypes ==
  ASSUME NEW line \in Lines
  PROVE  /\ line.type = "section" => line.name \in Seq(STRING)
         /\ line.type = "setting" => line.text \in Seq(STRING) /\ line.number \in Int
<1>1. LineType(line)
  BY ConfigurationAssumption
<1> QED BY <1>1 DEF LineType

\* The value of a setting has the type of its field.
LEMMA SettingType ==
  ASSUME ConfTypeOK, NEW line \in Lines, IsSetting(line), line.key \in Keys
  PROVE  /\ line.key \in StringKeys =>
               Setting(line) \in Seq(STRING) /\ Len(Setting(line)) <= MaxString
         /\ line.key \in BoolKeys => Setting(line) \in BOOLEAN
         /\ line.key \in IntKeys => Setting(line) \in Int
         /\ line.key = "log_type" => Setting(line) \in {"console", "file"}
         /\ line.key = "buffer_size" => Setting(line) <= MaxBuffer
<1>1. line.text \in Seq(STRING) /\ line.number \in Int
  BY LineTypes DEF IsSetting
<1>2. CASE line.key \in StringKeys
  <2>1. Setting(line) = Over(config[line.key], line.text)
    BY <1>2 DEF Setting, StringKeys, BoolKeys
  <2>2. config[line.key] \in Seq(STRING) /\ Len(config[line.key]) <= MaxString
    BY <1>2 DEF ConfTypeOK
  <2>3. Over(config[line.key], line.text) \in Seq(STRING)
        /\ Len(Over(config[line.key], line.text)) <= MaxString
    BY <1>1, <2>2, OverText
  <2> QED BY <1>2, <2>1, <2>3 DEF StringKeys, BoolKeys, IntKeys
<1>3. CASE line.key \in BoolKeys
  <2>1. Setting(line) = AsBool(line.text)
    BY <1>3 DEF Setting, StringKeys, BoolKeys
  <2> QED BY <1>3, <2>1 DEF AsBool, StringKeys, BoolKeys, IntKeys
<1>4. CASE line.key = "log_type"
  <2>1. Setting(line) = AsLoggingType(line.text)
    BY <1>4 DEF Setting, StringKeys, BoolKeys
  <2> QED BY <1>4, <2>1 DEF AsLoggingType, StringKeys, BoolKeys, IntKeys
<1>5. CASE line.key = "buffer_size"
  <2>1. Setting(line) = AsBufferSize(line.number)
    BY <1>5 DEF Setting, StringKeys, BoolKeys
  <2>2. AsBufferSize(line.number) \in Int /\ AsBufferSize(line.number) <= MaxBuffer
    BY <1>1, ConfigurationAssumption DEF AsBufferSize
  <2> QED BY <1>5, <2>1, <2>2 DEF StringKeys, BoolKeys, IntKeys
<1>6. CASE line.key \in {"port", "backlog"}
  <2>1. Setting(line) = line.number
    BY <1>6 DEF Setting, StringKeys, BoolKeys
  <2> QED BY <1>1, <1>6, <2>1 DEF StringKeys, BoolKeys, IntKeys
<1> QED BY <1>2, <1>3, <1>4, <1>5, <1>6 DEF Keys, IntKeys

-----------------------------------------------------------------------------
(* The configuration. *)

\* The empty server is a server without a name.
LEMMA NoServerType == NoServer \in Server /\ NoServer.name = <<>>
  BY DEF NoServer, Server

\* A server that is given a name is a server of that name.
LEMMA NewServerType ==
  ASSUME NEW other \in Server, NEW name \in Seq(STRING)
  PROVE  /\ [other EXCEPT !.name = name] \in Server
         /\ [other EXCEPT !.name = name].name = name
  BY DEF Server

\* The configuration begins with its types and its invariant.
LEMMA ConfTypeInit == ConfInit => ConfTypeOK /\ ConfInv
<1> SUFFICES ASSUME ConfInit PROVE ConfTypeOK /\ ConfInv
  OBVIOUS
<1>1. config = Defaults /\ DOMAIN Defaults = Keys
  BY DEF ConfInit, Defaults
<1>2. ASSUME NEW key \in StringKeys PROVE config[key] = <<>>
  BY <1>1, <1>2 DEF Defaults, Keys, StringKeys, BoolKeys
<1>3. ASSUME NEW key \in BoolKeys PROVE config[key] \in BOOLEAN
  BY <1>1, <1>3 DEF Defaults, Keys, StringKeys, BoolKeys
<1>4. /\ config["log_type"] = "console" /\ config["buffer_size"] = MaxBuffer
      /\ config["backlog"] = -1 /\ config["port"] = 0
  BY <1>1 DEF Defaults, Keys, StringKeys, BoolKeys, IntKeys
<1>5. /\ MaxBuffer \in Int /\ MaxBuffer <= MaxBuffer /\ MaxString >= 0
      /\ srv \in Server /\ server = NoServer
  BY ConfigurationAssumption DEF ConfInit
<1>6. ConfTypeOK
  <2>1. ASSUME NEW key \in StringKeys
        PROVE  config[key] \in Seq(STRING) /\ Len(config[key]) <= MaxString
    <3>1. config[key] = <<>>
      BY <1>2
    <3> QED BY <1>5, <3>1
  <2>2. \A key \in IntKeys : config[key] \in Int
    BY <1>4, <1>5 DEF IntKeys
  <2>3. section \in Seq(STRING) /\ server \in Server
    BY <1>5, NoServerType DEF ConfInit
  <2>4. origin = "none" /\ unnamed \in BOOLEAN /\ idx_server \in -1 .. 1
    <3>1. idx_server = -1
      BY DEF ConfInit
    <3>2. origin = "none" /\ unnamed \in BOOLEAN
      BY Zenon DEF ConfInit
    <3> QED BY <3>1, <3>2
  <2>5. DOMAIN config = Keys
    BY <1>1
  <2> QED BY <1>3, <1>4, <1>5, <2>1, <2>2, <2>3, <2>4, <2>5 DEF ConfTypeOK
<1>7. ConfInv
  BY <1>4, <1>5 DEF ConfInit, ConfInv, Accepted
<1> QED BY <1>6, <1>7

\* Every line that is read keeps the types and the invariant of the configuration.
LEMMA ConfStep ==
  ASSUME ConfTypeOK, ConfInv, ReadConfiguration
  PROVE  ConfTypeOK' /\ ConfInv'
<1>1. CASE NoConfiguration \/ ValidateFails
  BY <1>1 DEF NoConfiguration, ValidateFails, confVars, ConfTypeOK, ConfInv, Accepted
<1>2. ASSUME NEW line \in Lines, ReadSection(line) PROVE ConfTypeOK' /\ ConfInv'
  <2>1. line.name \in Seq(STRING)
    BY <1>2, LineTypes DEF ReadSection
  <2>2. section' \in Seq(STRING) /\ UNCHANGED config /\ stage = "read"
    BY <1>2, <2>1, CutText DEF ReadSection
  <2>3. CASE section' = MainSection
    BY <1>2, <2>2, <2>3 DEF ReadSection, ConfTypeOK, ConfInv, Accepted
  <2>4. CASE section' # MainSection
    <3>1. /\ idx_server' = idx_server + 1
          /\ stage' = IF idx_server = -1 THEN "read" ELSE "exited"
          /\ server' = IF idx_server = -1 THEN srv ELSE server
          /\ origin' \in {"stack", origin}
          /\ srv' = [NoServer EXCEPT !.name = section']
          /\ unnamed' = (unnamed \/ section' = <<>>)
      BY <1>2, <2>4 DEF ReadSection
    <3>2. srv' \in Server /\ srv'.name = section'
      BY <2>2, <3>1, NoServerType, NewServerType, Zenon
    <3>3. idx_server' \in -1 .. 1 /\ (idx_server = -1 => idx_server' = 0)
      BY <2>2, <3>1 DEF ConfInv
    <3>4. ConfTypeOK'
      BY <2>2, <3>1, <3>2, <3>3 DEF ConfTypeOK
    <3>5. ConfInv'
      <4>1. stage' \in {"read", "exited"} /\ (stage' = "read" => idx_server' = 0)
        BY <3>1, <3>3
      <4>2. unnamed' \/ srv'.name # <<>>
        BY <3>1, <3>2
      <4>3. config'["buffer_size"] <= MaxBuffer
        BY <2>2 DEF ConfInv
      <4> QED BY <4>1, <4>2, <4>3 DEF ConfInv, Accepted
    <3> QED BY <3>4, <3>5
  <2> QED BY <2>3, <2>4
<1>3. ASSUME NEW line \in Lines, ReadMain(line) PROVE ConfTypeOK' /\ ConfInv'
  <2>1. /\ IsSetting(line) /\ line.key \in Keys
        /\ config' = [config EXCEPT ![line.key] = Setting(line)]
        /\ UNCHANGED <<stage, section, idx_server, srv, server, origin, unnamed>>
    BY <1>3 DEF ReadMain
  <2>2. /\ DOMAIN config' = Keys /\ config'[line.key] = Setting(line)
        /\ \A key \in Keys : key # line.key => config'[key] = config[key]
    BY <2>1 DEF ConfTypeOK
  <2>3. ASSUME NEW key \in StringKeys
        PROVE  config'[key] \in Seq(STRING) /\ Len(config'[key]) <= MaxString
    BY <2>1, <2>2, SettingType DEF ConfTypeOK, Keys
  <2>4. \A key \in BoolKeys : config'[key] \in BOOLEAN
    BY <2>1, <2>2, SettingType DEF ConfTypeOK, Keys
  <2>5. \A key \in IntKeys : config'[key] \in Int
    BY <2>1, <2>2, SettingType DEF ConfTypeOK, Keys
  <2>6. config'["log_type"] \in {"console", "file"} /\ config'["buffer_size"] <= MaxBuffer
    BY <2>1, <2>2, SettingType DEF ConfTypeOK, ConfInv, Keys, IntKeys
  <2> QED BY <2>1, <2>2, <2>3, <2>4, <2>5, <2>6 DEF ConfTypeOK, ConfInv, Accepted
<1>4. ASSUME NEW line \in Lines, ReadServer(line) PROVE ConfTypeOK' /\ ConfInv'
  <2>1. /\ section # <<>> /\ section \in Seq(STRING) /\ stage = "read"
        /\ UNCHANGED <<stage, section, idx_server, config, server, origin, unnamed>>
    BY <1>4 DEF ReadServer, IsSetting, ConfTypeOK
  <2>2. line.text \in Seq(STRING) /\ line.number \in Int
    BY <1>4, LineTypes DEF ReadServer, IsSetting
  <2>3. srv.name \in Seq(STRING) /\ srv.host \in Seq(STRING) /\ srv.port \in Int
    BY DEF ConfTypeOK, Server
  <2>4. /\ Over(srv.name, section) \in Seq(STRING) /\ Over(srv.name, section) # <<>>
        /\ Over(srv.host, line.text) \in Seq(STRING)
    BY <2>1, <2>2, <2>3, OverText
  <2>5. /\ srv' = [srv EXCEPT !.name = Over(srv.name, section),
                              !.host = Over(srv.host, line.text)]
           \/ srv' = [srv EXCEPT !.name = Over(srv.name, section), !.port = line.number]
    BY <1>4 DEF ReadServer
  <2>6. srv' \in Server /\ srv'.name = Over(srv.name, section)
    BY <2>2, <2>4, <2>5 DEF ConfTypeOK, Server
  <2> QED BY <2>1, <2>4, <2>6 DEF ConfTypeOK, ConfInv, Accepted
<1>5. CASE EndOfFile
  <2>1. /\ stage = "read" /\ stage' = "validate" /\ section' = <<>> /\ idx_server' = -1
        /\ srv' = NoServer /\ UNCHANGED <<config, unnamed>>
        /\ \/ idx_server # -1 /\ srv.name # <<>> /\ server' = srv /\ origin' = "file"
           \/ ~(idx_server # -1 /\ srv.name # <<>>) /\ UNCHANGED <<server, origin>>
    BY <1>5 DEF EndOfFile
  <2>2. section' \in Seq(STRING) /\ idx_server' \in -1 .. 1
    BY <2>1
  <2>3. ConfTypeOK'
    BY <2>1, <2>2, NoServerType DEF ConfTypeOK
  <2> QED BY <2>1, <2>3 DEF ConfInv, Accepted
<1>6. CASE Validate
  <2>1. /\ stage = "validate" /\ stage' = "daemon" /\ server.name # <<>>
        /\ config' = [config EXCEPT !["backlog"] = IF @ <= 0 THEN 4 ELSE @]
        /\ UNCHANGED <<section, idx_server, srv, server, origin, unnamed>>
    BY <1>6 DEF Validate, Valid
  <2>2. /\ DOMAIN config' = Keys /\ config'["backlog"] \in Int
        /\ \A key \in Keys : key # "backlog" => config'[key] = config[key]
    BY <2>1 DEF ConfTypeOK, IntKeys
  <2>3. \A key \in Keys \ IntKeys : config'[key] = config[key]
    BY <2>2 DEF IntKeys
  <2>4. \A key \in IntKeys : config'[key] \in Int
    BY <2>2 DEF ConfTypeOK, IntKeys, Keys
  <2>5. config'["buffer_size"] = config["buffer_size"] /\ config'["log_type"] = config["log_type"]
    BY <2>2 DEF Keys, IntKeys
  <2>6. /\ \A key \in StringKeys : config'[key] = config[key]
        /\ \A key \in BoolKeys : config'[key] = config[key]
    BY <2>3 DEF Keys, StringKeys, BoolKeys, IntKeys
  <2>7. ConfTypeOK'
    BY <2>1, <2>2, <2>4, <2>5, <2>6 DEF ConfTypeOK
  <2> QED BY <2>1, <2>5, <2>7, NoServerType DEF ConfInv, Accepted
<1> QED BY <1>1, <1>2, <1>3, <1>4, <1>5, <1>6 DEF ReadConfiguration

-----------------------------------------------------------------------------
(* Sequences of descriptors. *)

\* The descriptors of an array with one more element.
LEMMA AppendFds ==
  ASSUME NEW s \in Seq(Nat), NEW fd \in Nat
  PROVE  /\ Append(s, fd) \in Seq(Nat)
         /\ FdsOf(Append(s, fd)) = FdsOf(s) \cup {fd}
         /\ Distinct(s) /\ fd \notin FdsOf(s) => Distinct(Append(s, fd))
<1>1. /\ Append(s, fd) \in Seq(Nat) /\ Len(s) \in Nat
      /\ DOMAIN s = 1 .. Len(s) /\ DOMAIN Append(s, fd) = 1 .. Len(s) + 1
      /\ \A i \in 1 .. Len(s) : Append(s, fd)[i] = s[i]
      /\ Append(s, fd)[Len(s) + 1] = fd
  OBVIOUS
<1>2. 1 .. Len(s) + 1 = (1 .. Len(s)) \cup {Len(s) + 1}
  BY <1>1
<1>3. FdsOf(Append(s, fd)) = FdsOf(s) \cup {fd}
  BY <1>1, <1>2 DEF FdsOf
<1>4. Distinct(s) /\ fd \notin FdsOf(s) => Distinct(Append(s, fd))
  BY <1>1, <1>2 DEF FdsOf, Distinct
<1> QED BY <1>1, <1>3, <1>4

\* The descriptors of two arrays joined.
LEMMA JoinFds ==
  ASSUME NEW s \in Seq(Nat), NEW t \in Seq(Nat)
  PROVE  /\ s \o t \in Seq(Nat)
         /\ FdsOf(s \o t) = FdsOf(s) \cup FdsOf(t)
         /\ Distinct(s) /\ Distinct(t) /\ FdsOf(s) \cap FdsOf(t) = {} => Distinct(s \o t)
<1>1. PICK m, n : m = Len(s) /\ n = Len(t)
  OBVIOUS
<1>2. PICK u : u = s \o t
  OBVIOUS
<1>3. /\ m \in Nat /\ n \in Nat /\ u \in Seq(Nat)
      /\ DOMAIN s = 1 .. m /\ DOMAIN t = 1 .. n /\ DOMAIN u = 1 .. m + n
      /\ \A i \in 1 .. m : u[i] = s[i]
      /\ \A i \in m + 1 .. m + n : u[i] = t[i - m]
  BY <1>1, <1>2
<1>4. ASSUME NEW i \in DOMAIN u
      PROVE  \/ i \in DOMAIN s /\ u[i] = s[i]
             \/ i - m \in DOMAIN t /\ u[i] = t[i - m]
  <2>1. i \in 1 .. m \/ (i \in m + 1 .. m + n /\ i - m \in 1 .. n)
    BY <1>3
  <2> QED BY <1>3, <2>1
<1>5. ASSUME NEW i \in DOMAIN t
      PROVE  i + m \in DOMAIN u /\ u[i + m] = t[i]
  <2>1. i + m \in m + 1 .. m + n /\ i + m \in 1 .. m + n /\ i = (i + m) - m
    BY <1>3
  <2>2. u[i + m] = t[(i + m) - m]
    BY <1>3, <2>1
  <2> QED BY <1>3, <2>1, <2>2
<1>6. \A i \in DOMAIN s : i \in DOMAIN u /\ u[i] = s[i]
  BY <1>3
<1>7. FdsOf(u) = FdsOf(s) \cup FdsOf(t)
  BY <1>4, <1>5, <1>6 DEF FdsOf
<1>8. ASSUME Distinct(s), Distinct(t), FdsOf(s) \cap FdsOf(t) = {},
             NEW i \in DOMAIN u, NEW j \in DOMAIN u, u[i] = u[j]
      PROVE  i = j
  <2>0. i \in Int /\ j \in Int /\ m \in Int
    BY <1>3
  <2>1. CASE i \in DOMAIN s /\ u[i] = s[i] /\ j \in DOMAIN s /\ u[j] = s[j]
    BY <1>8, <2>1 DEF Distinct
  <2>2. CASE i - m \in DOMAIN t /\ u[i] = t[i - m] /\ j - m \in DOMAIN t /\ u[j] = t[j - m]
    <3>1. i - m = j - m
      BY <1>8, <2>2 DEF Distinct
    <3> QED BY <2>0, <3>1
  <2>3. CASE i \in DOMAIN s /\ u[i] = s[i] /\ j - m \in DOMAIN t /\ u[j] = t[j - m]
    BY <1>8, <2>3 DEF FdsOf
  <2>4. CASE i - m \in DOMAIN t /\ u[i] = t[i - m] /\ j \in DOMAIN s /\ u[j] = s[j]
    BY <1>8, <2>4 DEF FdsOf
  <2> QED BY <1>4, <2>1, <2>2, <2>3, <2>4
<1>9. Distinct(s) /\ Distinct(t) /\ FdsOf(s) \cap FdsOf(t) = {} => Distinct(u)
  BY <1>8 DEF Distinct
<1> QED BY <1>2, <1>3, <1>7, <1>9

\* The empty array has no descriptor.
LEMMA NoFds == <<>> \in Seq(Nat) /\ FdsOf(<<>>) = {} /\ Distinct(<<>>)
  BY DEF FdsOf, Distinct

-----------------------------------------------------------------------------
(* The main process binds. *)

\* The sockets begin with their types and their invariants.
LEMMA NetworkInit == BindInit => NetworkTypeOK /\ BindInv /\ WorkerInv
<1> SUFFICES ASSUME BindInit PROVE NetworkTypeOK /\ BindInv /\ WorkerInv
  OBVIOUS
<1>1. DOMAIN open = {} /\ DOMAIN wopen = {}
  BY DEF BindInit
<1>2. /\ \A use : UsedFor(open, use) = {} /\ UsedFor(wopen, use) = {}
      /\ Table(open) /\ Table(wopen) /\ IsFiniteSet(DOMAIN open) /\ IsFiniteSet(DOMAIN wopen)
  BY <1>1, FS_EmptySet DEF UsedFor, Table
<1>3. /\ result \in Seq(Nat) /\ fds \in Seq(Nat) /\ FdsOf(result) = {} /\ FdsOf(fds) = {}
      /\ Distinct(fds)
  BY NoFds DEF BindInit
<1>4. paths \in SUBSET Seq(STRING)
  BY NetworkAssumption DEF BindInit
<1>5. NetworkTypeOK
  <2>1. /\ host \in Nat \ {0} /\ address \in Nat \ {0}
        /\ sockfd \in Int /\ ai \in Int /\ client_fd \in Int /\ server_fd \in Int
        /\ log_file \in Int /\ wlog_file \in Int
    BY DEF BindInit
  <2>2. pc = "unix" /\ wpc = "unborn" /\ misfit \in BOOLEAN
    BY Zenon DEF BindInit
  <2> QED BY <1>2, <1>3, <1>4, <2>1, <2>2 DEF NetworkTypeOK
<1>6. BindInv
  BY <1>2, <1>3 DEF BindInit, BindInv, Current
<1>7. WorkerInv
  BY <1>2 DEF BindInit, WorkerInv, Live
<1> QED BY <1>5, <1>6, <1>7

\* As long as there is no worker its invariant holds.
LEMMA NoWorkerYet ==
  ASSUME WorkerInv, wpc = "unborn", UNCHANGED workerVars, ~misfit'
  PROVE  WorkerInv'
  BY DEF WorkerInv, workerVars, Live

\* The path of the Unix socket is a text, and whole when it fits.
LEMMA PathType ==
  ASSUME ConfTypeOK, NEW n \in Nat
  PROVE  /\ PathIn(n) \in Seq(STRING) /\ SocketPath \in Seq(STRING)
         /\ Len(SocketPath) <= n => PathIn(n) = SocketPath
<1>1. config["unix_socket_dir"] \in Seq(STRING) /\ SocketFile \in Seq(STRING)
  BY NetworkAssumption DEF ConfTypeOK, StringKeys
<1>2. PICK p : p = SocketPath
  OBVIOUS
<1>3. p \in Seq(STRING)
  BY <1>1, <1>2 DEF SocketPath
<1>4. PICK k : k = IF Len(p) > n THEN n ELSE Len(p)
  OBVIOUS
<1>5. k \in 0 .. Len(p) /\ (Len(p) <= n => k = Len(p))
  BY <1>3, <1>4
<1>6. PathIn(n) = SubSeq(p, 1, k)
  BY <1>2, <1>4 DEF PathIn
<1>7. SubSeq(p, 1, k) \in Seq(STRING)
  BY <1>3, <1>5
<1>8. SubSeq(p, 1, Len(p)) = p
  BY <1>3
<1> QED BY <1>2, <1>3, <1>5, <1>6, <1>7, <1>8

\* What the main process has opened or closed keeps its table in order.
LEMMA BindStep ==
  ASSUME ConfTypeOK, NetworkTypeOK, BindInv, WorkerInv, Bind
  PROVE  NetworkTypeOK' /\ BindInv' /\ WorkerInv'
<1>1. /\ Proper(open) /\ DOMAIN open \subseteq Nat /\ ~misfit
      /\ result \in Seq(Nat) /\ fds \in Seq(Nat)
  BY DEF NetworkTypeOK, BindInv, WorkerInv, Proper, Table
<1>2. pc \in {"unix", "host", "address", "setup"} /\ UNCHANGED workerVars
  BY DEF Bind, BindUnix, BindUnixFails, InterfacesFail, Resolve, Socket, SocketFails, Listen,
         SetupFails, HostBound, HostFails, Bound
<1>3. wpc = "unborn"
  BY <1>2 DEF WorkerInv
<1>4. host + 1 \in Nat \ {0} /\ address + 1 \in Nat \ {0}
  BY DEF NetworkTypeOK
<1> SUFFICES NetworkTypeOK' /\ BindInv' /\ ~misfit'
  BY <1>2, <1>3, NoWorkerYet
<1>5. CASE BindUnix
  <2>1. /\ pc = "unix" /\ pc' = "host"
        /\ UNCHANGED <<host, address, sockfd, result, fds, log_file, misfit>>
        /\ UNCHANGED workerVars
    BY <1>5 DEF BindUnix
  <2>2. CASE UnixSocket
    <3>1. open' = Opened(open, "unix") /\ paths' = paths \cup {PathIn(MaxPath)}
      BY <1>5, <2>2 DEF BindUnix
    <3>2. PathIn(MaxPath) \in Seq(STRING)
      BY PathType, NetworkAssumption, ConfigurationAssumption
    <3>3. /\ Proper(open') /\ DOMAIN open \subseteq DOMAIN open'
          /\ \A use \in Uses \ {"unix"} : UsedFor(open', use) = UsedFor(open, use)
      <4>1. "unix" \in Uses
        BY DEF Uses
      <4>2. /\ Proper(open') /\ DOMAIN open' = DOMAIN open \cup {Lowest(open)}
            /\ \A use \in Uses \ {"unix"} : UsedFor(open', use) = UsedFor(open, use)
        BY <1>1, <3>1, <4>1, OpenedTable, Zenon
      <4> QED BY <4>2
    <3>4. NetworkTypeOK'
      BY <1>1, <2>1, <3>1, <3>2, <3>3 DEF NetworkTypeOK, Proper, workerVars
    <3>5. BindInv'
      <4>1. /\ UsedFor(open', "listener") = UsedFor(open, "listener")
            /\ UsedFor(open', "client") = UsedFor(open, "client")
            /\ UsedFor(open', "server") = UsedFor(open, "server")
        BY <3>3 DEF Uses
      <4> QED BY <1>1, <2>1, <3>3, <4>1 DEF BindInv, Proper, Current
    <3> QED BY <1>1, <2>1, <3>4, <3>5
  <2>3. CASE ~UnixSocket
    <3>1. UNCHANGED <<open, paths>>
      BY <1>5, <2>3 DEF BindUnix
    <3>2. NetworkTypeOK'
      BY <2>1, <3>1 DEF NetworkTypeOK, workerVars
    <3>3. BindInv'
      BY <2>1, <3>1 DEF BindInv, Current
    <3> QED BY <1>1, <2>1, <3>2, <3>3
  <2> QED BY <2>2, <2>3
<1>6. CASE BindUnixFails \/ InterfacesFail
  <2>1. /\ pc' = "exited" /\ paths' \subseteq paths
        /\ UNCHANGED <<open, host, address, sockfd, result, fds, log_file, misfit>>
        /\ UNCHANGED workerVars
    BY <1>6 DEF BindUnixFails, InterfacesFail
  <2>2. NetworkTypeOK'
    BY <2>1 DEF NetworkTypeOK, workerVars
  <2>3. BindInv'
    BY <2>1 DEF BindInv
  <2> QED BY <1>1, <2>1, <2>2, <2>3
<1>7. CASE Resolve
  <2>1. /\ pc = "host" /\ pc' = "address" /\ address' = 1 /\ result' = <<>>
        /\ UNCHANGED <<paths, open, host, sockfd, fds, log_file, misfit>> /\ UNCHANGED workerVars
    BY <1>7 DEF Resolve
  <2>2. result' \in Seq(Nat) /\ FdsOf(result') = {} /\ Distinct(result')
    BY <2>1, NoFds
  <2>3. NetworkTypeOK'
    BY <2>1, <2>2 DEF NetworkTypeOK, workerVars
  <2>4. BindInv'
    BY <2>1, <2>2 DEF BindInv, Current
  <2> QED BY <1>1, <2>1, <2>3, <2>4
<1>8. CASE Socket
  <2>1. /\ pc = "address" /\ pc' = "setup" /\ sockfd' = Lowest(open)
        /\ open' = Opened(open, "listener")
        /\ UNCHANGED <<paths, host, address, result, fds, log_file, misfit>> /\ UNCHANGED workerVars
    BY <1>8 DEF Socket
  <2>2. /\ Proper(open') /\ DOMAIN open \subseteq DOMAIN open'
        /\ sockfd' \in Nat /\ sockfd' \notin DOMAIN open
        /\ UsedFor(open', "listener") = UsedFor(open, "listener") \cup {sockfd'}
        /\ UsedFor(open', "client") = UsedFor(open, "client")
        /\ UsedFor(open', "server") = UsedFor(open, "server")
    <3>1. "listener" \in Uses
      BY DEF Uses
    <3>2. /\ Proper(open') /\ DOMAIN open' = DOMAIN open \cup {sockfd'}
          /\ sockfd' \in Nat /\ sockfd' \notin DOMAIN open
          /\ UsedFor(open', "listener") = UsedFor(open, "listener") \cup {sockfd'}
          /\ \A use \in Uses \ {"listener"} : UsedFor(open', use) = UsedFor(open, use)
      BY <1>1, <2>1, <3>1, OpenedTable, Zenon
    <3> QED BY <3>2 DEF Uses
  <2>3. FdsOf(fds) \cup FdsOf(result) \subseteq DOMAIN open
    BY <2>1 DEF NetworkTypeOK
  <2>4. NetworkTypeOK'
    BY <2>1, <2>2, <2>3 DEF NetworkTypeOK, Proper, workerVars
  <2>5. BindInv'
    BY <2>1, <2>2, <2>3 DEF BindInv, Proper, Current
  <2> QED BY <1>1, <2>1, <2>4, <2>5
<1>9. CASE SocketFails
  <2>1. /\ pc = "address" /\ pc' \in {"address", "exited"} /\ address' = address + 1
        /\ UNCHANGED <<paths, open, host, sockfd, result, fds, log_file, misfit>>
        /\ UNCHANGED workerVars
    BY <1>9 DEF SocketFails, Logs
  <2>2. NetworkTypeOK'
    BY <1>4, <2>1 DEF NetworkTypeOK, workerVars
  <2>3. BindInv'
    BY <2>1 DEF BindInv, Current
  <2> QED BY <1>1, <2>1, <2>2, <2>3
<1>10. CASE Listen
  <2>1. /\ pc = "setup" /\ pc' = "address" /\ address' = address + 1
        /\ result' = Append(result, sockfd)
        /\ UNCHANGED <<paths, open, host, sockfd, fds, log_file, misfit>> /\ UNCHANGED workerVars
    BY <1>10 DEF Listen
  <2>2. /\ sockfd \in Nat /\ sockfd \notin FdsOf(fds) \cup FdsOf(result)
        /\ Distinct(result) /\ FdsOf(fds) \cap FdsOf(result) = {}
        /\ UsedFor(open, "listener") = FdsOf(fds) \cup FdsOf(result) \cup {sockfd}
    BY <2>1 DEF BindInv, Current
  <2>3. /\ result' \in Seq(Nat) /\ FdsOf(result') = FdsOf(result) \cup {sockfd}
        /\ Distinct(result')
    BY <1>1, <2>1, <2>2, AppendFds
  <2>4. UsedFor(open, "listener") \subseteq DOMAIN open
    BY UsesOfOpen
  <2>5. NetworkTypeOK'
    BY <1>4, <2>1, <2>2, <2>3, <2>4 DEF NetworkTypeOK, workerVars
  <2>6. BindInv'
    BY <2>1, <2>2, <2>3 DEF BindInv, Current
  <2> QED BY <1>1, <2>1, <2>5, <2>6
<1>11. CASE SetupFails
  <2>1. /\ pc = "setup" /\ pc' \in {"address", "exited"} /\ address' = address + 1
        /\ open' = Closed(open, {sockfd})
        /\ misfit' = (misfit \/ Misfits(open, {sockfd}, "listener"))
        /\ UNCHANGED <<paths, host, sockfd, result, fds, log_file>> /\ UNCHANGED workerVars
    BY <1>11 DEF SetupFails, Logs
  <2>2. /\ sockfd \in Nat /\ sockfd \notin FdsOf(fds) \cup FdsOf(result)
        /\ UsedFor(open, "listener") = FdsOf(fds) \cup FdsOf(result) \cup {sockfd}
    BY <2>1 DEF BindInv, Current
  <2>3. ~misfit'
    <3>1. {sockfd} \cap DOMAIN open \subseteq UsedFor(open, "listener")
      BY <2>2
    <3> QED BY <1>1, <2>1, <3>1, UsesOfOpen
  <2>4. /\ Proper(open') /\ DOMAIN open' = DOMAIN open \ {sockfd}
        /\ UsedFor(open', "listener") = UsedFor(open, "listener") \ {sockfd}
        /\ UsedFor(open', "client") = UsedFor(open, "client") \ {sockfd}
        /\ UsedFor(open', "server") = UsedFor(open, "server") \ {sockfd}
    <3>1. PICK closing : closing = {sockfd}
      OBVIOUS
    <3>2. open' = Closed(open, closing)
      BY <2>1, <3>1
    <3>3. Proper(open') /\ DOMAIN open' = DOMAIN open \ closing
      BY <1>1, <3>2, ClosedTable, Zenon
    <3>4. ASSUME NEW use PROVE UsedFor(open', use) = UsedFor(open, use) \ closing
      BY <3>2, ClosedUses, Zenon
    <3> QED BY <3>1, <3>3, <3>4
  <2>5. NetworkTypeOK'
    <3>1. FdsOf(fds) \cup FdsOf(result) \subseteq DOMAIN open'
      BY <2>1, <2>2, <2>4 DEF NetworkTypeOK
    <3>2. misfit' \in BOOLEAN
      BY <2>1, Zenon
    <3> QED BY <1>4, <2>1, <2>4, <3>1, <3>2 DEF NetworkTypeOK, Proper, workerVars
  <2>6. BindInv'
    <3>1. FdsOf(fds)' = FdsOf(fds) /\ FdsOf(result)' = FdsOf(result)
          /\ Distinct(fds)' = Distinct(fds) /\ Distinct(result)' = Distinct(result)
      BY <2>1
    <3>2. /\ UsedFor(open', "listener") = FdsOf(fds) \cup FdsOf(result)
          /\ UsedFor(open', "client") = {} /\ UsedFor(open', "server") = {}
          /\ IsFiniteSet(DOMAIN open')
      BY <2>2, <2>4 DEF BindInv, Proper
    <3>3. /\ Distinct(fds) /\ Distinct(result) /\ FdsOf(fds) \cap FdsOf(result) = {}
      BY <2>1 DEF BindInv
    <3> QED BY <2>1, <3>1, <3>2, <3>3 DEF BindInv, Current
  <2> QED BY <2>3, <2>5, <2>6
<1>12. CASE HostBound
  <2>1. /\ pc = "address" /\ pc' = "host" /\ fds' = fds \o result /\ host' = host + 1
        /\ UNCHANGED <<paths, open, address, sockfd, result, log_file, misfit>>
        /\ UNCHANGED workerVars
    BY <1>12 DEF HostBound
  <2>2. /\ Distinct(fds) /\ Distinct(result) /\ FdsOf(fds) \cap FdsOf(result) = {}
        /\ UsedFor(open, "listener") = FdsOf(fds) \cup FdsOf(result)
    BY <2>1 DEF BindInv, Current
  <2>3. /\ fds' \in Seq(Nat) /\ FdsOf(fds') = FdsOf(fds) \cup FdsOf(result) /\ Distinct(fds')
    BY <1>1, <2>1, <2>2, JoinFds
  <2>4. NetworkTypeOK'
    BY <1>4, <2>1, <2>3 DEF NetworkTypeOK, workerVars
  <2>5. BindInv'
    BY <2>1, <2>2, <2>3 DEF BindInv, Current
  <2> QED BY <1>1, <2>1, <2>4, <2>5
<1>13. CASE HostFails
  <2>1. /\ pc' \in {"host", "exited"} /\ host' = host + 1
        /\ pc = "host" \/ (pc = "address" /\ result = <<>>)
        /\ UNCHANGED <<paths, open, address, sockfd, result, fds, log_file, misfit>>
        /\ UNCHANGED workerVars
    BY <1>13 DEF HostFails, Logs
  <2>2. NetworkTypeOK'
    BY <1>4, <2>1 DEF NetworkTypeOK, workerVars
  <2>3. BindInv'
    BY <2>1, NoFds DEF BindInv, Current
  <2> QED BY <1>1, <2>1, <2>2, <2>3
<1>14. CASE Bound
  <2>1. /\ pc = "host" /\ pc' \in {"libev", "exited"}
        /\ UNCHANGED <<paths, open, host, address, sockfd, result, fds, log_file, misfit>>
        /\ UNCHANGED workerVars
    BY <1>14 DEF Bound
  <2>2. NetworkTypeOK'
    BY <2>1 DEF NetworkTypeOK, workerVars
  <2>3. BindInv'
    BY <2>1 DEF BindInv, Current
  <2> QED BY <1>1, <2>1, <2>2, <2>3
<1> QED BY <1>5, <1>6, <1>7, <1>8, <1>9, <1>10, <1>11, <1>12, <1>13, <1>14 DEF Bind

-----------------------------------------------------------------------------
(* The worker. *)

\* A descriptor has one use.
LEMMA UsesDiffer ==
  ASSUME NEW table, NEW use, NEW other, use # other
  PROVE  UsedFor(table, use) \cap UsedFor(table, other) = {}
  BY DEF UsedFor

\* The descriptors of a use are numbers.
LEMMA ProperUses ==
  ASSUME NEW table, Proper(table), NEW use
  PROVE  UsedFor(table, use) \subseteq Nat
  BY DEF UsedFor, Proper, Table

\* A step of the worker leaves what the main process has.
LEMMA MainUntouched ==
  ASSUME NetworkTypeOK, BindInv, UNCHANGED bindVars, Table(wopen'),
         wpc' \in {"unborn", "forked", "closing", "logging", "start", "connect", "setup", "relay",
                   "stop", "exited", "crashed"},
         wlog_file' \in Int, ai' \in Int, client_fd' \in Int, server_fd' \in Int,
         ~misfit', misfit' \in BOOLEAN
  PROVE  NetworkTypeOK' /\ BindInv'
<1>1. NetworkTypeOK'
  BY DEF NetworkTypeOK, bindVars
<1>2. BindInv'
  BY DEF BindInv, Current, bindVars
<1> QED BY <1>1, <1>2

\* Every step of the worker keeps the types and the invariants of the sockets.
LEMMA WorkerStep ==
  ASSUME NetworkTypeOK, BindInv, WorkerInv, Worker
  PROVE  NetworkTypeOK' /\ BindInv' /\ WorkerInv'
<1>1. /\ Proper(open) /\ Proper(wopen) /\ Table(wopen) /\ ~misfit /\ misfit \in BOOLEAN
      /\ DOMAIN wopen \subseteq Nat
      /\ ai \in Int /\ client_fd \in Int /\ server_fd \in Int
      /\ log_file \in Int /\ wlog_file \in Int
  BY DEF NetworkTypeOK, BindInv, WorkerInv, Proper, Table
<1>2. UNCHANGED bindVars
  BY DEF Worker, AcceptAndFork, ShutdownIo, DisconnectListener, StartLogging, StartClient,
         ConnectSocket, ConnectSocketFails, Connected, ConnectFails, NoLoop, EndRelay, Disconnect
<1>3. UNCHANGED <<pc, fds, open>>
  BY <1>2 DEF bindVars
<1>4. CASE AcceptAndFork
  <2>1. /\ pc = "ready" /\ wpc = "unborn" /\ wpc' = "forked"
        /\ ai' \in FdsOf(fds) \cup UsedFor(open, "unix")
        /\ client_fd' = Lowest(open) /\ wopen' = Opened(open, "client")
        /\ wlog_file' = log_file /\ UNCHANGED <<server_fd, misfit>>
    BY <1>4 DEF AcceptAndFork, UsedFor
  <2>2. /\ server_fd = -1 /\ UsedFor(open, "server") = {} /\ UsedFor(open, "client") = {}
        /\ UsedFor(open, "listener") = FdsOf(fds)
    BY <2>1 DEF WorkerInv, BindInv, Current
  <2>3. "client" \in Uses
    BY DEF Uses
  <2>4. /\ Proper(wopen') /\ client_fd' \in Nat
        /\ UsedFor(wopen', "client") = UsedFor(open, "client") \cup {client_fd'}
        /\ \A use \in Uses \ {"client"} : UsedFor(wopen', use) = UsedFor(open, use)
    BY <1>1, <2>1, <2>3, OpenedTable, Zenon
  <2>5. /\ UsedFor(wopen', "listener") = FdsOf(fds) /\ UsedFor(wopen', "server") = {}
        /\ UsedFor(wopen', "unix") = UsedFor(open, "unix")
        /\ UsedFor(wopen', "client") = {client_fd'}
    BY <2>2, <2>4 DEF Uses
  <2>6. ai' \in Int
    <3>1. UsedFor(open, "unix") \subseteq Nat /\ UsedFor(open, "listener") \subseteq Nat
      BY <1>1, ProperUses
    <3> QED BY <2>1, <2>2, <3>1
  <2>7. WorkerInv'
    BY <1>1, <1>3, <2>1, <2>2, <2>4, <2>5 DEF WorkerInv, Proper, Live
  <2> QED BY <1>1, <1>2, <2>1, <2>4, <2>6, <2>7, MainUntouched DEF Proper
<1>5. CASE ShutdownIo
  <2>1. /\ wpc = "forked" /\ wpc' = "closing" /\ wopen' = Closed(wopen, FdsOf(fds))
        /\ misfit' = (misfit \/ Misfits(wopen, FdsOf(fds), "listener"))
        /\ UNCHANGED <<wlog_file, ai, client_fd, server_fd>>
    BY <1>5 DEF ShutdownIo
  <2>2. PICK closing : closing = FdsOf(fds)
    OBVIOUS
  <2>3. /\ UsedFor(wopen, "listener") = closing /\ ai \in closing \cup UsedFor(wopen, "unix")
        /\ UsedFor(wopen, "client") = {client_fd} /\ UsedFor(wopen, "server") = {}
        /\ server_fd = -1 /\ pc \in {"ready", "closing", "stopped", "exited"}
    BY <2>1, <2>2 DEF WorkerInv, Live
  <2>4. wopen' = Closed(wopen, closing)
    BY <2>1, <2>2
  <2>5. /\ Proper(wopen') /\ DOMAIN wopen' = DOMAIN wopen \ closing
        /\ \A use \in Uses : UsedFor(wopen', use) = UsedFor(wopen, use) \ closing
    <3>1. Proper(wopen') /\ DOMAIN wopen' = DOMAIN wopen \ closing
      BY <1>1, <2>4, ClosedTable, Zenon
    <3>2. ASSUME NEW use \in Uses PROVE UsedFor(wopen', use) = UsedFor(wopen, use) \ closing
      BY <2>4, ClosedUses, Zenon
    <3> QED BY <3>1, <3>2
  <2>6. UsedFor(wopen, "client") \cap UsedFor(wopen, "listener") = {}
    BY UsesDiffer
  <2>7. /\ UsedFor(wopen', "listener") = {} /\ UsedFor(wopen', "server") = {}
        /\ UsedFor(wopen', "client") = {client_fd}
        /\ UsedFor(wopen', "unix") = UsedFor(wopen, "unix") \ closing
    BY <2>3, <2>5, <2>6 DEF Uses
  <2>8. ~misfit' /\ misfit' \in BOOLEAN
    <3>1. closing \cap DOMAIN wopen \subseteq UsedFor(wopen, "listener")
      BY <2>3
    <3>2. ~Misfits(wopen, closing, "listener")
      BY <3>1, UsesOfOpen
    <3> QED BY <1>1, <2>1, <2>2, <3>2, Zenon
  <2>9. WorkerInv'
    BY <1>3, <2>1, <2>2, <2>3, <2>5, <2>7, <2>8 DEF WorkerInv, Proper, Live
  <2> QED BY <1>1, <1>2, <2>1, <2>5, <2>8, <2>9, MainUntouched DEF Proper
<1>6. CASE DisconnectListener
  <2>1. /\ wpc = "closing" /\ wpc' = "logging" /\ wopen' = Closed(wopen, {ai})
        /\ misfit' = (misfit \/ Misfits(wopen, {ai},
                                        IF ai \in FdsOf(fds) THEN "listener" ELSE "unix"))
        /\ UNCHANGED <<wlog_file, ai, client_fd, server_fd>>
    BY <1>6 DEF DisconnectListener
  <2>2. /\ UsedFor(wopen, "listener") = {} /\ ai \in FdsOf(fds) \cup UsedFor(wopen, "unix")
        /\ FdsOf(fds) \cap DOMAIN wopen = {}
        /\ UsedFor(wopen, "client") = {client_fd} /\ UsedFor(wopen, "server") = {}
        /\ server_fd = -1 /\ pc \in {"ready", "closing", "stopped", "exited"}
    BY <2>1 DEF WorkerInv, Live
  <2>3. PICK closing : closing = {ai}
    OBVIOUS
  <2>4. wopen' = Closed(wopen, closing)
    BY <2>1, <2>3
  <2>5. /\ Proper(wopen') /\ DOMAIN wopen' = DOMAIN wopen \ closing
        /\ \A use \in Uses : UsedFor(wopen', use) = UsedFor(wopen, use) \ closing
    <3>1. Proper(wopen') /\ DOMAIN wopen' = DOMAIN wopen \ closing
      BY <1>1, <2>4, ClosedTable, Zenon
    <3>2. ASSUME NEW use \in Uses PROVE UsedFor(wopen', use) = UsedFor(wopen, use) \ closing
      BY <2>4, ClosedUses, Zenon
    <3> QED BY <3>1, <3>2
  <2>6. /\ UsedFor(wopen, "client") \cap UsedFor(wopen, "unix") = {}
        /\ UsedFor(wopen, "client") \subseteq DOMAIN wopen
    BY UsesDiffer, UsesOfOpen
  <2>7. /\ UsedFor(wopen', "listener") = {} /\ UsedFor(wopen', "server") = {}
        /\ UsedFor(wopen', "client") = {client_fd}
    BY <2>2, <2>3, <2>5, <2>6 DEF Uses
  <2>8. ~misfit' /\ misfit' \in BOOLEAN
    <3>1. PICK use : use = IF ai \in FdsOf(fds) THEN "listener" ELSE "unix"
      OBVIOUS
    <3>2. closing \cap DOMAIN wopen \subseteq UsedFor(wopen, use)
      BY <2>2, <2>3, <3>1
    <3>3. ~Misfits(wopen, closing, use)
      BY <3>2, UsesOfOpen
    <3> QED BY <1>1, <2>1, <2>3, <3>1, <3>3, Zenon
  <2>9. WorkerInv'
    BY <1>3, <2>1, <2>2, <2>5, <2>7, <2>8 DEF WorkerInv, Proper, Live
  <2> QED BY <1>1, <1>2, <2>1, <2>5, <2>8, <2>9, MainUntouched DEF Proper
<1>7. CASE StartLogging
  <2>1. /\ wpc = "logging" /\ wpc' = "start"
        /\ wopen' = wopen \/ wopen' = Opened(wopen, "log")
        /\ wlog_file' \in {wlog_file, -1, Lowest(wopen)}
        /\ UNCHANGED <<ai, client_fd, server_fd, misfit>>
    BY <1>7 DEF StartLogging
  <2>2. /\ UsedFor(wopen, "listener") = {}
        /\ UsedFor(wopen, "client") = {client_fd} /\ UsedFor(wopen, "server") = {}
        /\ server_fd = -1 /\ pc \in {"ready", "closing", "stopped", "exited"}
    BY <2>1 DEF WorkerInv, Live
  <2>3. Proper(wopen') /\ \A use \in Uses \ {"log"} : UsedFor(wopen', use) = UsedFor(wopen, use)
    <3>1. CASE wopen' = wopen
      BY <1>1, <3>1
    <3>2. CASE wopen' = Opened(wopen, "log")
      <4>1. "log" \in Uses
        BY DEF Uses
      <4> QED BY <1>1, <3>2, <4>1, OpenedTable, Zenon
    <3> QED BY <2>1, <3>1, <3>2
  <2>4. /\ UsedFor(wopen', "listener") = {}
        /\ UsedFor(wopen', "client") = {client_fd} /\ UsedFor(wopen', "server") = {}
    BY <2>2, <2>3 DEF Uses
  <2>5. WorkerInv'
    BY <1>1, <1>3, <2>1, <2>2, <2>3, <2>4 DEF WorkerInv, Proper, Live
  <2>6. wlog_file' \in Int
    BY <1>1, <2>1, LowestFree DEF Proper
  <2> QED BY <1>1, <1>2, <2>1, <2>3, <2>5, <2>6, MainUntouched DEF Proper
<1>8. CASE StartClient \/ NoLoop
  <2>1. /\ wpc \in {"start", "setup"} /\ (wpc' = "crashed" \/ (wpc = "start" /\ wpc' = "connect"))
        /\ UNCHANGED <<wopen, wlog_file, ai, client_fd, server_fd, misfit>>
    BY <1>8 DEF StartClient, NoLoop
  <2>2. WorkerInv'
    BY <1>3, <2>1 DEF WorkerInv, Live
  <2> QED BY <1>1, <1>2, <2>1, <2>2, MainUntouched
<1>9. CASE ConnectSocket
  <2>1. /\ wpc = "connect" /\ wpc' = "setup"
        /\ server_fd' = Lowest(wopen) /\ wopen' = Opened(wopen, "server")
        /\ UNCHANGED <<wlog_file, ai, client_fd, misfit>>
    BY <1>9 DEF ConnectSocket
  <2>2. /\ UsedFor(wopen, "listener") = {}
        /\ UsedFor(wopen, "client") = {client_fd} /\ UsedFor(wopen, "server") = {}
        /\ pc \in {"ready", "closing", "stopped", "exited"}
    BY <2>1 DEF WorkerInv, Live
  <2>3. "server" \in Uses
    BY DEF Uses
  <2>4. /\ Proper(wopen') /\ server_fd' \in Nat
        /\ UsedFor(wopen', "server") = UsedFor(wopen, "server") \cup {server_fd'}
        /\ \A use \in Uses \ {"server"} : UsedFor(wopen', use) = UsedFor(wopen, use)
    BY <1>1, <2>1, <2>3, OpenedTable, Zenon
  <2>5. /\ UsedFor(wopen', "listener") = {}
        /\ UsedFor(wopen', "client") = {client_fd} /\ UsedFor(wopen', "server") = {server_fd'}
    BY <2>2, <2>4 DEF Uses
  <2>6. WorkerInv'
    BY <1>1, <1>3, <2>1, <2>2, <2>4, <2>5 DEF WorkerInv, Proper, Live
  <2> QED BY <1>1, <1>2, <2>1, <2>4, <2>6, MainUntouched DEF Proper
<1>10. CASE ConnectSocketFails
  <2>1. /\ wpc = "connect" /\ wpc' = "stop"
        /\ UNCHANGED <<wopen, wlog_file, ai, client_fd, server_fd, misfit>>
    BY <1>10 DEF ConnectSocketFails
  <2>2. server_fd = -1 /\ server_fd \notin DOMAIN wopen /\ UsedFor(wopen, "server") = {}
    BY <1>1, <2>1 DEF WorkerInv
  <2>3. WorkerInv'
    BY <1>3, <2>1, <2>2 DEF WorkerInv, Live
  <2> QED BY <1>1, <1>2, <2>1, <2>3, MainUntouched
<1>11. CASE Connected
  <2>1. /\ wpc = "setup" /\ wpc' = "relay"
        /\ UNCHANGED <<wopen, wlog_file, ai, client_fd, server_fd, misfit>>
    BY <1>11 DEF Connected
  <2>2. WorkerInv'
    BY <1>3, <2>1 DEF WorkerInv, Live
  <2> QED BY <1>1, <1>2, <2>1, <2>2, MainUntouched
<1>12. CASE ConnectFails
  <2>1. /\ wpc = "setup" /\ wpc' = "stop" /\ wopen' = Closed(wopen, {server_fd})
        /\ misfit' = (misfit \/ Misfits(wopen, {server_fd}, "server"))
        /\ UNCHANGED <<wlog_file, ai, client_fd, server_fd>>
    BY <1>12 DEF ConnectFails
  <2>2. /\ UsedFor(wopen, "listener") = {}
        /\ UsedFor(wopen, "client") = {client_fd} /\ UsedFor(wopen, "server") = {server_fd}
        /\ pc \in {"ready", "closing", "stopped", "exited"}
    BY <2>1 DEF WorkerInv, Live
  <2>3. PICK closing : closing = {server_fd}
    OBVIOUS
  <2>4. wopen' = Closed(wopen, closing)
    BY <2>1, <2>3
  <2>5. /\ Proper(wopen') /\ DOMAIN wopen' = DOMAIN wopen \ closing
        /\ \A use \in Uses : UsedFor(wopen', use) = UsedFor(wopen, use) \ closing
    <3>1. Proper(wopen') /\ DOMAIN wopen' = DOMAIN wopen \ closing
      BY <1>1, <2>4, ClosedTable, Zenon
    <3>2. ASSUME NEW use \in Uses PROVE UsedFor(wopen', use) = UsedFor(wopen, use) \ closing
      BY <2>4, ClosedUses, Zenon
    <3> QED BY <3>1, <3>2
  <2>6. UsedFor(wopen, "client") \cap UsedFor(wopen, "server") = {}
    BY UsesDiffer
  <2>7. /\ UsedFor(wopen', "listener") = {} /\ UsedFor(wopen', "client") = {client_fd}
        /\ UsedFor(wopen', "server") = {} /\ {server_fd} \cap DOMAIN wopen' = {}
    BY <2>2, <2>3, <2>5, <2>6 DEF Uses
  <2>8. ~misfit' /\ misfit' \in BOOLEAN
    <3>1. closing \cap DOMAIN wopen \subseteq UsedFor(wopen, "server")
      BY <2>2, <2>3
    <3>2. ~Misfits(wopen, closing, "server")
      BY <3>1, UsesOfOpen
    <3> QED BY <1>1, <2>1, <2>3, <3>2, Zenon
  <2>9. WorkerInv'
    BY <1>3, <2>1, <2>2, <2>5, <2>7, <2>8 DEF WorkerInv, Proper, Live
  <2> QED BY <1>1, <1>2, <2>1, <2>5, <2>8, <2>9, MainUntouched DEF Proper
<1>13. CASE EndRelay
  <2>1. /\ wpc = "relay" /\ wpc' = "stop"
        /\ UNCHANGED <<wopen, wlog_file, ai, client_fd, server_fd, misfit>>
    BY <1>13 DEF EndRelay
  <2>2. UsedFor(wopen, "server") = {server_fd} /\ UsedFor(wopen, "server") \subseteq DOMAIN wopen
    BY <2>1, UsesOfOpen DEF WorkerInv
  <2>3. WorkerInv'
    BY <1>3, <2>1, <2>2 DEF WorkerInv, Live
  <2> QED BY <1>1, <1>2, <2>1, <2>3, MainUntouched
<1>14. CASE Disconnect
  <2>1. /\ wpc = "stop" /\ wpc' = "exited" /\ wopen' = Closed(wopen, {client_fd, server_fd})
        /\ misfit' = (misfit \/ Misfits(wopen, {client_fd}, "client")
                             \/ Misfits(wopen, {server_fd}, "server"))
        /\ UNCHANGED <<wlog_file, ai, client_fd, server_fd>>
    BY <1>14 DEF Disconnect
  <2>2. /\ UsedFor(wopen, "listener") = {} /\ UsedFor(wopen, "client") = {client_fd}
        /\ UsedFor(wopen, "server") = {server_fd} \cap DOMAIN wopen
        /\ pc \in {"ready", "closing", "stopped", "exited"}
    BY <2>1 DEF WorkerInv, Live
  <2>3. PICK closing : closing = {client_fd, server_fd}
    OBVIOUS
  <2>4. wopen' = Closed(wopen, closing)
    BY <2>1, <2>3
  <2>5. /\ Proper(wopen') /\ DOMAIN wopen' = DOMAIN wopen \ closing
        /\ \A use \in Uses : UsedFor(wopen', use) = UsedFor(wopen, use) \ closing
    <3>1. Proper(wopen') /\ DOMAIN wopen' = DOMAIN wopen \ closing
      BY <1>1, <2>4, ClosedTable, Zenon
    <3>2. ASSUME NEW use \in Uses PROVE UsedFor(wopen', use) = UsedFor(wopen, use) \ closing
      BY <2>4, ClosedUses, Zenon
    <3> QED BY <3>1, <3>2
  <2>6. /\ UsedFor(wopen', "listener") = {} /\ UsedFor(wopen', "client") = {}
        /\ UsedFor(wopen', "server") = {}
    BY <2>2, <2>3, <2>5 DEF Uses
  <2>7. ~misfit' /\ misfit' \in BOOLEAN
    <3>1. /\ {client_fd} \cap DOMAIN wopen \subseteq UsedFor(wopen, "client")
          /\ {server_fd} \cap DOMAIN wopen \subseteq UsedFor(wopen, "server")
      BY <2>2
    <3>2. ~Misfits(wopen, {client_fd}, "client") /\ ~Misfits(wopen, {server_fd}, "server")
      BY <3>1, UsesOfOpen
    <3> QED BY <1>1, <2>1, <3>2, Zenon
  <2>8. WorkerInv'
    BY <1>3, <2>1, <2>2, <2>5, <2>6, <2>7 DEF WorkerInv, Proper, Live
  <2> QED BY <1>1, <1>2, <2>1, <2>5, <2>7, <2>8, MainUntouched DEF Proper
<1> QED BY <1>4, <1>5, <1>6, <1>7, <1>8, <1>9, <1>10, <1>11, <1>12, <1>13, <1>14 DEF Worker

-----------------------------------------------------------------------------
(* The logs. *)

\* Opening a file takes nothing away from any use.
LEMMA OpeningKeeps ==
  ASSUME NEW table, Proper(table), NEW use \in Uses, NEW other \in Uses
  PROVE  UsedFor(table, other) \subseteq UsedFor(Opened(table, use), other)
<1>1. CASE use = other
  <2>1. UsedFor(Opened(table, use), use) = UsedFor(table, use) \cup {Lowest(table)}
    BY OpenedTable, Zenon
  <2> QED BY <1>1, <2>1
<1>2. CASE use # other
  <2>1. other \in Uses \ {use}
    BY <1>2
  <2>2. UsedFor(Opened(table, use), other) = UsedFor(table, other)
    BY <2>1, OpenedTable, Zenon
  <2> QED BY <2>2
<1> QED BY <1>1, <1>2

\* Closing a descriptor of another use takes nothing away from a use.
LEMMA ClosingKeeps ==
  ASSUME NEW table, NEW closing, NEW use, NEW other, use # other,
         closing \cap DOMAIN table \subseteq UsedFor(table, use)
  PROVE  UsedFor(table, other) \subseteq UsedFor(Closed(table, closing), other)
<1>1. UsedFor(table, use) \cap UsedFor(table, other) = {}
  BY UsesDiffer
<1>2. UsedFor(table, other) \subseteq DOMAIN table
  BY UsesOfOpen
<1>3. UsedFor(Closed(table, closing), other) = UsedFor(table, other) \ closing
  BY ClosedUses, Zenon
<1> QED BY <1>1, <1>2, <1>3

\* Binding keeps the main process's log open.
LEMMA BindKeepsLog ==
  ASSUME NetworkTypeOK, BindInv, WorkerInv, LogInv, Bind, config' = config
  PROVE  LogInv'
<1>1. /\ Proper(open) /\ {"log", "unix", "listener"} \subseteq Uses
  BY DEF NetworkTypeOK, BindInv, Proper, Uses
<1>2. /\ pc \in {"unix", "host", "address", "setup"}
      /\ pc' \in {"host", "address", "setup", "libev", "exited"}
      /\ UNCHANGED workerVars /\ log_file' = log_file
  BY DEF Bind, BindUnix, BindUnixFails, InterfacesFail, Resolve, Socket, SocketFails, Listen,
         SetupFails, HostBound, HostFails, Bound, Logs
<1>3. wpc' = "unborn"
  BY <1>2 DEF WorkerInv, workerVars
<1>4. UsedFor(open, "log") \subseteq UsedFor(open', "log")
  <2>1. CASE open' = open
    BY <2>1
  <2>2. CASE open' = Opened(open, "unix")
    BY <1>1, <2>2, OpeningKeeps
  <2>3. CASE open' = Opened(open, "listener")
    BY <1>1, <2>3, OpeningKeeps
  <2>4. CASE SetupFails
    <3>1. open' = Closed(open, {sockfd}) /\ sockfd \in UsedFor(open, "listener")
      BY <2>4 DEF SetupFails, BindInv, Current
    <3>2. {sockfd} \cap DOMAIN open \subseteq UsedFor(open, "listener")
      BY <3>1
    <3> QED BY <3>1, <3>2, ClosingKeeps
  <2> QED BY <2>1, <2>2, <2>3, <2>4
          DEF Bind, BindUnix, BindUnixFails, InterfacesFail, Resolve, Socket, SocketFails, Listen,
              HostBound, HostFails, Bound
<1> QED BY <1>2, <1>3, <1>4 DEF LogInv, Logging

\* The worker keeps the main process's log, and its own once it has opened it.
LEMMA WorkerKeepsLog ==
  ASSUME NetworkTypeOK, WorkerInv, LogInv, Worker, config' = config
  PROVE  LogInv'
<1>1. /\ Proper(wopen) /\ {"log", "server"} \subseteq Uses
  BY DEF NetworkTypeOK, WorkerInv, Proper, Uses
<1>2. UNCHANGED <<pc, open, log_file>>
  BY DEF Worker, AcceptAndFork, ShutdownIo, DisconnectListener, StartLogging, StartClient,
         ConnectSocket, ConnectSocketFails, Connected, ConnectFails, NoLoop, EndRelay, Disconnect,
         bindVars
<1> SUFFICES ASSUME config["log_type"] = "file", wpc' \in Logging
             PROVE  /\ wlog_file' # -1 => wlog_file' \in UsedFor(wopen', "log")
                    /\ wpc' # "start" => wlog_file' # -1
  BY <1>2 DEF LogInv
<1>3. CASE StartLogging
  <2>1. CASE wopen' = wopen /\ wlog_file' = -1
    BY <1>3, <2>1 DEF StartLogging
  <2>2. CASE wopen' = Opened(wopen, "log") /\ wlog_file' = Lowest(wopen)
    <3>1. UsedFor(wopen', "log") = UsedFor(wopen, "log") \cup {Lowest(wopen)}
      BY <1>1, <2>2, OpenedTable, Zenon
    <3> QED BY <1>3, <2>2, <3>1 DEF StartLogging
  <2> QED BY <1>3, <2>1, <2>2 DEF StartLogging
<1>4. CASE StartClient
  BY <1>4 DEF StartClient, NoLog, LogInv, Logging
<1>5. CASE ConnectSocket
  <2>1. wpc = "connect" /\ wlog_file' = wlog_file /\ wopen' = Opened(wopen, "server")
    BY <1>5 DEF ConnectSocket
  <2>2. UsedFor(wopen, "log") \subseteq UsedFor(wopen', "log")
    BY <1>1, <2>1, OpeningKeeps
  <2> QED BY <2>1, <2>2 DEF LogInv, Logging
<1>6. CASE ConnectFails
  <2>1. wpc = "setup" /\ wlog_file' = wlog_file /\ wopen' = Closed(wopen, {server_fd})
    BY <1>6 DEF ConnectFails
  <2>2. UsedFor(wopen, "log") \subseteq UsedFor(wopen', "log")
    <3>1. {server_fd} \cap DOMAIN wopen \subseteq UsedFor(wopen, "server")
      BY <2>1 DEF WorkerInv
    <3> QED BY <2>1, <3>1, ClosingKeeps
  <2> QED BY <2>1, <2>2 DEF LogInv, Logging
<1>7. CASE ConnectSocketFails \/ Connected \/ EndRelay
  BY <1>7 DEF ConnectSocketFails, Connected, EndRelay, LogInv, Logging
<1> QED BY <1>3, <1>4, <1>5, <1>6, <1>7
        DEF Worker, AcceptAndFork, ShutdownIo, DisconnectListener, NoLoop, Disconnect, Logging

-----------------------------------------------------------------------------
(* The whole. *)

Invariant == TypeOK /\ ConfInv /\ BindInv /\ WorkerInv /\ LogInv /\ StartupInv

\* The first states satisfy the invariant.
LEMMA StartupBegins == Init => Invariant
<1> SUFFICES ASSUME Init PROVE Invariant
  OBVIOUS
<1>1. ConfTypeOK /\ ConfInv /\ NetworkTypeOK /\ BindInv /\ WorkerInv
  BY ConfTypeInit, NetworkInit DEF Init
<1>2. /\ stage = "read" /\ pc = "unix" /\ wpc = "unborn" /\ daemon \in BOOLEAN /\ loop = "none"
      /\ log_file = -1
  BY DEF Init, ConfInit, BindInit
<1> QED BY <1>1, <1>2 DEF Invariant, TypeOK, LogInv, Logging, StartupInv

\* The network's part, when nothing of it changes.
LEMMA NetworkIdle ==
  ASSUME NetworkTypeOK, BindInv, WorkerInv, UNCHANGED networkVars
  PROVE  NetworkTypeOK' /\ BindInv' /\ WorkerInv'
<1>1. UNCHANGED bindVars /\ UNCHANGED workerVars /\ UNCHANGED misfit
  BY DEF networkVars
<1>2. NetworkTypeOK'
  BY <1>1 DEF NetworkTypeOK, bindVars, workerVars
<1>3. BindInv'
  BY <1>1 DEF BindInv, Current, bindVars
<1>4. WorkerInv'
  BY <1>1 DEF WorkerInv, Live, bindVars, workerVars
<1> QED BY <1>2, <1>3, <1>4

\* The configuration's part, once the process has accepted it.
LEMMA ConfIdle ==
  ASSUME ConfTypeOK, ConfInv, Accepted, UNCHANGED confVars,
         stage' \in {"log", "output", "bind", "exited"}
  PROVE  ConfTypeOK' /\ ConfInv'
<1>1. ConfTypeOK'
  BY DEF ConfTypeOK, confVars
<1>2. ConfInv'
  BY DEF ConfInv, Accepted, confVars
<1> QED BY <1>1, <1>2

\* Opening the log file or the trace file keeps the invariant.
LEMMA OpenFileStep ==
  ASSUME Invariant, NEW use \in {"log", "output"}, NEW next \in {"output", "bind"},
         stage = use, OpenFile(use, next),
         IF use = "log" THEN log_file' = IF open' = open THEN -1 ELSE Lowest(open)
                        ELSE log_file' = log_file
  PROVE  Invariant'
<1>1. /\ stage' = next /\ UNCHANGED confVars
      /\ UNCHANGED <<pc, paths, host, address, sockfd, result, fds, misfit, daemon, loop>>
      /\ UNCHANGED workerVars
      /\ open' = open \/ open' = Opened(open, use)
  BY DEF OpenFile
<1>2. /\ TypeOK /\ ConfTypeOK /\ NetworkTypeOK /\ ConfInv /\ BindInv /\ WorkerInv
      /\ pc = "unix" /\ wpc = "unborn"
  BY DEF Invariant, TypeOK, StartupInv
<1>3. Proper(open) /\ log_file \in Int
  BY <1>2 DEF NetworkTypeOK, BindInv, Proper
<1>4. /\ Proper(open') /\ DOMAIN open \subseteq DOMAIN open'
      /\ \A other \in Uses \ {"log", "output"} : UsedFor(open', other) = UsedFor(open, other)
  <2>1. CASE open' = open
    BY <1>3, <2>1
  <2>2. CASE open' = Opened(open, use)
    <3>1. use \in Uses
      BY DEF Uses
    <3>2. /\ Proper(open') /\ DOMAIN open' = DOMAIN open \cup {Lowest(open)}
          /\ \A other \in Uses \ {use} : UsedFor(open', other) = UsedFor(open, other)
      BY <1>3, <2>2, <3>1, OpenedTable, Zenon
    <3> QED BY <3>2
  <2> QED BY <1>1, <2>1, <2>2
<1>5. /\ UsedFor(open', "listener") = UsedFor(open, "listener")
      /\ UsedFor(open', "client") = UsedFor(open, "client")
      /\ UsedFor(open', "server") = UsedFor(open, "server")
  BY <1>4 DEF Uses
<1>6. ConfTypeOK' /\ ConfInv'
  BY <1>1, <1>2, ConfIdle DEF Accepted
<1>7. NetworkTypeOK'
  <2>1. log_file' \in Int
    BY <1>3, LowestFree DEF Proper, Table
  <2> QED BY <1>1, <1>2, <1>4, <2>1 DEF NetworkTypeOK, Proper, workerVars
<1>8. BindInv'
  BY <1>1, <1>2, <1>4, <1>5 DEF BindInv, Proper, Current
<1>9. WorkerInv'
  <2>1. ~misfit'
    BY <1>1, <1>2 DEF WorkerInv
  <2> QED BY <1>1, <1>2, <2>1, NoWorkerYet
<1>10. pc' = "unix" /\ wpc' = "unborn" /\ config' = config
  BY <1>1, <1>2 DEF workerVars, confVars
<1>11. StartupInv'
  BY <1>1, <1>2, <1>10 DEF StartupInv
<1>12. LogInv'
  <2>1. CASE open' = open /\ log_file' = -1
    BY <1>10, <2>1 DEF LogInv, Logging
  <2>2. CASE open' = open /\ log_file' = log_file
    BY <1>2, <1>10, <2>2 DEF LogInv, Logging, Invariant
  <2>3. CASE use = "log" /\ open' = Opened(open, "log") /\ log_file' = Lowest(open)
    <3>1. "log" \in Uses
      BY DEF Uses
    <3>2. UsedFor(open', "log") = UsedFor(open, "log") \cup {Lowest(open)}
      BY <1>3, <2>3, <3>1, OpenedTable, Zenon
    <3> QED BY <1>10, <2>3, <3>2 DEF LogInv, Logging
  <2>4. CASE use = "output" /\ open' = Opened(open, "output") /\ log_file' = log_file
    <3>1. "log" \in Uses /\ "output" \in Uses
      BY DEF Uses
    <3>2. UsedFor(open, "log") \subseteq UsedFor(open', "log")
      BY <1>3, <2>4, <3>1, OpeningKeeps
    <3> QED BY <1>2, <1>10, <2>4, <3>2 DEF LogInv, Logging, Invariant
  <2> QED BY <1>1, <2>1, <2>2, <2>3, <2>4
<1>13. TypeOK'
  BY <1>1, <1>2, <1>6, <1>7 DEF TypeOK
<1> QED BY <1>6, <1>8, <1>9, <1>11, <1>12, <1>13 DEF Invariant

\* Reading the configuration and going to the background keep the invariant.
LEMMA BeforeSockets ==
  ASSUME Invariant,
         \/ ReadConfiguration /\ UNCHANGED <<networkVars, daemon, loop>>
         \/ Daemonize \/ ConsoleLog
  PROVE  Invariant'
<1>1. /\ ConfTypeOK /\ NetworkTypeOK /\ ConfInv /\ BindInv /\ WorkerInv
      /\ daemon \in BOOLEAN /\ loop \in {"none", "auto"} \cup Engines
  BY DEF Invariant, TypeOK
<1>2. UNCHANGED <<networkVars, daemon, loop>>
  BY DEF Daemonize, ConsoleLog
<1>3. NetworkTypeOK' /\ BindInv' /\ WorkerInv'
  BY <1>1, <1>2, NetworkIdle
<1>4. stage # "bind" /\ stage' \in {"read", "validate", "daemon", "log", "output", "exited"}
  BY DEF ReadConfiguration, NoConfiguration, ReadSection, ReadMain, ReadServer, IsSetting,
         EndOfFile, Validate, ValidateFails, Daemonize, ConsoleLog
<1>5. pc = "unix" /\ wpc = "unborn" /\ UNCHANGED <<pc, wpc, open, log_file>>
  BY <1>2, <1>4 DEF Invariant, StartupInv, networkVars, bindVars, workerVars
<1>6. ConfTypeOK' /\ ConfInv'
  <2>1. CASE ReadConfiguration
    BY <1>1, <2>1, ConfStep
  <2>2. CASE Daemonize \/ ConsoleLog
    BY <1>1, <2>2, ConfIdle DEF Daemonize, ConsoleLog, Accepted
  <2> QED BY <2>1, <2>2
<1>7. TypeOK'
  BY <1>1, <1>2, <1>3, <1>4, <1>6 DEF TypeOK
<1>8. stage \in {"read", "validate", "daemon", "log"} /\ log_file = -1
  <2>1. stage \in {"read", "validate", "daemon", "log"}
    BY DEF ReadConfiguration, NoConfiguration, ReadSection, ReadMain, ReadServer, IsSetting,
           EndOfFile, Validate, ValidateFails, Daemonize, ConsoleLog
  <2> QED BY <2>1 DEF Invariant, StartupInv
<1>9. StartupInv'
  BY <1>4, <1>5, <1>8 DEF StartupInv
<1>10. LogInv'
  BY <1>5, <1>8 DEF LogInv, Logging
<1> QED BY <1>3, <1>6, <1>7, <1>9, <1>10 DEF Invariant

\* Binding and the worker keep the invariant.
LEMMA SocketSteps ==
  ASSUME Invariant, stage = "bind", Bind \/ Worker, UNCHANGED <<stage, confVars, daemon, loop>>
  PROVE  Invariant'
<1>1. /\ ConfTypeOK /\ NetworkTypeOK /\ ConfInv /\ BindInv /\ WorkerInv
      /\ daemon \in BOOLEAN /\ loop \in {"none", "auto"} \cup Engines
      /\ config' = config /\ Proper(wopen)
  BY DEF Invariant, TypeOK, confVars, Proper, NetworkTypeOK, WorkerInv
<1>2. NetworkTypeOK' /\ BindInv' /\ WorkerInv'
  BY <1>1, BindStep, WorkerStep
<1>3. ConfTypeOK' /\ ConfInv'
  BY <1>1, ConfIdle DEF Accepted
<1>4. TypeOK'
  BY <1>1, <1>2, <1>3 DEF TypeOK
<1>5. StartupInv'
  <2>1. CASE Bind
    <3>1. /\ pc' \in {"host", "address", "setup", "libev", "exited"} /\ UNCHANGED workerVars
      BY <2>1 DEF Bind, BindUnix, BindUnixFails, InterfacesFail, Resolve, Socket, SocketFails,
                  Listen, SetupFails, HostBound, HostFails, Bound, Logs
    <3> QED BY <3>1 DEF StartupInv
  <2>2. CASE Worker
    <3>1. UNCHANGED <<pc, open, paths>>
      BY <2>2 DEF Worker, AcceptAndFork, ShutdownIo, DisconnectListener, StartLogging, StartClient,
                  ConnectSocket, ConnectSocketFails, Connected, ConnectFails, NoLoop, EndRelay,
                  Disconnect, bindVars
    <3>2. SocketPath' = SocketPath /\ UnixSocket' = UnixSocket
      BY <1>1 DEF SocketPath, UnixSocket
    <3> QED BY <3>1, <3>2 DEF StartupInv, Invariant
  <2> QED BY <2>1, <2>2
<1>6. LogInv'
  BY <1>1, BindKeepsLog, WorkerKeepsLog DEF Invariant
<1> QED BY <1>2, <1>3, <1>4, <1>5, <1>6 DEF Invariant

\* libev answers with an engine, with "auto" or with "none".
LEMMA LibevType ==
  ASSUME NEW engine PROVE Libev(engine) \in {"none", "auto"} \cup Engines
  BY DEF Libev

\* Starting the loop, or failing to, keeps the invariant.
LEMMA LoopStarts ==
  ASSUME Invariant, NoLoopImplementation \/ StartIo
  PROVE  Invariant'
<1>1. /\ ConfTypeOK /\ NetworkTypeOK /\ ConfInv /\ BindInv /\ WorkerInv
      /\ daemon \in BOOLEAN /\ loop \in {"none", "auto"} \cup Engines
  BY DEF Invariant, TypeOK
<1>2. /\ stage = "bind" /\ stage' = "bind" /\ UNCHANGED confVars /\ config' = config
      /\ pc = "libev" /\ pc' \in {"ready", "exited"} /\ (pc' = "ready" => ~NoLog(log_file))
      /\ UNCHANGED <<paths, open, host, address, sockfd, result, fds, log_file, misfit, daemon>>
      /\ UNCHANGED workerVars
      /\ loop' = loop \/ loop' = Libev(config["libev"])
  BY DEF NoLoopImplementation, StartIo, confVars
<1>3. ConfTypeOK' /\ ConfInv'
  BY <1>1, <1>2, ConfIdle DEF Accepted
<1>4. NetworkTypeOK'
  BY <1>1, <1>2 DEF NetworkTypeOK, workerVars
<1>5. BindInv'
  BY <1>1, <1>2 DEF BindInv, Current
<1>6. wpc = "unborn" /\ ~misfit'
  BY <1>1, <1>2 DEF WorkerInv
<1>7. WorkerInv'
  BY <1>1, <1>2, <1>6, NoWorkerYet
<1>8. loop' \in {"none", "auto"} \cup Engines
  BY <1>1, <1>2, LibevType, Zenon
<1>9. TypeOK'
  BY <1>1, <1>2, <1>3, <1>4, <1>8 DEF TypeOK
<1>10. StartupInv'
  BY <1>2 DEF StartupInv
<1>11. LogInv'
  <2>1. wpc' = "unborn"
    BY <1>2, <1>6 DEF workerVars
  <2> QED BY <1>2, <2>1 DEF LogInv, Logging, NoLog, Invariant
<1> QED BY <1>3, <1>5, <1>7, <1>9, <1>10, <1>11 DEF Invariant

\* Closing the listeners at the end keeps the invariant.
LEMMA SocketsClose ==
  ASSUME Invariant, ShutdownMain
  PROVE  Invariant'
<1>1. /\ ConfTypeOK /\ NetworkTypeOK /\ ConfInv /\ BindInv /\ WorkerInv
      /\ daemon \in BOOLEAN /\ loop \in {"none", "auto"} \cup Engines
  BY DEF Invariant, TypeOK
<1>2. /\ stage = "bind" /\ stage' = "bind" /\ UNCHANGED confVars /\ config' = config
      /\ pc = "ready" /\ pc' = "closing"
      /\ open' = Closed(open, FdsOf(fds) \cup UsedFor(open, "unix"))
      /\ misfit' = (misfit \/ Misfits(open, FdsOf(fds), "listener"))
      /\ paths' = IF UnixSocket THEN paths \ {PathIn(MaxString)} ELSE paths
      /\ UNCHANGED <<host, address, sockfd, result, fds, log_file, daemon, loop>>
      /\ UNCHANGED workerVars
  BY DEF ShutdownMain, confVars, UsedFor
<1>3. /\ Proper(open) /\ UsedFor(open, "listener") = FdsOf(fds)
      /\ UsedFor(open, "client") = {} /\ UsedFor(open, "server") = {} /\ ~misfit
  BY <1>1, <1>2 DEF NetworkTypeOK, BindInv, WorkerInv, Proper, Current
<1>4. PICK closing : closing = FdsOf(fds) \cup UsedFor(open, "unix")
  OBVIOUS
<1>5. open' = Closed(open, closing)
  BY <1>2, <1>4
<1>6. Proper(open')
  BY <1>3, <1>5, ClosedTable, Zenon
<1>7. ASSUME NEW use PROVE UsedFor(open', use) = UsedFor(open, use) \ closing
  BY <1>5, ClosedUses, Zenon
<1>8. /\ UsedFor(open', "listener") = {} /\ UsedFor(open', "unix") = {}
      /\ UsedFor(open', "client") = {} /\ UsedFor(open', "server") = {}
  BY <1>3, <1>4, <1>7
<1>9. ~misfit' /\ misfit' \in BOOLEAN
  <2>1. FdsOf(fds) \cap DOMAIN open \subseteq UsedFor(open, "listener")
    BY <1>3
  <2>2. ~Misfits(open, FdsOf(fds), "listener")
    BY <2>1, UsesOfOpen
  <2> QED BY <1>2, <1>3, <2>2, Zenon
<1>10. ConfTypeOK' /\ ConfInv'
  BY <1>1, <1>2, ConfIdle DEF Accepted
<1>11. NetworkTypeOK'
  BY <1>1, <1>2, <1>6, <1>9 DEF NetworkTypeOK, Proper, workerVars
<1>12. BindInv'
  BY <1>1, <1>2, <1>6, <1>8 DEF BindInv, Proper
<1>13. WorkerInv'
  BY <1>1, <1>2, <1>9 DEF WorkerInv, Live, workerVars
<1>14. TypeOK'
  BY <1>1, <1>2, <1>10, <1>11 DEF TypeOK
<1>15. StartupInv'
  <2>1. UnixSocket' = UnixSocket /\ SocketPath' = SocketPath
    BY <1>2 DEF UnixSocket, SocketPath
  <2>2. UnixSocket /\ Len(SocketPath) <= MaxPath => SocketPath \notin paths'
    <3> SUFFICES ASSUME UnixSocket, Len(SocketPath) <= MaxPath PROVE SocketPath \notin paths'
      OBVIOUS
    <3>1. SocketPath \in Seq(STRING)
      BY <1>1, PathType, NetworkAssumption
    <3>2. MaxString \in Nat /\ Len(SocketPath) <= MaxString
      BY <3>1, NetworkAssumption, ConfigurationAssumption
    <3>3. PathIn(MaxString) = SocketPath
      BY <1>1, <3>2, PathType
    <3> QED BY <1>2, <3>3
  <2> QED BY <1>2, <2>1, <2>2 DEF StartupInv
<1>16. LogInv'
  <2>1. UsedFor(open, "log") \cap closing = {}
    <3>1. /\ UsedFor(open, "listener") \cap UsedFor(open, "log") = {}
          /\ UsedFor(open, "unix") \cap UsedFor(open, "log") = {}
      BY UsesDiffer
    <3> QED BY <1>3, <1>4, <3>1
  <2>2. UsedFor(open', "log") = UsedFor(open, "log")
    BY <1>7, <2>1
  <2> QED BY <1>2, <2>2 DEF LogInv, workerVars, Invariant
<1> QED BY <1>10, <1>12, <1>13, <1>14, <1>15, <1>16 DEF Invariant

\* Closing the files at the end keeps the invariant.
LEMMA FilesClose ==
  ASSUME Invariant, CloseFiles
  PROVE  Invariant'
<1>1. /\ ConfTypeOK /\ NetworkTypeOK /\ ConfInv /\ BindInv /\ WorkerInv
      /\ daemon \in BOOLEAN /\ loop \in {"none", "auto"} \cup Engines
  BY DEF Invariant, TypeOK
<1>2. PICK closing : closing = {fd \in DOMAIN open : open[fd] \in {"output", "log"}}
  OBVIOUS
<1>3. /\ stage = "bind" /\ stage' = "bind" /\ UNCHANGED confVars /\ config' = config
      /\ pc = "closing"
      /\ \/ pc' = "stopped" /\ loop' = "none" /\ open' = Closed(open, closing)
         \/ pc' = "exited" /\ loop' = loop /\ open' = open
      /\ UNCHANGED <<paths, host, address, sockfd, result, fds, log_file, misfit, daemon>>
      /\ UNCHANGED workerVars
  BY <1>2 DEF CloseFiles, confVars
<1>4. /\ Proper(open) /\ UsedFor(open, "listener") = {} /\ UsedFor(open, "unix") = {}
      /\ UsedFor(open, "client") = {} /\ UsedFor(open, "server") = {}
  BY <1>1, <1>3 DEF NetworkTypeOK, BindInv, Proper
<1>5. DOMAIN open \ closing = {}
  BY <1>2, <1>4 DEF Proper, Table, Uses, UsedFor
<1>6. /\ Proper(open') /\ (pc' = "stopped" => DOMAIN open' = {})
      /\ UsedFor(open', "client") = {} /\ UsedFor(open', "server") = {}
  <2>1. CASE open' = open /\ pc' = "exited"
    BY <1>4, <2>1
  <2>2. CASE open' = Closed(open, closing)
    <3>1. Proper(open') /\ DOMAIN open' = DOMAIN open \ closing
      BY <1>4, <2>2, ClosedTable, Zenon
    <3> QED BY <1>5, <3>1 DEF UsedFor
  <2> QED BY <1>3, <2>1, <2>2
<1>7. ConfTypeOK' /\ ConfInv'
  BY <1>1, <1>3, ConfIdle DEF Accepted
<1>8. NetworkTypeOK'
  BY <1>1, <1>3, <1>6 DEF NetworkTypeOK, Proper, workerVars
<1>9. BindInv'
  BY <1>1, <1>3, <1>6 DEF BindInv, Proper
<1>10. WorkerInv'
  BY <1>1, <1>3 DEF WorkerInv, Live, workerVars
<1>11. TypeOK'
  BY <1>1, <1>3, <1>7, <1>8 DEF TypeOK
<1>12. StartupInv'
  <2>1. UnixSocket' = UnixSocket /\ SocketPath' = SocketPath
    BY <1>3 DEF UnixSocket, SocketPath
  <2> QED BY <1>3, <1>6, <2>1 DEF StartupInv, Invariant
<1>13. LogInv'
  BY <1>3 DEF LogInv, workerVars, Invariant
<1> QED BY <1>7, <1>9, <1>10, <1>11, <1>12, <1>13 DEF Invariant

\* Every step of Startup keeps the invariant.
LEMMA StartupStep == Invariant /\ [Next]_vars => Invariant'
<1> SUFFICES ASSUME Invariant, [Next]_vars PROVE Invariant'
  OBVIOUS
<1>1. CASE OpenLog
  <2>1. /\ stage = "log" /\ OpenFile("log", "output")
        /\ log_file' = IF open' = open THEN -1 ELSE Lowest(open)
    BY <1>1 DEF OpenLog
  <2> QED BY <2>1, OpenFileStep
<1>2. CASE OpenOutput
  <2>1. stage = "output" /\ OpenFile("output", "bind") /\ log_file' = log_file
    BY <1>2 DEF OpenOutput
  <2> QED BY <2>1, OpenFileStep
<1>3. CASE UNCHANGED vars
  <2>1. UNCHANGED <<stage, confVars, networkVars, daemon, loop>>
    BY <1>3 DEF vars
  <2>2. ConfTypeOK' /\ ConfInv'
    BY <2>1 DEF Invariant, TypeOK, ConfTypeOK, ConfInv, Accepted, confVars
  <2>3. NetworkTypeOK' /\ BindInv' /\ WorkerInv'
    BY <2>1, NetworkIdle DEF Invariant, TypeOK
  <2>4. TypeOK'
    BY <2>1, <2>2, <2>3 DEF Invariant, TypeOK
  <2>5. StartupInv'
    BY <2>1 DEF Invariant, StartupInv, UnixSocket, SocketPath, confVars, networkVars, bindVars,
                workerVars
  <2>6. LogInv'
    BY <2>1 DEF Invariant, LogInv, confVars, networkVars, bindVars, workerVars
  <2> QED BY <2>2, <2>3, <2>4, <2>5, <2>6 DEF Invariant
<1> QED BY <1>1, <1>2, <1>3, BeforeSockets, SocketSteps, LoopStarts, SocketsClose, FilesClose
        DEF Next

\* The invariant holds in every state.
LEMMA InvariantHolds == Spec => []Invariant
  BY StartupBegins, StartupStep, PTL DEF Spec

\* The dump of the largest legal chunk fits the buffer of the log.
LEMMA DumpIsSmall ==
  ASSUME NEW n \in Int, 0 < n, n <= 65535
  PROVE  DumpLength(n) < 256 * 1024
<1>1. PICK q : q = (n - 1) \div 32
  OBVIOUS
<1>2. q \in Int /\ q <= 2047
  BY <1>1
<1> QED BY <1>1, <1>2 DEF DumpLength

-----------------------------------------------------------------------------
\* The settings, the tables of descriptors and the loops of the main process and of its worker
\* (main.c:158-446) have their types for every file, every stack and any number of interfaces.
THEOREM StartupTypeCorrect == Spec => []TypeOK
  BY InvariantHolds, PTL DEF Invariant

\* For every file (configuration.c:69-345): what the stack held is never taken for the server,
\* unless a section has no name.
THEOREM ServerIsFromFile == Spec => []ServerFromFile
<1>1. Invariant => ServerFromFile
  BY DEF Invariant, ConfInv, ServerFromFile
<1> QED BY <1>1, InvariantHolds, PTL

\* For every buffer_size a file may ask for (configuration.c:309) and every limit up to
\* MAX_BUFFER_SIZE: the dump of a full chunk fits what logging.c:169-232 reserves.
THEOREM DumpAlwaysFits == Spec => []DumpFits
<1>1. Invariant => DumpFits
  <2> SUFFICES ASSUME Invariant, config["buffer_size"] > 0
               PROVE  DumpLength(config["buffer_size"]) < 256 * 1024
    BY DEF DumpFits
  <2>1. PICK n : n = config["buffer_size"]
    OBVIOUS
  <2>2. n \in Int /\ n <= MaxBuffer /\ n > 0
    BY <2>1 DEF Invariant, TypeOK, ConfTypeOK, ConfInv, IntKeys
  <2>3. MaxBuffer \in Int /\ MaxBuffer <= 65535
    BY ConfigurationAssumption
  <2>4. n \in Int /\ 0 < n /\ n <= 65535
    BY <2>2, <2>3
  <2>5. DumpLength(n) < 256 * 1024
    BY <2>4, DumpIsSmall
  <2> QED BY <2>1, <2>5
<1> QED BY <1>1, InvariantHolds, PTL

\* However many of the calls on the way fail (main.c:248-337, worker.c:64-135) and whichever
\* numbers are closed and used again: whoever serves still has its own log behind the number
\* its log_file writes to.
THEOREM LogStaysOpen == Spec => []LogIsOpen
<1>1. Invariant => LogIsOpen
  BY DEF Invariant, LogInv, LogIsOpen, Logging
<1> QED BY <1>1, InvariantHolds, PTL

\* For any number of interfaces and addresses, whichever of them fail (network.c:443-491,
\* main.c:298-335): the main process listens on exactly the descriptors it has stored.
THEOREM ListenersAreExact == Spec => []ListenersExact
<1>1. Invariant => ListenersExact
  BY DEF Invariant, BindInv, ListenersExact, Current
<1> QED BY <1>1, InvariantHolds, PTL

\* However the numbers of the descriptors are used again (main.c:427-428, network.c:224,
\* worker.c:135), no close() of the two processes hits what its caller did not mean.
THEOREM ClosesOnlyOwn == Spec => []ClosesOwn
<1>1. Invariant => ClosesOwn
  BY DEF Invariant, WorkerInv, ClosesOwn
<1> QED BY <1>1, InvariantHolds, PTL

\* A worker that relays holds its two sockets and no listening one, and one that has ended its
\* session (worker.c:134-135) neither, wherever the connection failed.
THEOREM WorkerHoldsItsOwn == Spec => []WorkerDescriptors
<1>1. Invariant => WorkerDescriptors
  <2> SUFFICES ASSUME Invariant PROVE WorkerDescriptors
    OBVIOUS
  <2>1. wpc = "relay" => /\ UsedFor(wopen, "client") = {client_fd}
                         /\ UsedFor(wopen, "server") = {server_fd}
                         /\ UsedFor(wopen, "listener") = {}
    BY DEF Invariant, WorkerInv, Live
  <2>2. wpc = "exited" => UsedFor(wopen, "client") = {} /\ UsedFor(wopen, "server") = {}
    BY DEF Invariant, WorkerInv
  <2> QED BY <2>1, <2>2 DEF WorkerDescriptors, UsedFor, HasOpen
<1> QED BY <1>1, InvariantHolds, PTL

\* A main process that has ended well (main.c:360-390) holds no descriptor, and its Unix socket
\* is gone from the file system when its path fits the shorter of the two buffers
\* (network.c:265, 342).
THEOREM EverythingIsReleased == Spec => []ReleasesAll
<1>1. Invariant => ReleasesAll
  BY DEF Invariant, StartupInv, ReleasesAll
<1> QED BY <1>1, InvariantHolds, PTL
=============================================================================

---------------------------- MODULE StartupProofs ----------------------------
(***************************************************************************)
(* What a start of the program guarantees, for every set of settings'      *)
(* lines, every card and any number of starts.  Whatever the settings do,  *)
(* the key files go through the steps of KeyStore, so its theorems hold of *)
(* Startup too; the invariant on top of them is about `state`, which the   *)
(* settings and the keys both write.                                       *)
(***************************************************************************)
EXTENDS Startup, KeyStoreProofs

-----------------------------------------------------------------------------
(* Startup's steps are KeyStore's.                                         *)

\* Reading the settings leaves the key files alone, and everything that touches
\* them is a step of gs_new, of gs_conf_init, of the user or of the card.
LEMMA StartupStepsKeys == [StartupNext]_startupVars => [Next]_vars
<1> SUFFICES ASSUME [StartupNext]_startupVars
             PROVE  [Next]_vars
  OBVIOUS
<1>1. CASE Configure
  BY <1>1 DEF Configure
<1>2. CASE LoadKeys \/ Keys
  BY <1>2 DEF LoadKeys, Keys, Next, Outside
<1>3. CASE Ends \/ Card
  BY <1>3 DEF Ends, Card, Next, Outside
<1>4. CASE UNCHANGED startupVars
  BY <1>4 DEF startupVars
<1>. QED
  BY <1>1, <1>2, <1>3, <1>4 DEF StartupNext

\* The keys of a start behave as KeyStore says.
THEOREM StartupImplementsKeyStore == StartupSpec => Spec
<1>1. StartupInit => Init
  BY DEF StartupInit
<1>. QED
  BY <1>1, StartupStepsKeys, PTL DEF StartupSpec, Spec

\* So a client that runs has the key of its certificate, whatever files were
\* read before it was loaded.
THEOREM StartupKeysMatch == StartupSpec => []KeysMatch
  BY StartupImplementsKeyStore, RunningKeysMatch, PTL

\* And a complete key or certificate is never written over.
THEOREM StartupIdentityKept == StartupSpec => IdentityKept
  BY StartupImplementsKeyStore, IdentityNotOverwritten, PTL

-----------------------------------------------------------------------------
(* The state the main loop begins in.                                      *)

\* `state` at each point of a start.
StateByPlace ==
  /\ "address" \in DOMAIN config
  /\ reading \in {"off", "main", "host", "done", "used", "exited"}
  /\ pc = "off" <=> reading # "used"
  /\ reading \in {"off", "main", "host"} => state = "INVALID"
  /\ reading = "host" => config.address # None
  /\ reading \in {"done", "used"} /\ pc # "INVALID" =>
       (state = "CONNECTING" <=> config.address # None)
  /\ pc = "INVALID" => state = "INVALID"

\* A line never takes the address away.
LEMMA AddressStays ==
  ASSUME NEW l \in Lines, "address" \in DOMAIN config
  PROVE  /\ "address" \in DOMAIN Assigned(l)
         /\ config.address # None => Assigned(l).address # None
  BY ConfigAssumption DEF Assigned, Settings, Flags, None

\* Nor does what config_parse and main add.
LEMMA AddressFilled ==
  ASSUME "address" \in DOMAIN config, Overridden
  PROVE  "address" \in DOMAIN config' /\ config'.address = config.address
  BY DEF Overridden, Filled

\* Initially nothing has been read.
LEMMA InitStateByPlace == StartupInit => StateByPlace
  BY DEF StartupInit, ConfigInit, Init, StateByPlace, Defaults

\* Reading the settings.
LEMMA ConfigureStateByPlace ==
  ASSUME StateByPlace, Configure
  PROVE  StateByPlace'
<1>1. pc = "off" /\ pc' = "off"
  BY DEF Configure, vars
<1>2. CASE Boot \/ EndInclude \/ EndHost
  BY <1>1, <1>2 DEF Boot, EndInclude, EndHost, StateByPlace
<1>3. CASE EndMain
  BY <1>1, <1>3, AddressFilled DEF EndMain, StateByPlace
<1>4. CASE \E l \in Lines : Line(l) \/ LineExits(l) \/ Include(l)
  <2>1. PICK l \in Lines : Line(l) \/ LineExits(l) \/ Include(l)
    BY <1>4
  <2>2. CASE Line(l)
    <3>1. config' = Assigned(l) /\ state' = state /\ reading' = reading /\ reading \in {"main", "host"}
      BY <2>2 DEF Line
    <3>2. /\ "address" \in DOMAIN config'
          /\ config.address # None => config'.address # None
      BY <3>1, AddressStays DEF StateByPlace
    <3>. QED
      BY <1>1, <3>1, <3>2 DEF StateByPlace
  <2>3. CASE LineExits(l)
    BY <1>1, <2>3 DEF LineExits, StateByPlace
  <2>4. CASE Include(l)
    BY <1>1, <2>4 DEF Include, StateByPlace
  <2>. QED
    BY <2>1, <2>2, <2>3, <2>4
<1>. QED
  BY <1>2, <1>3, <1>4 DEF Configure, ConfigNext

\* Loading and creating the keys.
LEMMA KeysStateByPlace ==
  ASSUME KInv, StateByPlace, Keys
  PROVE  StateByPlace'
<1>1. pc # "off" /\ pc # "INVALID" /\ pc' # "off"
  BY DEF Keys, Load, LoadId, NoId, LoadCert, NoCert, Create, MakeDir, DirExists, InitFails, OpenId,
         WriteId, MakeKeys, OpenKey, WriteKey, CertNext, OpenCert, WriteCert, InitSteps
<1>2. UNCHANGED <<reading, included, config, said>> /\ StateAfter(pc' = "INVALID")
  BY DEF Keys
<1>. QED
  BY <1>1, <1>2 DEF StateByPlace, StateAfter

\* Every step keeps `state` in step with the settings and the keys.
LEMMA NextStateByPlace == KInv /\ StateByPlace /\ [StartupNext]_startupVars => StateByPlace'
<1> SUFFICES ASSUME KInv, StateByPlace, [StartupNext]_startupVars
             PROVE  StateByPlace'
  OBVIOUS
<1>1. CASE LoadKeys
  BY <1>1 DEF LoadKeys, Start, StateByPlace
<1>2. CASE Ends
  BY <1>2 DEF Ends, PowerOff, StateByPlace, Defaults, vars
<1>3. CASE Card
  BY <1>3 DEF Card, WipeDir, LoseFile, StateByPlace, configVars
<1>4. CASE UNCHANGED startupVars
  BY <1>4 DEF startupVars, configVars, vars, StateByPlace
<1>. QED
  BY <1>1, <1>2, <1>3, <1>4, ConfigureStateByPlace, KeysStateByPlace DEF StartupNext

\* The main loop begins in CONNECTING exactly when there is an address and a
\* client with a key of its own.
THEOREM StartupConnects == StartupSpec => []ConnectsWithClient
<1>1. KInv /\ StateByPlace => ConnectsWithClient
  <2> SUFFICES ASSUME KInv, StateByPlace, pc \in {"running", "INVALID"}
               PROVE  state = "CONNECTING" <=> config.address # None /\ pc = "running" /\ key = cert
    BY DEF ConnectsWithClient
  <2>1. pc = "running" => key = cert
    BY DEF KInv, SamePair
  <2>. QED
    BY <2>1 DEF StateByPlace
<1>2. StartupSpec => []KInv
  BY StartupImplementsKeyStore, KeyStoreInvariance, PTL
<1>. QED
  BY <1>1, <1>2, InitStateByPlace, NextStateByPlace, PTL DEF StartupSpec

-----------------------------------------------------------------------------
(* The settings.                                                           *)

Entries == [file : Files, line : Lines]

\* Whether a line speaks of a setting.
Hit(e, keys, F) == /\ e.line.key \in keys /\ e.file \in F
                   /\ e.line.key \in Flags => e.line.value

\* The options that decide about each setting.
KeySets == {{"width"} \cup DOMAIN Width, {"height"} \cup DOMAIN Height, {"fps"}, {"address"},
            {"bitrate"}, {"sops", "nosops", "mapping"}, {"nounsupported"}}

\* The lines read, and that there is a last one of every kind, if any.
SaidOK ==
  /\ said \in Seq(Entries)
  /\ \A keys \in KeySets : \A F \in SUBSET Files : LastOf(keys, F) \in 0..Len(said)
  /\ reading = "main" => \A keys \in KeySets : LastOf(keys, {"host"}) = 0
  /\ reading = "off" => said = <<>> /\ config = Defaults

\* A line more.
LEMMA SaidAppend ==
  ASSUME said \in Seq(Entries), NEW e \in Entries, said' = Append(said, e)
  PROVE  /\ said' \in Seq(Entries) /\ Len(said') = Len(said) + 1 /\ Len(said) \in Nat
         /\ \A k \in DOMAIN said : said'[k] = said[k]
         /\ said'[Len(said) + 1] = e
         /\ DOMAIN said = 1..Len(said) /\ DOMAIN said' = 1..(Len(said) + 1)
  OBVIOUS

\* The last line that speaks of a setting is the new one, or the one it was.
LEMMA LastOfAppend ==
  ASSUME said \in Seq(Entries), NEW e \in Entries, said' = Append(said, e), NEW keys, NEW F
  PROVE  LastOf(keys, F)' = IF Hit(e, keys, F) THEN Len(said) + 1 ELSE LastOf(keys, F)
<1> DEFINE n == Len(said)
           hits == {k \in DOMAIN said : Hit(said[k], keys, F)}
           hits2 == {k \in DOMAIN said' : Hit(said'[k], keys, F)}
           last(S) == IF S = {} THEN 0 ELSE CHOOSE k \in S : \A j \in S : j <= k
<1>1. LastOf(keys, F) = last(hits) /\ LastOf(keys, F)' = last(hits2)
  BY DEF LastOf, Effective, Hit
<1>2. /\ n \in Nat /\ DOMAIN said = 1..n /\ DOMAIN said' = 1..(n + 1)
      /\ said'[n + 1] = e /\ \A k \in DOMAIN said : said'[k] = said[k]
  BY SaidAppend
<1>3. CASE ~Hit(e, keys, F)
  <2>1. hits2 = hits
    <3>1. ASSUME NEW k \in DOMAIN said'
          PROVE  k \in hits2 <=> k \in hits
      <4>1. CASE k = n + 1
        BY <1>2, <1>3, <4>1
      <4>2. CASE k \in DOMAIN said
        BY <1>2, <4>2
      <4>. QED
        BY <1>2, <4>1, <4>2
    <3>. QED
      BY <1>2, <3>1
  <2>. QED
    BY <1>1, <1>3, <2>1
<1>4. CASE Hit(e, keys, F)
  <2>1. n + 1 \in hits2 /\ \A j \in hits2 : j \in Nat /\ j <= n + 1
    BY <1>2, <1>4
  <2> HIDE DEF hits2, n
  <2>2. \A k \in hits2 : (\A j \in hits2 : j <= k) => k = n + 1
    BY <1>2, <2>1
  <2>3. (CHOOSE k \in hits2 : \A j \in hits2 : j <= k) = n + 1
    BY <2>1, <2>2
  <2>. QED
    BY <1>1, <1>4, <2>1, <2>3 DEF n
<1>. QED
  BY <1>3, <1>4

\* So a setting of one option is what the new line says, or what it was.
LEMMA PlainAppend ==
  ASSUME SaidOK, NEW e \in Entries, said' = Append(said, e),
         NEW name \in {"fps", "address", "bitrate"}
  PROVE  Plain(name)' = IF e.line.key = name THEN e.line.value ELSE Plain(name)
<1> DEFINE K == LastOf({name}, Files)
<1>1. K \in 0..Len(said)
  BY DEF SaidOK, KeySets
<1>2. K' = IF e.line.key = name THEN Len(said) + 1 ELSE K
  BY LastOfAppend DEF SaidOK, Hit, Entries, Flags
<1>3. /\ said'[Len(said) + 1] = e /\ Len(said) \in Nat
      /\ \A k \in 1..Len(said) : said'[k] = said[k]
  BY SaidAppend DEF SaidOK
<1>4. /\ Plain(name) = IF K = 0 THEN Defaults[name] ELSE said[K].line.value
      /\ Plain(name)' = IF K' = 0 THEN Defaults[name] ELSE said'[K'].line.value
  BY DEF Plain
<1> HIDE DEF K
<1>. QED
  BY <1>1, <1>2, <1>3, <1>4

\* A size also follows the options that stand for one.
LEMMA DimensionAppend ==
  ASSUME SaidOK, NEW e \in Entries, said' = Append(said, e),
         NEW name \in {"width", "height"}, NEW table, DOMAIN table = DOMAIN Width
  PROVE  Dimension(name, table)' =
           IF e.line.key = name THEN e.line.value
           ELSE IF e.line.key \in DOMAIN Width /\ e.line.value THEN table[e.line.key]
           ELSE Dimension(name, table)
<1> DEFINE K == LastOf({name} \cup DOMAIN table, Files)
           Value(l) == IF l.key = name THEN l.value ELSE table[l.key]
<1>1. K \in 0..Len(said)
  <2>1. DOMAIN Width = DOMAIN Height
    BY DEF Width, Height
  <2>. QED
    BY <2>1 DEF SaidOK, KeySets
<1>2. K' = IF e.line.key = name \/ (e.line.key \in DOMAIN Width /\ e.line.value)
           THEN Len(said) + 1 ELSE K
  <2>1. DOMAIN Width \subseteq Flags /\ name \notin Flags
    BY DEF Width, Flags
  <2>2. Hit(e, {name} \cup DOMAIN table, Files)
          <=> e.line.key = name \/ (e.line.key \in DOMAIN Width /\ e.line.value)
    BY <2>1 DEF Hit, Entries
  <2>. QED
    BY <2>2, LastOfAppend DEF SaidOK
<1>3. /\ said'[Len(said) + 1] = e /\ Len(said) \in Nat
      /\ \A k \in 1..Len(said) : said'[k] = said[k]
  BY SaidAppend DEF SaidOK
<1>4. /\ Dimension(name, table) = IF K = 0 THEN Defaults[name] ELSE Value(said[K].line)
      /\ Dimension(name, table)' = IF K' = 0 THEN Defaults[name] ELSE Value(said'[K'].line)
  BY DEF Dimension
<1> HIDE DEF K
<1>. QED
  BY <1>1, <1>2, <1>3, <1>4

Fields == {"width", "height", "fps", "bitrate", "sops", "unsupported", "address", "inputs"}

\* The settings so far are what the lines so far say, until main overrides two
\* of them, and again afterwards.
AsSaid ==
  /\ DOMAIN config = Fields
  /\ reading \in {"off", "main", "host", "done"} =>
       /\ config.width = Dimension("width", Width)
       /\ config.height = Dimension("height", Height)
       /\ config.fps = Plain("fps")
       /\ config.address = Plain("address")
  /\ reading \in {"off", "main"} => config.bitrate = Plain("bitrate")
  /\ reading \in {"host", "done"} =>
       /\ config.sops = SopsSaid
       /\ config.unsupported = (LastOf({"nounsupported"}, {"host"}) = 0)
       /\ Plain("bitrate") # -1 => config.bitrate = Plain("bitrate")

\* The line has an option that stands for a size.
Sized(l) == l.key \in DOMAIN Width /\ l.value

\* What a line makes of each setting.
LEMMA AssignedFields ==
  ASSUME NEW l \in Lines, DOMAIN config = Fields, NEW c, c = Assigned(l)
  PROVE  /\ DOMAIN c = Fields
         /\ c.width = IF l.key = "width" THEN l.value ELSE IF Sized(l) THEN Width[l.key] ELSE config.width
         /\ c.height = IF l.key = "height" THEN l.value
                       ELSE IF Sized(l) THEN Height[l.key] ELSE config.height
         /\ c.fps = IF l.key = "fps" THEN l.value ELSE config.fps
         /\ c.address = IF l.key = "address" THEN l.value ELSE config.address
         /\ c.bitrate = IF l.key = "bitrate" THEN l.value ELSE config.bitrate
         /\ c.sops = IF l.key = "sops" THEN l.value
                     ELSE IF l.key = "mapping" \/ (l.key = "nosops" /\ l.value) THEN FALSE
                     ELSE config.sops
         /\ c.unsupported = IF l.key = "nounsupported" /\ l.value THEN FALSE ELSE config.unsupported
<1> USE DEF Fields
<1>1. DOMAIN Width = {"720", "1080", "4k"}
  BY DEF Width
<1>2. CASE l.key \in Settings
  <2>1. c = [config EXCEPT ![l.key] = l.value]
    BY <1>2 DEF Assigned, Settings, Flags, Sized
  <2>2. ~Sized(l) /\ l.key \notin {"mapping", "nosops", "nounsupported"}
    BY <1>1, <1>2 DEF Settings, Sized
  <2>. QED
    BY <1>2, <2>1, <2>2 DEF Settings
<1>3. CASE l.key \in {"mapping", "input"}
  <2>1. c = IF l.key = "mapping" THEN [config EXCEPT !.sops = FALSE]
                                 ELSE [config EXCEPT !.inputs = @ + 1]
    BY <1>3 DEF Assigned, Settings, Flags, Sized
  <2>2. ~Sized(l)
    BY <1>1, <1>3 DEF Sized
  <2>. QED
    BY <1>3, <2>1, <2>2
<1>4. CASE l.key \in {"720", "1080", "4k"}
  <2>1. c = IF Sized(l) THEN [config EXCEPT !.width = Width[l.key], !.height = Height[l.key]] ELSE config
    BY <1>1, <1>4 DEF Assigned, Settings, Flags, Sized
  <2>. QED
    BY <1>4, <2>1
<1>5. CASE l.key \in {"nosops", "nounsupported"}
  <2>1. c = IF ~l.value THEN config
            ELSE IF l.key = "nosops" THEN [config EXCEPT !.sops = FALSE]
            ELSE [config EXCEPT !.unsupported = FALSE]
    BY <1>5 DEF Assigned, Settings, Flags, Sized
  <2>2. ~Sized(l)
    BY <1>1, <1>5 DEF Sized
  <2>. QED
    BY <1>5, <2>1, <2>2
<1>6. CASE l.key \notin Settings \cup Flags \cup {"mapping", "input"}
  <2>1. c = config
    BY <1>6 DEF Assigned
  <2>2. ~Sized(l)
    BY <1>1, <1>6 DEF Flags, Sized
  <2>. QED
    BY <1>6, <2>1, <2>2 DEF Settings, Flags
<1>. QED
  BY <1>2, <1>3, <1>4, <1>5, <1>6 DEF Flags

\* Before the first line no line speaks of anything.
LEMMA NothingSaid ==
  ASSUME said = <<>>
  PROVE  said \in Seq(Entries) /\ \A keys, F : LastOf(keys, F) = 0
  BY DEF LastOf

\* sops, which only the host's file decides.
LEMMA SopsAppend ==
  ASSUME SaidOK, NEW e \in Entries, said' = Append(said, e), e.file = "host"
  PROVE  SopsSaid' = IF e.line.key = "sops" THEN e.line.value
                     ELSE IF e.line.key = "mapping" \/ (e.line.key = "nosops" /\ e.line.value)
                          THEN FALSE ELSE SopsSaid
<1> DEFINE K == LastOf({"sops", "nosops", "mapping"}, {"host"})
           Kind(x) == x.line.key = "sops" /\ x.line.value
<1>1. K \in 0..Len(said)
  BY DEF SaidOK, KeySets, Files
<1>2. K' = IF e.line.key \in {"sops", "mapping"} \/ (e.line.key = "nosops" /\ e.line.value)
           THEN Len(said) + 1 ELSE K
  BY LastOfAppend DEF SaidOK, Hit, Flags
<1>3. /\ said'[Len(said) + 1] = e /\ Len(said) \in Nat
      /\ \A k \in 1..Len(said) : said'[k] = said[k]
  BY SaidAppend DEF SaidOK
<1>4. /\ SopsSaid = (K # 0 /\ Kind(said[K]))
      /\ SopsSaid' = (K' # 0 /\ Kind(said'[K']))
  BY DEF SopsSaid
<1>5. e.line.key = "sops" => e.line.value \in BOOLEAN
  BY LinesAssumption DEF Entries
<1>6. K' = Len(said) + 1 => SopsSaid' = Kind(e)
  BY <1>3, <1>4
<1>7. K' = K => SopsSaid' = SopsSaid
  BY <1>1, <1>3, <1>4
<1> HIDE DEF K, Kind
<1>8. CASE e.line.key = "sops"
  <2>1. SopsSaid' = Kind(e)
    BY <1>2, <1>6, <1>8
  <2>2. Kind(e) = e.line.value
    BY <1>5, <1>8, Zenon DEF Kind
  <2>. QED
    BY <1>8, <2>1, <2>2, Zenon
<1>9. CASE e.line.key = "mapping" \/ (e.line.key = "nosops" /\ e.line.value)
  <2>1. e.line.key # "sops"
    BY <1>9
  <2>2. SopsSaid' = Kind(e)
    BY <1>2, <1>6, <1>9
  <2>3. Kind(e) = FALSE
    BY <2>1, Zenon DEF Kind
  <2>. QED
    BY <1>9, <2>1, <2>2, <2>3, Zenon
<1>10. CASE e.line.key \notin {"sops", "mapping"} /\ ~(e.line.key = "nosops" /\ e.line.value)
  <2>1. SopsSaid' = SopsSaid
    BY <1>2, <1>7, <1>10
  <2>. QED
    BY <1>10, <2>1, Zenon
<1>. QED
  BY <1>8, <1>9, <1>10

\* A line more, in the file that is being read.
LEMMA AppendSaidOK ==
  ASSUME SaidOK, reading \in Files, reading' = reading, NEW l \in Lines,
         said' = Append(said, [file |-> reading, line |-> l])
  PROVE  SaidOK'
<1> DEFINE e == [file |-> reading, line |-> l]
<1>1. e \in Entries /\ e.file = reading
  BY DEF Entries
<1> HIDE DEF e
<1>2. said \in Seq(Entries) /\ said' = Append(said, e)
  BY DEF SaidOK, e
<1>3. said' \in Seq(Entries) /\ Len(said') = Len(said) + 1 /\ Len(said) \in Nat
  BY <1>1, <1>2, SaidAppend
<1>4. ASSUME NEW keys, NEW F
      PROVE  LastOf(keys, F)' = IF Hit(e, keys, F) THEN Len(said) + 1 ELSE LastOf(keys, F)
  BY <1>1, <1>2, LastOfAppend
<1>5. ASSUME NEW keys \in KeySets, NEW F \in SUBSET Files
      PROVE  LastOf(keys, F)' \in 0..Len(said')
  BY <1>3, <1>4 DEF SaidOK
<1>6. ASSUME reading = "main", NEW keys \in KeySets
      PROVE  LastOf(keys, {"host"})' = 0
  BY <1>1, <1>4, <1>6 DEF SaidOK, Hit
<1>. QED
  BY <1>3, <1>5, <1>6 DEF SaidOK, Files

\* What the lines say changes only with the lines.
LEMMA SaidSame ==
  ASSUME UNCHANGED said
  PROVE  /\ Dimension("width", Width)' = Dimension("width", Width)
         /\ Dimension("height", Height)' = Dimension("height", Height)
         /\ \A name \in {"fps", "address", "bitrate"} : Plain(name)' = Plain(name)
         /\ SopsSaid' = SopsSaid
         /\ \A keys, F : LastOf(keys, F)' = LastOf(keys, F)
  BY DEF Dimension, Plain, SopsSaid, LastOf, Effective

\* Initially there are no lines, and the settings are the defaults.
LEMMA NothingAsSaid ==
  ASSUME said = <<>>, config = Defaults, reading = "off"
  PROVE  SaidOK /\ AsSaid
<1>1. said \in Seq(Entries) /\ \A keys, F : LastOf(keys, F) = 0
  BY NothingSaid
<1>2. SaidOK
  BY <1>1 DEF SaidOK
<1>3. /\ Dimension("width", Width) = Defaults.width /\ Dimension("height", Height) = Defaults.height
      /\ \A name \in {"fps", "address", "bitrate"} : Plain(name) = Defaults[name]
  BY <1>1 DEF Dimension, Plain
<1>. QED
  BY <1>2, <1>3 DEF AsSaid, Fields, Defaults

\* So they are when the program ends.
LEMMA ResetAsSaid ==
  (said = <<>>)' /\ (config = Defaults)' /\ (reading = "off")' => SaidOK' /\ AsSaid'
<1>1. said = <<>> /\ config = Defaults /\ reading = "off" => SaidOK /\ AsSaid
  BY NothingAsSaid
<1>. QED
  BY <1>1, PTL

\* A line is passed on to the settings it speaks of.
LEMMA LineAsSaid ==
  ASSUME SaidOK, AsSaid, NEW l \in Lines, Line(l)
  PROVE  AsSaid'
<1> DEFINE e == [file |-> reading, line |-> l]
<1>1. /\ reading \in Files /\ reading' = reading /\ config' = Assigned(l)
      /\ said' = Append(said, e) /\ e \in Entries /\ e.line = l /\ e.file = reading
  BY DEF Line, Files, Entries
<1>2. DOMAIN config = Fields
  BY DEF AsSaid
<1> HIDE DEF e
<1>3. /\ DOMAIN config' = Fields
      /\ config'.width = IF l.key = "width" THEN l.value ELSE IF Sized(l) THEN Width[l.key] ELSE config.width
      /\ config'.height = IF l.key = "height" THEN l.value
                          ELSE IF Sized(l) THEN Height[l.key] ELSE config.height
      /\ config'.fps = IF l.key = "fps" THEN l.value ELSE config.fps
      /\ config'.address = IF l.key = "address" THEN l.value ELSE config.address
      /\ config'.bitrate = IF l.key = "bitrate" THEN l.value ELSE config.bitrate
      /\ config'.sops = IF l.key = "sops" THEN l.value
                        ELSE IF l.key = "mapping" \/ (l.key = "nosops" /\ l.value) THEN FALSE
                        ELSE config.sops
      /\ config'.unsupported = IF l.key = "nounsupported" /\ l.value THEN FALSE ELSE config.unsupported
  BY <1>1, <1>2, AssignedFields
<1>4. \A name \in {"fps", "address", "bitrate"} :
        Plain(name)' = IF l.key = name THEN l.value ELSE Plain(name)
  BY <1>1, PlainAppend
<1>5. /\ Dimension("width", Width)' = IF l.key = "width" THEN l.value
                                      ELSE IF Sized(l) THEN Width[l.key] ELSE Dimension("width", Width)
      /\ Dimension("height", Height)' = IF l.key = "height" THEN l.value
                                        ELSE IF Sized(l) THEN Height[l.key] ELSE Dimension("height", Height)
  <2>1. DOMAIN Width = DOMAIN Height
    BY DEF Width, Height
  <2>. QED
    BY <1>1, <2>1, DimensionAppend DEF Sized
<1>6. /\ config'.width = Dimension("width", Width)'
      /\ config'.height = Dimension("height", Height)'
      /\ config'.fps = Plain("fps")'
      /\ config'.address = Plain("address")'
  BY <1>1, <1>3, <1>4, <1>5 DEF AsSaid, Files
<1>7. reading = "main" => config'.bitrate = Plain("bitrate")'
  BY <1>3, <1>4 DEF AsSaid
<1>8. ASSUME reading = "host"
      PROVE  /\ config'.sops = SopsSaid'
             /\ config'.unsupported = (LastOf({"nounsupported"}, {"host"}) = 0)'
             /\ Plain("bitrate")' # -1 => config'.bitrate = Plain("bitrate")'
  <2>1. config.sops = SopsSaid /\ config.unsupported = (LastOf({"nounsupported"}, {"host"}) = 0)
    BY <1>8, Zenon DEF AsSaid
  <2>2. config'.sops = SopsSaid'
    <3>1. SopsSaid' = IF l.key = "sops" THEN l.value
                      ELSE IF l.key = "mapping" \/ (l.key = "nosops" /\ l.value) THEN FALSE
                      ELSE SopsSaid
      BY <1>1, <1>8, SopsAppend
    <3>. QED
      BY <1>3, <2>1, <3>1, Zenon
  <2>3. config'.unsupported = (LastOf({"nounsupported"}, {"host"}) = 0)'
    <3>1. LastOf({"nounsupported"}, {"host"})' =
            IF l.key = "nounsupported" /\ l.value THEN Len(said) + 1 ELSE LastOf({"nounsupported"}, {"host"})
      BY <1>1, <1>8, LastOfAppend DEF SaidOK, Hit, Flags
    <3>2. Len(said) + 1 # 0
      BY DEF SaidOK
    <3>3. CASE l.key = "nounsupported" /\ l.value
      <4>1. LastOf({"nounsupported"}, {"host"})' # 0
        BY <3>1, <3>2, <3>3
      <4>. QED
        BY <1>3, <3>3, <4>1, Zenon
    <3>4. CASE ~(l.key = "nounsupported" /\ l.value)
      <4>1. LastOf({"nounsupported"}, {"host"})' = LastOf({"nounsupported"}, {"host"})
        BY <3>1, <3>4
      <4>. QED
        BY <1>3, <2>1, <3>4, <4>1, Zenon
    <3>. QED
      BY <3>3, <3>4
  <2>4. Plain("bitrate")' # -1 => config'.bitrate = Plain("bitrate")'
    BY <1>3, <1>4, <1>8 DEF AsSaid
  <2>. QED
    BY <2>2, <2>3, <2>4
<1>. QED
  BY <1>1, <1>3, <1>6, <1>7, <1>8 DEF AsSaid, Files

\* A config line says nothing of a setting.
LEMMA IncludeAsSaid ==
  ASSUME SaidOK, AsSaid, NEW l \in Lines, Include(l)
  PROVE  AsSaid'
<1> DEFINE e == [file |-> reading, line |-> l]
<1>1. /\ reading \in Files /\ reading' = reading /\ config' = config
      /\ said' = Append(said, e) /\ e \in Entries /\ e.line = l /\ e.file = reading
      /\ l.key = "config"
  BY DEF Include, Files, Entries
<1> HIDE DEF e
<1>2. \A name \in {"fps", "address", "bitrate"} : Plain(name)' = Plain(name)
  BY <1>1, PlainAppend
<1>3. /\ Dimension("width", Width)' = Dimension("width", Width)
      /\ Dimension("height", Height)' = Dimension("height", Height)
  <2>1. DOMAIN Width = DOMAIN Height /\ "config" \notin DOMAIN Width
    BY DEF Width, Height
  <2>. QED
    BY <1>1, <2>1, DimensionAppend
<1>4. ASSUME reading = "host"
      PROVE  /\ SopsSaid' = SopsSaid
             /\ LastOf({"nounsupported"}, {"host"})' = LastOf({"nounsupported"}, {"host"})
  <2>1. SopsSaid' = SopsSaid
    BY <1>1, <1>4, SopsAppend
  <2>2. \A keys : "config" \notin keys => LastOf(keys, {"host"})' = LastOf(keys, {"host"})
    BY <1>1, LastOfAppend DEF SaidOK, Hit
  <2>. QED
    BY <2>1, <2>2
<1>5. CASE reading = "main"
  BY <1>1, <1>2, <1>3, <1>5 DEF AsSaid
<1>6. CASE reading = "host"
  <2>1. /\ config'.sops = SopsSaid'
        /\ config'.unsupported = (LastOf({"nounsupported"}, {"host"}) = 0)'
    BY <1>1, <1>4, <1>6, Zenon DEF AsSaid
  <2>. QED
    BY <1>1, <1>2, <1>3, <1>4, <1>6, <2>1 DEF AsSaid
<1>. QED
  BY <1>1, <1>5, <1>6 DEF Files

\* config_parse fills in the bitrate, and main overrides what it always does.
LEMMA EndMainAsSaid ==
  ASSUME SaidOK, AsSaid, EndMain
  PROVE  AsSaid'
<1> DEFINE c == Filled(config)
<1>1. /\ reading = "main" /\ reading' \in {"done", "host"} /\ said' = said
      /\ config' = [c EXCEPT !.unsupported = TRUE, !.sops = FALSE]
  BY DEF EndMain, Overridden
<1>2. /\ DOMAIN config = Fields /\ config.bitrate = Plain("bitrate")
      /\ config.width = Dimension("width", Width) /\ config.height = Dimension("height", Height)
      /\ config.fps = Plain("fps") /\ config.address = Plain("address")
  BY <1>1 DEF AsSaid
<1>3. /\ DOMAIN c = Fields
      /\ c.width = config.width /\ c.height = config.height /\ c.fps = config.fps
      /\ c.address = config.address
      /\ config.bitrate # -1 => c.bitrate = config.bitrate
  BY <1>2 DEF Filled, Fields
<1> HIDE DEF c
<1>4. /\ DOMAIN config' = Fields /\ config'.sops = FALSE /\ config'.unsupported = TRUE
      /\ config'.width = config.width /\ config'.height = config.height
      /\ config'.fps = config.fps /\ config'.address = config.address
      /\ config'.bitrate = c.bitrate
  BY <1>1, <1>3 DEF Fields
<1>5. /\ LastOf({"sops", "nosops", "mapping"}, {"host"}) = 0
      /\ LastOf({"nounsupported"}, {"host"}) = 0
  BY <1>1 DEF SaidOK, KeySets
<1>6. config'.sops = SopsSaid' /\ config'.unsupported = (LastOf({"nounsupported"}, {"host"}) = 0)'
  <2>1. SopsSaid' = FALSE
    <3>1. SopsSaid = FALSE
      BY <1>5, Zenon DEF SopsSaid
    <3>. QED
      BY <1>1, <3>1, SaidSame, Zenon
  <2>2. (LastOf({"nounsupported"}, {"host"}) = 0)' = TRUE
    BY <1>1, <1>5, SaidSame
  <2>. QED
    BY <1>4, <2>1, <2>2, Zenon
<1>. QED
  BY <1>1, <1>2, <1>3, <1>4, <1>6, SaidSame DEF AsSaid

\* Every step keeps the settings what the lines say.
LEMMA NextAsSaid ==
  SaidOK /\ AsSaid /\ StateByPlace /\ [StartupNext]_startupVars => SaidOK' /\ AsSaid'
<1> SUFFICES ASSUME SaidOK, AsSaid, StateByPlace, [StartupNext]_startupVars
             PROVE  SaidOK' /\ AsSaid'
  OBVIOUS
<1>1. ASSUME UNCHANGED <<config, said>>,
             \/ reading' = reading
             \/ reading = "off" /\ reading' = "main"
             \/ reading = "host" /\ reading' = "done"
             \/ reading' \in {"exited", "used"}
      PROVE  SaidOK' /\ AsSaid'
  <2>1. SaidOK'
    BY <1>1, SaidSame, NothingSaid DEF SaidOK
  <2>2. AsSaid'
    BY <1>1, SaidSame DEF AsSaid
  <2>. QED
    BY <2>1, <2>2
<1>2. CASE Configure
  <2>1. CASE Boot \/ EndInclude \/ EndHost
    BY <1>1, <2>1 DEF Boot, EndInclude, EndHost
  <2>2. CASE EndMain
    <3>1. UNCHANGED said /\ reading' \in {"done", "host"}
      BY <2>2 DEF EndMain
    <3>. QED
      BY <2>2, <3>1, EndMainAsSaid, SaidSame DEF SaidOK
  <2>3. ASSUME NEW l \in Lines, Line(l) \/ Include(l)
        PROVE  SaidOK' /\ AsSaid'
    BY <2>3, AppendSaidOK, LineAsSaid, IncludeAsSaid DEF Line, Include, Files
  <2>4. ASSUME NEW l \in Lines, LineExits(l)
        PROVE  SaidOK' /\ AsSaid'
    BY <1>1, <2>4 DEF LineExits
  <2>. QED
    BY <1>2, <2>1, <2>2, <2>3, <2>4 DEF Configure, ConfigNext
<1>3. CASE LoadKeys
  <2>1. said' = <<>> /\ reading' = "used" /\ config' = config
    BY <1>3 DEF LoadKeys
  <2>2. said' \in Seq(Entries) /\ \A keys, F : LastOf(keys, F)' = 0
    BY <2>1, NothingSaid DEF LastOf
  <2>. QED
    BY <2>1, <2>2 DEF SaidOK, AsSaid
<1>4. CASE Keys \/ Card
  BY <1>1, <1>4 DEF Keys, Card, configVars
<1>5. CASE Ends
  <2>1. said' = <<>> /\ config' = Defaults /\ reading' = "off"
    BY <1>5 DEF Ends
  <2>. QED
    BY <2>1, ResetAsSaid DEF Defaults
<1>6. CASE UNCHANGED startupVars
  BY <1>1, <1>6 DEF startupVars, configVars
<1>. QED
  BY <1>2, <1>3, <1>4, <1>5, <1>6 DEF StartupNext

\* When the settings are complete, each is what its last line says: whatever the
\* files have, in any order, however often, and one within another.
THEOREM StartupSettingsAsSaid == StartupSpec => []SettingsAsSaid
<1>1. StartupInit => SaidOK /\ AsSaid
  BY NothingAsSaid DEF StartupInit, ConfigInit
<1>2. AsSaid => SettingsAsSaid
  BY DEF AsSaid, SettingsAsSaid
<1>3. StartupSpec => []StateByPlace
  BY StartupImplementsKeyStore, KeyStoreInvariance, InitStateByPlace, NextStateByPlace, PTL
  DEF StartupSpec
<1>. QED
  BY <1>1, <1>2, <1>3, NextAsSaid, PTL DEF StartupSpec
=============================================================================

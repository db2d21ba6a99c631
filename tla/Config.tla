------------------------------- MODULE Config -------------------------------
(***************************************************************************)
(* The settings of one start (src/src/config.c and the head of main.c).    *)
(* moonlight.conf is read line by line, then config_parse fills in the     *)
(* bitrate, main overrides two settings, and the host's own file is read   *)
(* over the result.  A line is one step; whatever lines the two files have *)
(* is up to the user.                                                      *)
(***************************************************************************)
EXTENDS Integers, Sequences

CONSTANTS Lines,        \* lines a file may have: records of a key and a value
          MaxLines,     \* bound on the lines that are read in one start
          MaxIncludes,  \* bound on the files open inside each other
          MAX_INPUTS    \* config.h

ASSUME ConfigAssumption == /\ MaxLines \in Nat /\ MaxIncludes \in Nat /\ MAX_INPUTS \in Nat
                           /\ \A l \in Lines : {"key", "value"} \subseteq DOMAIN l
                           /\ \A l \in Lines : l.key = "address" => l.value # "none"

VARIABLES
  reading,   \* "off", "main" and "host" for the file, "done", "used", "exited"
  included,  \* files open inside that file, by its config lines
  config,    \* struct _CONFIGURATION
  state,     \* the program's state, as the main loop finds it
  said       \* the lines so far, each with the file it counts for

configVars == <<reading, included, config, state, said>>

None == "none"

Defaults == [width |-> 1280, height |-> 720, fps |-> 30, bitrate |-> -1, sops |-> TRUE,
             unsupported |-> TRUE, address |-> None, inputs |-> 0]

ConfigInit == /\ reading = "off" /\ included = 0 /\ config = Defaults
              /\ state = "INVALID" /\ said = <<>>

-----------------------------------------------------------------------------
(* The lines.                                                              *)

\* Options without an argument take effect when the line says "true".
Flags    == {"720", "1080", "4k", "nosops", "nounsupported"}
Width    == [k \in {"720", "1080", "4k"} |->
               CASE k = "720" -> 1280 [] k = "1080" -> 1920 [] k = "4k" -> 3840]
Height   == [k \in {"720", "1080", "4k"} |->
               CASE k = "720" -> 720 [] k = "1080" -> 1080 [] k = "4k" -> 2160]
Settings == {"width", "height", "fps", "bitrate", "sops", "address"}

\* A flag, and "sops", is compared with "true".
ASSUME LinesAssumption ==
  \A l \in Lines : l.key \in Flags \cup {"sops"} => l.value \in BOOLEAN

\* parse_argument.  On the Wii U "mapping" has no body of its own and falls
\* through to "nosops".  What is no line of the form `key = value`, or names
\* no option, is passed over.
Assigned(l) ==
  CASE l.key \in Settings     -> [config EXCEPT ![l.key] = l.value]
    [] l.key = "mapping"      -> [config EXCEPT !.sops = FALSE]
    [] l.key = "input"        -> [config EXCEPT !.inputs = @ + 1]
    [] l.key \in Flags        ->
         IF ~l.value THEN config
         ELSE IF l.key = "nosops" THEN [config EXCEPT !.sops = FALSE]
         ELSE IF l.key = "nounsupported" THEN [config EXCEPT !.unsupported = FALSE]
         ELSE [config EXCEPT !.width = Width[l.key], !.height = Height[l.key]]
    [] OTHER                  -> config

TooMany(l) == l.key = "input" /\ config.inputs >= MAX_INPUTS

Line(l) ==
  /\ reading \in {"main", "host"} /\ Len(said) < MaxLines
  /\ l.key # "config" /\ ~TooMany(l)
  /\ config' = Assigned(l)
  /\ said' = Append(said, [file |-> reading, line |-> l])
  /\ UNCHANGED <<reading, included, state>>

\* exit(-1), and exit(EXIT_FAILURE) when an included file cannot be opened.
LineExits(l) ==
  /\ reading \in {"main", "host"} /\ Len(said) < MaxLines
  /\ TooMany(l) \/ l.key = "config"
  /\ reading' = "exited"
  /\ UNCHANGED <<included, config, state, said>>

\* config_file_parse calls itself, and goes on where it was.
Include(l) ==
  /\ reading \in {"main", "host"} /\ Len(said) < MaxLines
  /\ l.key = "config" /\ included < MaxIncludes
  /\ included' = included + 1
  /\ said' = Append(said, [file |-> reading, line |-> l])
  /\ UNCHANGED <<reading, config, state>>

EndInclude ==
  /\ reading \in {"main", "host"} /\ included > 0
  /\ included' = included - 1
  /\ UNCHANGED <<reading, config, state, said>>

-----------------------------------------------------------------------------
(* config_parse, and main after it.                                        *)

\* Pixels of a frame up to which a row of the table holds, and kbps at 30 fps.
BitrateTable == << <<640 * 360, 1000>>, <<854 * 480, 1500>>, <<1366 * 768, 5000>>,
                   <<1920 * 1200, 10000>>, <<2560 * 1600, 20000>> >>

Kbps(pixels) ==
  IF \A r \in DOMAIN BitrateTable : pixels > BitrateTable[r][1] THEN 40000
  ELSE LET row == CHOOSE r \in DOMAIN BitrateTable :
                    /\ pixels <= BitrateTable[r][1]
                    /\ \A q \in 1..(r - 1) : pixels > BitrateTable[q][1]
       IN  BitrateTable[row][2]

Bitrate(w, h, fps) == (Kbps(w * h) * fps) \div 30

Filled(c) == IF c.bitrate = -1 THEN [c EXCEPT !.bitrate = Bitrate(c.width, c.height, c.fps)]
                               ELSE c

Boot ==
  /\ reading = "off"
  /\ reading' = "main"
  /\ UNCHANGED <<included, config, state, said>>

NotOverridden == config' = Filled(config)   \* mutant: main leaves the file's word
Overridden    == config' = [Filled(config) EXCEPT !.unsupported = TRUE, !.sops = FALSE]

\* The end of moonlight.conf, which need not exist.
EndMain ==
  /\ reading = "main" /\ included = 0
  /\ Overridden
  /\ reading' = IF config.address = None THEN "done" ELSE "host"
  /\ UNCHANGED <<included, state, said>>

\* The end of hosts/<address>.conf, which need not exist either.
EndHost ==
  /\ reading = "host" /\ included = 0
  /\ reading' = "done"
  /\ state' = "CONNECTING"
  /\ UNCHANGED <<included, config, said>>

ConfigNext == \/ Boot \/ EndInclude \/ EndMain \/ EndHost
              \/ \E l \in Lines : Line(l) \/ LineExits(l) \/ Include(l)

-----------------------------------------------------------------------------
(* What the lines say, read backwards: the last line that speaks of a      *)
(* setting decides.  Of the settings which main overrides, that is the     *)
(* last line of the host's file.                                           *)

Effective(k) == said[k].line.key \in Flags => said[k].line.value

\* The last of those lines of the files F, or 0.
LastOf(keys, F) ==
  LET hits == {k \in DOMAIN said : said[k].line.key \in keys /\ said[k].file \in F /\ Effective(k)}
  IN  IF hits = {} THEN 0 ELSE CHOOSE k \in hits : \A j \in hits : j <= k

Files == {"main", "host"}

Dimension(name, table) ==
  LET k == LastOf({name} \cup DOMAIN table, Files)
  IN  IF k = 0 THEN Defaults[name]
      ELSE IF said[k].line.key = name THEN said[k].line.value ELSE table[said[k].line.key]

Plain(name) ==
  LET k == LastOf({name}, Files) IN IF k = 0 THEN Defaults[name] ELSE said[k].line.value

SopsSaid ==
  LET k == LastOf({"sops", "nosops", "mapping"}, {"host"})
  IN  k # 0 /\ said[k].line.key = "sops" /\ said[k].line.value

\* When the settings are complete, each is what its last line says, the sizes
\* that 720, 1080 and 4k stand for included; sops and nounsupported are heard
\* in the host's file only; and a bitrate that a line of either file gives is
\* not replaced by one of the table, whatever size and rate the lines say.
SettingsAsSaid ==
  reading = "done" =>
    /\ config.width = Dimension("width", Width)
    /\ config.height = Dimension("height", Height)
    /\ config.fps = Plain("fps")
    /\ config.address = Plain("address")
    /\ config.sops = SopsSaid
    /\ config.unsupported = (LastOf({"nounsupported"}, {"host"}) = 0)
    /\ Plain("bitrate") # -1 => config.bitrate = Plain("bitrate")
=============================================================================

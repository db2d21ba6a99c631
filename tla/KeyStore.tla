------------------------------ MODULE KeyStore ------------------------------
(***************************************************************************)
(* The client's identity on the SD card: the unique ID, the key and the    *)
(* certificate, which gs_new loads and gs_conf_init creates at the first   *)
(* start (libgamestream/conf.c, mkcert.c, and the start-up in main.c).     *)
(* The files are written one after the other, each opened (and emptied)    *)
(* before it is filled, and the console may be switched off between any    *)
(* two of these steps.  The host knows the client by its certificate.      *)
(***************************************************************************)
EXTENDS Naturals

CONSTANTS MaxPairs,             \* bound on the key pairs that are generated
          Absent, Short, Full   \* what a file may be, besides a key pair's half

ASSUME BoundAssumption == MaxPairs \in Nat \ {0}
ASSUME FilesAssumption == /\ Short # Absent /\ Full \notin {Absent, Short}
                          /\ {Absent, Short, Full} \cap Nat = {}

VARIABLES
  flaky,          \* the card may fail an operation, run full or lose a file; and
                  \* cURL or mbedtls may fail
  pc,             \* "off", or where main is in its start-up
  retried,        \* gs_conf_init has run in this start
  pairs,          \* key pairs generated so far
  dir,            \* the key directory exists
  id, key, cert   \* the files; a complete key or certificate is its pair's number

files == <<dir, id, key, cert>>
vars  == <<flaky, pc, retried, pairs, files>>

Pairs     == 1..MaxPairs
InitSteps == {"open_id", "write_id", "make_keys", "open_key", "write_key",
              "open_cert", "write_cert"}

Init == /\ flaky \in BOOLEAN
        /\ pc = "off" /\ retried = FALSE /\ pairs = 0
        /\ dir = FALSE /\ id = Absent /\ key = Absent /\ cert = Absent

-----------------------------------------------------------------------------
(* gs_new: gs_conf_load.                                                   *)

Start ==
  /\ pc = "off"
  /\ pc' = "load_id" /\ retried' = FALSE
  /\ UNCHANGED <<flaky, pairs, files>>

\* load_unique_id: the file can be read and is long enough.
LoadId ==
  /\ pc = "load_id" /\ id = Full
  /\ pc' = "load_cert"
  /\ UNCHANGED <<flaky, retried, pairs, files>>

\* GS_BAD_CONF, which makes main call gs_conf_init, but not a second time.
NoId ==
  /\ pc = "load_id" /\ (flaky \/ id # Full)
  /\ pc' = IF retried THEN "INVALID" ELSE "make_dir"
  /\ UNCHANGED <<flaky, retried, pairs, files>>

\* load_cert: both files parse.  Whether they belong together is not checked.
LoadCert ==
  /\ pc = "load_cert" /\ cert \in Pairs /\ key \in Pairs
  /\ pc' = "running"
  /\ UNCHANGED <<flaky, retried, pairs, files>>

\* GS_FAILED or GS_IO_ERROR, for which main has no remedy; nor has it one when
\* http_create fails after the files have been read.
NoCert ==
  /\ pc = "load_cert" /\ (flaky \/ cert \notin Pairs \/ key \notin Pairs)
  /\ pc' = "INVALID"
  /\ UNCHANGED <<flaky, retried, pairs, files>>

-----------------------------------------------------------------------------
(* gs_conf_init.                                                           *)

DirWelcome == TRUE   \* mutant: EEXIST is no error, as in mkdirtree
DirNew     == ~dir

MakeDir ==
  /\ pc = "make_dir" /\ DirNew
  /\ pc' = "open_id" /\ dir' = TRUE
  /\ UNCHANGED <<flaky, retried, pairs, id, key, cert>>

DirExists ==
  /\ pc = "make_dir" /\ dir
  /\ pc' = "INVALID"
  /\ UNCHANGED <<flaky, retried, pairs, files>>

\* mkdir, an fopen, the fwrite of init_unique_id or mbedtls fails.
InitFails ==
  /\ flaky /\ pc \in {"make_dir"} \cup (InitSteps \ {"write_key", "write_cert"})
  /\ pc' = "INVALID"
  /\ UNCHANGED <<flaky, retried, pairs, files>>

OpenId ==
  /\ pc = "open_id"
  /\ pc' = "write_id" /\ id' = Short
  /\ UNCHANGED <<flaky, retried, pairs, dir, key, cert>>

\* The fwrite is checked, the fclose that writes the buffer is not: a full card
\* leaves a short file, and mkcert_generate goes on.
IdMixedUp  == id' = pairs   \* mutant: another buffer is written
IdWritten  == id' = Full \/ (flaky /\ id' = Short)

WriteId ==
  /\ pc = "write_id"
  /\ pc' = "make_keys" /\ IdWritten
  /\ UNCHANGED <<flaky, retried, pairs, dir, key, cert>>

\* mkcert_generate: the pair is made once, then written to two files.
MakeKeys ==
  /\ pc = "make_keys" /\ pairs < MaxPairs
  /\ pc' = "open_key" /\ pairs' = pairs + 1
  /\ UNCHANGED <<flaky, retried, files>>

OpenKey ==
  /\ pc = "open_key"
  /\ pc' = "write_key" /\ key' = Short
  /\ UNCHANGED <<flaky, retried, pairs, dir, id, cert>>

\* Neither fwrite nor fclose is checked: a full card leaves a short file.
Written(file) == file = pairs \/ (flaky /\ file = Short)

SkipsCert == pc' = "load_id" /\ retried' = TRUE   \* mutant: an early return
CertNext  == pc' = "open_cert" /\ UNCHANGED retried

WriteKey ==
  /\ pc = "write_key"
  /\ key' \in {pairs, Short} /\ Written(key')
  /\ CertNext
  /\ UNCHANGED <<flaky, pairs, dir, id, cert>>

OpenCert ==
  /\ pc = "open_cert"
  /\ pc' = "write_cert" /\ cert' = Short
  /\ UNCHANGED <<flaky, retried, pairs, dir, id, key>>

\* ret is still 0; main calls gs_new again.
WriteCert ==
  /\ pc = "write_cert"
  /\ pc' = "load_id" /\ retried' = TRUE
  /\ cert' \in {pairs, Short} /\ Written(cert')
  /\ UNCHANGED <<flaky, pairs, dir, id, key>>

-----------------------------------------------------------------------------
(* The user and the card.                                                  *)

\* The program ends or the console is switched off, at any point.
PowerOff ==
  /\ pc # "off"
  /\ pc' = "off"
  /\ UNCHANGED <<flaky, retried, pairs, files>>

WipeDir ==
  /\ pc = "off" /\ dir
  /\ dir' = FALSE /\ id' = Absent /\ key' = Absent /\ cert' = Absent
  /\ UNCHANGED <<flaky, pc, retried, pairs>>

LoseFile ==
  /\ flaky /\ pc = "off"
  /\ \/ id' = Absent /\ UNCHANGED <<key, cert>>
     \/ key' = Absent /\ UNCHANGED <<id, cert>>
     \/ cert' = Absent /\ UNCHANGED <<id, key>>
  /\ UNCHANGED <<flaky, pc, retried, pairs, dir>>

Load    == LoadId \/ NoId \/ LoadCert \/ NoCert
Create  == \/ MakeDir \/ DirExists \/ InitFails \/ OpenId \/ WriteId \/ MakeKeys
           \/ OpenKey \/ WriteKey \/ OpenCert \/ WriteCert
Outside == Start \/ PowerOff \/ WipeDir \/ LoseFile

Next == Load \/ Create \/ Outside

Spec == Init /\ [][Next]_vars

-----------------------------------------------------------------------------
TypeOK ==
  /\ flaky \in BOOLEAN /\ retried \in BOOLEAN /\ dir \in BOOLEAN
  /\ pc \in {"off", "load_id", "load_cert", "make_dir", "running", "INVALID"} \cup InitSteps
  /\ pairs \in 0..MaxPairs
  /\ id \in {Absent, Short, Full}
  /\ key \in {Absent, Short} \cup Pairs
  /\ cert \in {Absent, Short} \cup Pairs

\* load_cert does not compare them, and the two files are written apart: still
\* a client that runs has the key of its certificate, whatever was switched
\* off, lost or wiped before.
KeysMatch == pc = "running" => key = cert

\* The program never writes over an identity which a host may have paired
\* with, not even when the card fails to show the unique ID: only the user and
\* the card take a complete key or certificate away.
IdentityKept ==
  [][pc # "off" => /\ key \in Pairs => key' = key
                   /\ cert \in Pairs => cert' = cert]_vars

\* On a card that works, the first start leads to a running client, if the
\* console stays on and the bound on key pairs is not met.
FirstStartRuns ==
  (pc = "load_id" /\ ~dir /\ ~flaky /\ pairs < MaxPairs) ~> pc \in {"running", "off"}
=============================================================================

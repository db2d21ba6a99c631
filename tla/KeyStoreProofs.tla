--------------------------- MODULE KeyStoreProofs ---------------------------
(***************************************************************************)
(* What KeyStore guarantees on any card, for any number of key pairs.  The *)
(* argument is that gs_conf_init goes on only in a directory which it has  *)
(* just made, so every file it opens for writing was not there: the        *)
(* inductive invariant KInv says what is in the directory at each of its   *)
(* steps.                                                                  *)
(***************************************************************************)
EXTENDS KeyStore, TLAPS

\* The directory at each step of gs_conf_init.
Progress ==
  /\ ~dir => id = Absent /\ key = Absent /\ cert = Absent
  /\ pc \in InitSteps => dir
  /\ pc \in {"open_id", "write_id", "make_keys", "open_key"} => key = Absent /\ cert = Absent
  /\ pc = "write_key" => key = Short /\ cert = Absent
  /\ pc = "open_cert" => key \in {pairs, Short} /\ cert = Absent
  /\ pc = "write_cert" => key \in {pairs, Short} /\ cert = Short
  /\ pc \in {"open_key", "write_key", "open_cert", "write_cert"} => pairs \in Pairs

\* A complete key and a complete certificate are of one pair, and a client that
\* runs has both.
SamePair == /\ key \in Pairs /\ cert \in Pairs => key = cert
            /\ pc = "running" => key \in Pairs /\ cert \in Pairs

KInv == TypeOK /\ Progress /\ SamePair

-----------------------------------------------------------------------------
\* What is not there, or is too short, is no pair's number.
LEMMA NoPair == Absent \notin Pairs /\ Short \notin Pairs /\ Absent # Short
  BY FilesAssumption, BoundAssumption DEF Pairs

\* At first there are no files.
LEMMA InitKInv == Init => KInv
<1> SUFFICES ASSUME Init
             PROVE  KInv
  OBVIOUS
<1>1. TypeOK
  <2>1. flaky \in BOOLEAN /\ retried \in BOOLEAN /\ dir \in BOOLEAN
    BY DEF Init
  <2>2. pairs \in 0..MaxPairs
    BY BoundAssumption DEF Init
  <2>. QED
    BY <2>1, <2>2, Zenon DEF Init, TypeOK
<1>2. Progress
  BY DEF Init, Progress, InitSteps
<1>3. SamePair
  BY NoPair, Zenon DEF Init, SamePair
<1>. QED
  BY <1>1, <1>2, <1>3 DEF KInv

\* Every step keeps the flags Boolean and the places and files in their sets.
LEMMA NextTypeOK == KInv /\ [Next]_vars => TypeOK'
<1> SUFFICES ASSUME KInv, [Next]_vars
             PROVE  TypeOK'
  OBVIOUS
<1> USE DEF KInv, TypeOK, InitSteps, files
<1>1. CASE Start
  BY <1>1 DEF Start
<1>2. CASE Load
  BY <1>2 DEF Load, LoadId, NoId, LoadCert, NoCert
<1>3. CASE MakeDir \/ DirExists \/ InitFails
  BY <1>3 DEF MakeDir, DirExists, InitFails
<1>4. CASE OpenId \/ WriteId
  BY <1>4 DEF OpenId, WriteId, IdWritten
<1>5. CASE MakeKeys
  BY <1>5, BoundAssumption DEF MakeKeys
<1>6. CASE OpenKey \/ WriteKey
  BY <1>6 DEF OpenKey, WriteKey, CertNext, Progress
<1>7. CASE OpenCert \/ WriteCert
  BY <1>7 DEF OpenCert, WriteCert, Progress
<1>8. CASE PowerOff \/ WipeDir \/ LoseFile
  BY <1>8 DEF PowerOff, WipeDir, LoseFile
<1>9. CASE UNCHANGED vars
  BY <1>9 DEF vars
<1>. QED
  BY <1>1, <1>2, <1>3, <1>4, <1>5, <1>6, <1>7, <1>8, <1>9 DEF Next, Create, Outside

\* gs_conf_init goes from step to step in the directory it has made.
LEMMA NextProgress == KInv /\ [Next]_vars => Progress'
<1> SUFFICES ASSUME KInv, [Next]_vars
             PROVE  Progress'
  OBVIOUS
<1> USE DEF KInv, Progress, InitSteps, files
<1>1. CASE Start
  BY <1>1 DEF Start
<1>2. CASE Load
  BY <1>2 DEF Load, LoadId, NoId, LoadCert, NoCert
<1>3. CASE MakeDir \/ DirExists \/ InitFails
  <2>1. CASE MakeDir
    BY <2>1 DEF MakeDir, DirNew
  <2>2. CASE DirExists \/ InitFails
    BY <2>2 DEF DirExists, InitFails
  <2>. QED
    BY <1>3, <2>1, <2>2
<1>4. CASE OpenId \/ WriteId
  BY <1>4 DEF OpenId, WriteId, IdWritten
<1>5. CASE MakeKeys
  BY <1>5, BoundAssumption DEF MakeKeys, TypeOK, Pairs
<1>6. CASE OpenKey \/ WriteKey
  <2>1. CASE OpenKey
    BY <2>1 DEF OpenKey
  <2>2. CASE WriteKey
    BY <2>2 DEF WriteKey, CertNext
  <2>. QED
    BY <1>6, <2>1, <2>2
<1>7. CASE OpenCert \/ WriteCert
  BY <1>7 DEF OpenCert, WriteCert
<1>8. CASE PowerOff \/ WipeDir \/ LoseFile
  BY <1>8 DEF PowerOff, WipeDir, LoseFile
<1>9. CASE UNCHANGED vars
  BY <1>9 DEF vars
<1>. QED
  BY <1>1, <1>2, <1>3, <1>4, <1>5, <1>6, <1>7, <1>8, <1>9 DEF Next, Create, Outside

\* Only WriteCert completes a certificate, beside the key of its own pair.
LEMMA NextSamePair == KInv /\ [Next]_vars => SamePair'
<1> SUFFICES ASSUME KInv, [Next]_vars
             PROVE  SamePair'
  OBVIOUS
<1> USE NoPair DEF KInv, SamePair, files
<1>1. CASE Start
  BY <1>1 DEF Start
<1>2. CASE Load
  BY <1>2 DEF Load, LoadId, NoId, LoadCert, NoCert
<1>3. CASE MakeDir \/ DirExists \/ InitFails
  BY <1>3 DEF MakeDir, DirExists, InitFails
<1>4. CASE OpenId \/ WriteId
  BY <1>4 DEF OpenId, WriteId
<1>5. CASE MakeKeys
  BY <1>5 DEF MakeKeys
<1>6. CASE OpenKey \/ WriteKey
  BY <1>6 DEF OpenKey, WriteKey, CertNext, Progress
<1>7. CASE OpenCert \/ WriteCert
  BY <1>7 DEF OpenCert, WriteCert, Progress
<1>8. CASE PowerOff \/ WipeDir \/ LoseFile
  BY <1>8 DEF PowerOff, WipeDir, LoseFile
<1>9. CASE UNCHANGED vars
  BY <1>9 DEF vars
<1>. QED
  BY <1>1, <1>2, <1>3, <1>4, <1>5, <1>6, <1>7, <1>8, <1>9 DEF Next, Create, Outside

\* KInv holds throughout.
THEOREM KeyStoreInvariance == Spec => []KInv
<1>1. Init => KInv
  BY InitKInv
<1>2. KInv /\ [Next]_vars => KInv'
  BY NextTypeOK, NextProgress, NextSamePair DEF KInv
<1>. QED
  BY <1>1, <1>2, PTL DEF Spec

\* The files are what the model takes them for: absent, short, or complete.
THEOREM KeyStoreTypeCorrect == Spec => []TypeOK
<1>1. KInv => TypeOK
  BY DEF KInv
<1>. QED
  BY <1>1, KeyStoreInvariance, PTL

\* A client that runs has the key of its certificate (load_cert does not look),
\* whatever was switched off, lost or wiped before.
THEOREM RunningKeysMatch == Spec => []KeysMatch
<1>1. KInv => KeysMatch
  BY DEF KInv, SamePair, KeysMatch
<1>. QED
  BY <1>1, KeyStoreInvariance, PTL

\* The program never writes over a complete key or certificate: gs_conf_init
\* opens its files in a directory it has just made.
THEOREM IdentityNotOverwritten == Spec => IdentityKept
<1> DEFINE Kept == pc # "off" => /\ key \in Pairs => key' = key
                                 /\ cert \in Pairs => cert' = cert
<1>1. KInv /\ [Next]_vars => [Kept]_vars
  <2> SUFFICES ASSUME KInv, Next
               PROVE  Kept
    OBVIOUS
  <2> USE NoPair DEF KInv, Progress, files
  <2>1. CASE Start \/ PowerOff \/ WipeDir \/ LoseFile
    BY <2>1 DEF Start, PowerOff, WipeDir, LoseFile
  <2>2. CASE Load
    BY <2>2 DEF Load, LoadId, NoId, LoadCert, NoCert
  <2>3. CASE MakeDir \/ DirExists \/ InitFails \/ OpenId \/ WriteId \/ MakeKeys
    BY <2>3 DEF MakeDir, DirExists, InitFails, OpenId, WriteId, MakeKeys
  <2>4. CASE OpenKey \/ WriteKey \/ OpenCert \/ WriteCert
    BY <2>4 DEF OpenKey, WriteKey, OpenCert, WriteCert
  <2>. QED
    BY <2>1, <2>2, <2>3, <2>4 DEF Next, Create, Outside
<1>. QED
  BY <1>1, KeyStoreInvariance, PTL DEF Spec, IdentityKept
=============================================================================

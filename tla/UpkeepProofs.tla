---------------------------- MODULE UpkeepProofs ----------------------------
(***************************************************************************)
(* Theorems about the parts of Background.tla that keep the machine going: *)
(* the self update, the issuance and the repair of certificates, the loops *)
(* that tell the address, and the SFTP server.                             *)
(***************************************************************************)
EXTENDS Background, FiniteSetTheorems, SequenceTheorems, TLAPS

-----------------------------------------------------------------------------
(* SelfUpdate: for any number of versions and crashes.                     *)

UpdatingTypes ==
    /\ release \in Updating!Version /\ sound \subseteq Updating!Version
    /\ overwrites \in BOOLEAN /\ enabled \in BOOLEAN
    /\ disk \in [Updating!File -> 0..MaxVersion] /\ backup \in 0..MaxVersion
    /\ updateStage \in {"idle", "backup", "copy", "probe", "exit", "restore", "restoring",
                  "binary", "version.json"}
    /\ new \in 0..MaxVersion /\ todo \subseteq Updating!File
    /\ running \in 0..MaxVersion /\ heir \in 0..MaxVersion
    /\ updateTorn \in BOOLEAN /\ crashed \in BOOLEAN
    /\ crashes \in 0..MaxCrashes

\* Where an attempt stands: the binary is as it was until it is opened, the new
\* one once it is written; the backup is the old one.
UpdatingAttemptInv ==
    /\ updateStage \in {"probe", "exit", "restore", "restoring"} => todo = {}
    /\ updateStage = "binary" => "binary" \notin todo
    /\ updateStage \in {"idle", "backup"} /\ ~updateTorn => disk["binary"] \in sound
    /\ updateStage \in {"copy", "version.json"} /\ "binary" \in todo /\ ~updateTorn =>
          disk["binary"] \in sound
    /\ updateStage \in {"copy", "version.json"} /\ "binary" \notin todo
          => disk["binary"] = new
    /\ updateStage \in {"probe", "exit", "restore"} => disk["binary"] = new
    /\ updateStage \notin {"idle", "backup"} /\ ~updateTorn => backup \in sound

\* Who serves, and who is to.
UpdatingServerInv ==
    /\ running \in sound \cup {0} /\ heir \in sound \cup {0}
    /\ updateStage # "idle" => running # 0
    /\ updateStage = "exit" => new \in sound

LEMMA UpdatingInvInit ==
    ASSUME Updating!Parameters
    PROVE  Updating!Init => UpdatingTypes /\ UpdatingAttemptInv /\ UpdatingServerInv
<1> SUFFICES ASSUME Updating!Init
             PROVE  UpdatingTypes /\ UpdatingAttemptInv /\ UpdatingServerInv
  OBVIOUS
<1>1. 1 \in 0..MaxVersion /\ 0 \in 0..MaxVersion /\ 1 \in Updating!Version
       /\ 0 \in 0..MaxCrashes
  BY DEF Updating!Parameters, Updating!Version
<1>2. disk \in [Updating!File -> 0..MaxVersion] /\ disk["binary"] = 1
  <2>1. CASE disk = [f \in Updating!File |-> 1]
    BY <1>1, <2>1 DEF Updating!File
  <2>2. CASE disk = [f \in Updating!File |-> IF f = "binary" THEN 1 ELSE 0]
    <3>1. \A f \in Updating!File : (IF f = "binary" THEN 1 ELSE 0) \in 0..MaxVersion
      BY <1>1
    <3>2. "binary" \in Updating!File
      BY DEF Updating!File
    <3> QED BY <2>2, <3>1, <3>2
  <2>3. \/ disk = [f \in Updating!File |-> 1]
        \/ disk = [f \in Updating!File |-> IF f = "binary" THEN 1 ELSE 0]
    BY Zenon DEF Updating!Init
  <2> QED BY <2>1, <2>2, <2>3, Zenon
<1>3. /\ release = 1 /\ sound \subseteq Updating!Version /\ 1 \in sound
      /\ overwrites \in BOOLEAN /\ enabled \in BOOLEAN
      /\ backup = 0 /\ updateStage = "idle" /\ new = 0 /\ todo = {}
      /\ running = 1 /\ heir = 0
      /\ updateTorn = FALSE /\ crashed = FALSE /\ crashes = 0
  BY DEF Updating!Init
<1>4. UpdatingTypes
  BY <1>1, <1>2, <1>3 DEF UpdatingTypes
<1> QED BY <1>2, <1>3, <1>4 DEF UpdatingAttemptInv, UpdatingServerInv

LEMMA UpdatingTypesStep ==
    ASSUME Updating!Parameters
    PROVE  UpdatingTypes /\ [Updating!Next]_(Updating!vars) => UpdatingTypes'
<1> SUFFICES ASSUME UpdatingTypes, [Updating!Next]_(Updating!vars) PROVE UpdatingTypes'
  OBVIOUS
<1> USE DEF UpdatingTypes
<1>0. MaxVersion \in Nat \ {0} /\ MaxCrashes \in Nat /\ 0 \in 0..MaxVersion
      /\ Updating!Version \subseteq 0..MaxVersion
      /\ Updating!File = {"binary", "version.json"}
  BY DEF Updating!Parameters, Updating!Version, Updating!File
<1>1. CASE Updating!Release
  <2>1. release + 1 \in Updating!Version
    BY <1>0, <1>1 DEF Updating!Release, Updating!Version
  <2> QED BY <1>1, <2>1 DEF Updating!Release, Updating!attempt
<1>2. CASE Updating!SetAutoUpdate
  BY <1>2 DEF Updating!SetAutoUpdate, Updating!attempt
<1>3. CASE Updating!Check
  BY <1>0, <1>3 DEF Updating!Check
<1>4. CASE Updating!BackUp
  BY <1>0, <1>4 DEF Updating!BackUp, Updating!GiveUp
<1>5. ASSUME NEW f \in Updating!File, Updating!Open(f) PROVE UpdatingTypes'
  <2>1. disk' \in [Updating!File -> 0..MaxVersion]
    BY <1>0, <1>5 DEF Updating!Open
  <2>2. updateStage' \in {"idle", "binary", "version.json"}
         /\ todo' \subseteq Updating!File
        /\ new' \in {0, new} /\ updateTorn' \in BOOLEAN
    BY <1>0, <1>5 DEF Updating!Open, Updating!GiveUp
  <2>3. UNCHANGED <<release, sound, overwrites, enabled, backup, running, heir, crashed,
                    crashes>>
    BY <1>5 DEF Updating!Open, Updating!GiveUp
  <2> QED BY <1>0, <2>1, <2>2, <2>3
<1>6. CASE Updating!Write
  <2>1. disk' \in [Updating!File -> 0..MaxVersion]
    BY <1>0, <1>6 DEF Updating!Write
  <2> QED BY <1>0, <1>6, <2>1 DEF Updating!Write, Updating!GiveUp
<1>7. CASE Updating!Probe
  BY <1>0, <1>7 DEF Updating!Probe, Updating!GiveUp
<1>8. CASE Updating!Exit
  BY <1>0, <1>8 DEF Updating!Exit
<1>9. CASE Updating!TakeOver
  BY <1>0, <1>9 DEF Updating!TakeOver, Updating!attempt
<1>10. CASE Updating!Restore
  <2>1. disk' \in [Updating!File -> 0..MaxVersion]
    BY <1>0, <1>10 DEF Updating!Restore
  <2> QED BY <1>0, <1>10, <2>1 DEF Updating!Restore, Updating!GiveUp
<1>11. CASE Updating!Restored
  <2>1. disk' \in [Updating!File -> 0..MaxVersion]
    BY <1>0, <1>11 DEF Updating!Restored
  <2> QED BY <1>0, <1>11, <2>1 DEF Updating!Restored, Updating!GiveUp
<1>12. CASE Updating!Crash
  BY <1>0, <1>12 DEF Updating!Crash
<1>13. CASE Updating!Start
  BY <1>0, <1>13 DEF Updating!Start, Updating!attempt, Updating!File
<1>14. CASE UNCHANGED Updating!vars
  BY <1>14 DEF Updating!vars, Updating!attempt
<1> QED BY <1>1, <1>2, <1>3, <1>4, <1>5, <1>6, <1>7, <1>8, <1>9, <1>10, <1>11, <1>12,
           <1>13, <1>14 DEF Updating!Next

\* An attempt that is given up after the binary was opened is remembered.
LEMMA UpdatingGivenUp ==
    ASSUME UpdatingTypes, UpdatingAttemptInv, UpdatingServerInv, Updating!GiveUp,
           updateStage # "idle",
           UNCHANGED <<sound, disk, crashed>>
    PROVE  UpdatingAttemptInv' /\ UpdatingServerInv'
BY DEF UpdatingTypes, UpdatingAttemptInv, UpdatingServerInv, Updating!GiveUp,
   Updating!Opened

LEMMA UpdatingInvStep ==
    ASSUME Updating!Parameters
    PROVE  UpdatingTypes /\ UpdatingAttemptInv /\ UpdatingServerInv /\ [Updating!Next]_(Updating!vars) => UpdatingAttemptInv' /\ UpdatingServerInv'
<1> SUFFICES ASSUME UpdatingTypes, UpdatingAttemptInv, UpdatingServerInv,
                    [Updating!Next]_(Updating!vars)
             PROVE  UpdatingAttemptInv' /\ UpdatingServerInv'
  OBVIOUS
<1>0. /\ 0 \notin sound /\ Updating!File = {"binary", "version.json"}
      /\ \A v : v \in sound => v # 0
  BY DEF UpdatingTypes, Updating!Version, Updating!File
<1> USE DEF UpdatingAttemptInv, UpdatingServerInv
<1>1. CASE Updating!Release
  BY <1>1 DEF Updating!Release, Updating!attempt
<1>2. CASE Updating!SetAutoUpdate
  BY <1>2 DEF Updating!SetAutoUpdate, Updating!attempt
<1>3. CASE Updating!Check
  BY <1>3 DEF Updating!Check
<1>4. CASE Updating!BackUp
  <2>1. CASE Updating!GiveUp
    BY <1>4, <2>1, UpdatingGivenUp DEF Updating!BackUp
  <2>2. CASE ~Updating!GiveUp
    <3>1. /\ updateStage = "backup" /\ backup' = disk["binary"] /\ updateStage' = "copy"
          /\ todo' = Updating!File
          /\ UNCHANGED <<sound, disk, new, running, heir, updateTorn, crashed>>
      BY <1>4, <2>2 DEF Updating!BackUp
    <3> QED BY <1>0, <3>1
  <2> QED BY <2>1, <2>2
<1>5. ASSUME NEW f \in Updating!File, Updating!Open(f)
      PROVE  UpdatingAttemptInv' /\ UpdatingServerInv'
  <2>1. CASE Updating!GiveUp /\ UNCHANGED disk
    BY <1>5, <2>1, UpdatingGivenUp DEF Updating!Open
  <2>2. CASE ~(Updating!GiveUp /\ UNCHANGED disk)
    <3>1. /\ updateStage = "copy" /\ f \in todo
          /\ disk' = [disk EXCEPT ![f] = 0] /\ updateStage' = f /\ todo' = todo \ {f}
          /\ UNCHANGED <<sound, backup, new, running, heir, updateTorn, crashed>>
      BY <1>5, <2>2 DEF Updating!Open
    <3>2. CASE f = "binary"
      BY <3>1, <3>2
    <3>3. CASE f = "version.json"
      <4>1. disk'["binary"] = disk["binary"]
        BY <3>1, <3>3 DEF UpdatingTypes
      <4> QED BY <3>1, <3>3, <4>1
    <3> QED BY <1>0, <3>2, <3>3
  <2> QED BY <2>1, <2>2
<1>6. CASE Updating!Write
  <2>1. CASE Updating!GiveUp /\ UNCHANGED disk
    BY <1>0, <1>6, <2>1, UpdatingGivenUp DEF Updating!Write
  <2>2. CASE ~(Updating!GiveUp /\ UNCHANGED disk)
    <3>1. /\ updateStage \in {"binary", "version.json"} /\ disk' = [disk EXCEPT ![updateStage] = new]
          /\ updateStage' = IF todo = {} THEN "probe" ELSE "copy"
          /\ UNCHANGED <<sound, backup, new, todo, running, heir, updateTorn, crashed>>
      BY <1>0, <1>6, <2>2 DEF Updating!Write
    <3>2. disk'["binary"] = IF updateStage = "binary" THEN new ELSE disk["binary"]
      BY <1>0, <3>1 DEF UpdatingTypes
    <3> QED BY <3>1, <3>2
  <2> QED BY <2>1, <2>2
<1>7. CASE Updating!Probe
  <2>1. CASE Updating!GiveUp
    BY <1>7, <2>1, UpdatingGivenUp DEF Updating!Probe
  <2>2. CASE ~Updating!GiveUp
    <3>1. /\ updateStage = "probe"
          /\ UNCHANGED <<sound, disk, backup, new, todo, running, updateTorn,
                           crashed>>
          /\ \/ updateStage' = "exit" /\ heir' = new /\ new \in sound
             \/ updateStage' = "restore" /\ heir' = heir
      BY <1>7, <2>2 DEF Updating!Probe, Updating!Healthy
    <3> QED BY <1>0, <3>1
  <2> QED BY <2>1, <2>2
<1>8. CASE Updating!Exit
  BY <1>0, <1>8 DEF Updating!Exit
<1>9. CASE Updating!TakeOver
  BY <1>0, <1>9 DEF Updating!TakeOver, Updating!attempt
<1>10. CASE Updating!Restore
  <2>1. CASE Updating!GiveUp /\ UNCHANGED disk
    BY <1>10, <2>1, UpdatingGivenUp DEF Updating!Restore
  <2>2. CASE ~(Updating!GiveUp /\ UNCHANGED disk)
    <3>1. /\ updateStage = "restore" /\ updateStage' = "restoring"
          /\ UNCHANGED <<sound, backup, new, todo, running, heir, updateTorn, crashed>>
      BY <1>10, <2>2 DEF Updating!Restore
    <3> QED BY <3>1
  <2> QED BY <2>1, <2>2
<1>11. CASE Updating!Restored
  <2>1. CASE Updating!GiveUp /\ UNCHANGED disk
    BY <1>11, <2>1, UpdatingGivenUp DEF Updating!Restored
  <2>2. CASE ~(Updating!GiveUp /\ UNCHANGED disk)
    <3>1. /\ updateStage = "restoring" /\ disk' = [disk EXCEPT !["binary"] = backup]
          /\ updateStage' = "idle"
          /\ UNCHANGED <<sound, backup, todo, running, heir, updateTorn, crashed>>
      BY <1>11, <2>2 DEF Updating!Restored
    <3>2. disk'["binary"] = backup
      BY <1>0, <3>1 DEF UpdatingTypes
    <3> QED BY <3>1, <3>2
  <2> QED BY <2>1, <2>2
<1>12. CASE Updating!Crash
  BY <1>12 DEF Updating!Crash, Updating!Opened, UpdatingTypes
<1>13. CASE Updating!Start
  BY <1>0, <1>13 DEF Updating!Start, Updating!attempt
<1>14. CASE UNCHANGED Updating!vars
  BY <1>14 DEF Updating!vars, Updating!attempt
<1> QED BY <1>1, <1>2, <1>3, <1>4, <1>5, <1>6, <1>7, <1>8, <1>9, <1>10, <1>11, <1>12,
           <1>13, <1>14 DEF Updating!Next

LEMMA UpdatingTypeCorrect ==
    ASSUME Updating!Parameters
    PROVE  Updating!Init /\ [][Updating!Next]_(Updating!vars) => []Updating!TypeOK
<1>1. UpdatingTypes => Updating!TypeOK
  BY DEF UpdatingTypes, Updating!TypeOK, Updating!File
<1> QED BY <1>1, UpdatingInvInit, UpdatingTypesStep, PTL

\* An attempt that ends leaves a sound binary, or is remembered as torn.
LEMMA UpdatingPutRight ==
    ASSUME Updating!Parameters
    PROVE  Updating!Init /\ [][Updating!Next]_(Updating!vars)
           => []Updating!BinaryPutRight
<1>1. UpdatingAttemptInv => Updating!BinaryPutRight
  BY DEF UpdatingAttemptInv, Updating!BinaryPutRight
<1> QED BY <1>1, UpdatingInvInit, UpdatingTypesStep, UpdatingInvStep, PTL

\* The port passes from one sound version to another.
LEMMA UpdatingHandsOver ==
    ASSUME Updating!Parameters
    PROVE  Updating!Init /\ [][Updating!Next]_(Updating!vars) => []Updating!NeverUnsound
<1>1. UpdatingServerInv => Updating!NeverUnsound
  BY DEF UpdatingServerInv, Updating!NeverUnsound
<1> QED BY <1>1, UpdatingInvInit, UpdatingTypesStep, UpdatingInvStep, PTL

-----------------------------------------------------------------------------
(* AcmeIssuance: for any callers, account keys, orders and restarts.       *)

IssuingStages == {"idle", "open", "fill", "rename", "order", "publish", "respond", "poll",
           "finalize"}

IssuingIssue == [stage : IssuingStages, key : AccountKey \cup {None}, file : AccountKey \cup {None}, authz : 0..MaxOrders]

IssuingStatus == {"none", "pending", "valid", "invalid"}

IssuingAuthorization == [key : AccountKey \cup {None}, asked : BOOLEAN, status : IssuingStatus]

IssuingTypes ==
    /\ spoilt \in BOOLEAN /\ restarts \in 0..MaxRestarts
    /\ content \in [AccountKey -> AccountKey \cup {None}]
    /\ generated \subseteq AccountKey
    /\ keyFile \in AccountKey \cup {None} /\ tmp \in AccountKey \cup {None}
    /\ call \in [Task -> IssuingIssue]
    /\ tokens \in [Issuing!Authz -> AccountKey \cup {None}]
    /\ leftover \subseteq Issuing!Authz
    /\ authz \in [Issuing!Authz -> IssuingAuthorization] /\ orders \in 0..MaxOrders

\* Which fields of a call mean something, by its stage.
IssuingCallInv ==
    \A c \in Task :
       /\ call[c].stage # "idle" => call[c].key \in generated
       /\ call[c].stage = "fill" => call[c].file \in AccountKey
       /\ call[c].stage \in {"publish", "respond", "poll", "finalize"} =>
             /\ call[c].authz \in Issuing!Authz /\ authz[call[c].authz].status # "none"
             /\ authz[call[c].authz].key = call[c].key

\* The CA opens its authorizations one after the other.
IssuingAuthzInv == \A a \in Issuing!Authz : authz[a].status # "none" => a <= orders

\* A token that may be asked for is there, and none that nobody accounts for.
IssuingTokenInv ==
    /\ \A c \in Task :
          call[c].stage \in {"respond", "poll"} /\ authz[call[c].authz].status = "pending"
            => tokens[call[c].authz] = call[c].key
    /\ \A a \in Issuing!Authz : tokens[a] # None =>
          \/ a \in leftover
          \/ \E c \in Task : call[c].authz = a /\ call[c].stage \in {"respond", "poll"}

\* No two names for one file; who is yet to open the temporary file has a name of
\* its own for it.
IssuingNameInv ==
    /\ keyFile \in generated \cup {None} /\ tmp \in generated \cup {None}
    /\ \A k \in AccountKey : content[k] \in generated \cup {None}
    /\ tmp # None => tmp # keyFile
    /\ \A c \in Task : call[c].stage = "open" => call[c].key # tmp /\ call[c].key # keyFile
    /\ \A c, d \in Task : c # d /\ call[c].stage = "open" /\ call[d].stage = "open"
          => call[c].key # call[d].key

IssuingBusy(c) == call[c].stage \in {"open", "fill", "rename"}

\* As long as nothing failed: a file that is empty has its writer, and the first key
\* is in place or on its way there.
IssuingFileInv ==
    ~spoilt =>
      /\ \A f \in {tmp, keyFile} : f # None =>
            content[f] # None \/ \E c \in Task : call[c].stage = "fill" /\ call[c].file = f
      /\ keyFile = None /\ generated # {} => \E c \in Task : IssuingBusy(c)
      /\ \A c \in Task : call[c].stage \in {"fill", "rename"} =>
            tmp # None \/ keyFile # None

IssuingInv == IssuingTypes /\ IssuingCallInv /\ IssuingAuthzInv /\ IssuingTokenInv
    /\ IssuingNameInv /\ IssuingFileInv

LEMMA IssuingInvInit == ASSUME Issuing!Parameters PROVE Issuing!Init => IssuingInv
<1> SUFFICES ASSUME Issuing!Init PROVE IssuingInv
  OBVIOUS
<1>1. /\ Issuing!Idle.stage = "idle" /\ Issuing!Idle.key = None
      /\ Issuing!Idle.file = None /\ Issuing!Idle.authz = 0
      /\ Issuing!NoAuthz.status = "none" /\ Issuing!NoAuthz \in IssuingAuthorization
  <2>1. Issuing!Idle.stage = "idle" /\ Issuing!Idle.key = None
         /\ Issuing!Idle.file = None /\ Issuing!Idle.authz = 0
    BY DEF Issuing!Idle
  <2>2. Issuing!NoAuthz.status = "none" /\ Issuing!NoAuthz \in IssuingAuthorization
    BY DEF Issuing!NoAuthz, IssuingAuthorization, IssuingStatus
  <2> QED BY <2>1, <2>2
<1>2. Issuing!Idle \in IssuingIssue
  <2>1. 0 \in 0..MaxOrders
    BY DEF Issuing!Parameters
  <2> QED BY <2>1 DEF Issuing!Idle, IssuingIssue, IssuingStages
<1>3. /\ spoilt = FALSE /\ restarts = 0 /\ orders = 0
      /\ generated = {} /\ keyFile = None /\ tmp = None /\ leftover = {}
      /\ content \in [AccountKey -> AccountKey \cup {None}] /\ \A k \in AccountKey : content[k] = None
      /\ call \in [Task -> IssuingIssue] /\ \A c \in Task : call[c].stage = "idle"
      /\ tokens \in [Issuing!Authz -> AccountKey \cup {None}] /\ \A a \in Issuing!Authz : tokens[a] = None
      /\ authz \in [Issuing!Authz -> IssuingAuthorization] /\ \A a \in Issuing!Authz : authz[a].status = "none"
  BY <1>1, <1>2 DEF Issuing!Init
<1>4. IssuingTypes
  <2>1. 0 \in 0..MaxOrders /\ 0 \in 0..MaxRestarts
    BY DEF Issuing!Parameters
  <2>2. spoilt \in BOOLEAN
    BY <1>3, Zenon
  <2> QED BY <1>3, <2>1, <2>2 DEF IssuingTypes
<1>5. IssuingCallInv /\ IssuingAuthzInv
  BY <1>3 DEF IssuingCallInv, IssuingAuthzInv
<1>6. IssuingTokenInv
  BY <1>3 DEF IssuingTokenInv
<1>7. IssuingNameInv
  BY <1>3 DEF IssuingNameInv
<1>8. IssuingFileInv
  BY <1>3 DEF IssuingFileInv
<1> QED BY <1>4, <1>5, <1>6, <1>7, <1>8 DEF IssuingInv

-----------------------------------------------------------------------------
\* One field of a call at a time.
LEMMA IssuingSetStage ==
    ASSUME NEW m \in [Task -> IssuingIssue], NEW c \in Task, NEW s \in IssuingStages
    PROVE  LET n == [m EXCEPT ![c].stage = s]
           IN  /\ n \in [Task -> IssuingIssue] /\ \A d \in Task : d # c => n[d] = m[d]
               /\ n[c].stage = s /\ n[c].key = m[c].key /\ n[c].file = m[c].file
               /\ n[c].authz = m[c].authz
BY DEF IssuingIssue

LEMMA IssuingSetKey ==
    ASSUME NEW m \in [Task -> IssuingIssue], NEW c \in Task,
           NEW k \in AccountKey \cup {None}
    PROVE  LET n == [m EXCEPT ![c].key = k]
           IN  /\ n \in [Task -> IssuingIssue] /\ \A d \in Task : d # c => n[d] = m[d]
               /\ n[c].stage = m[c].stage /\ n[c].key = k /\ n[c].file = m[c].file
               /\ n[c].authz = m[c].authz
BY DEF IssuingIssue

LEMMA IssuingSetFile ==
    ASSUME NEW m \in [Task -> IssuingIssue], NEW c \in Task,
           NEW f \in AccountKey \cup {None}
    PROVE  LET n == [m EXCEPT ![c].file = f]
           IN  /\ n \in [Task -> IssuingIssue] /\ \A d \in Task : d # c => n[d] = m[d]
               /\ n[c].stage = m[c].stage /\ n[c].key = m[c].key /\ n[c].file = f
               /\ n[c].authz = m[c].authz
BY DEF IssuingIssue

LEMMA IssuingSetAuthz ==
    ASSUME NEW m \in [Task -> IssuingIssue], NEW c \in Task, NEW a \in 0..MaxOrders
    PROVE  LET n == [m EXCEPT ![c].authz = a]
           IN  /\ n \in [Task -> IssuingIssue] /\ \A d \in Task : d # c => n[d] = m[d]
               /\ n[c].stage = m[c].stage /\ n[c].key = m[c].key /\ n[c].file = m[c].file
               /\ n[c].authz = a
BY DEF IssuingIssue

\* The call of c goes on, with these fields.
IssuingBecomes(c, stage, key, file, a) ==
    /\ call' \in [Task -> IssuingIssue] /\ \A d \in Task : d # c => call'[d] = call[d]
    /\ call'[c].stage = stage /\ call'[c].key = key /\ call'[c].file = file
    /\ call'[c].authz = a

LEMMA IssuingStageMoves ==
    ASSUME IssuingTypes, NEW c \in Task, NEW s \in IssuingStages, Issuing!Goto(c, s)
    PROVE  IssuingBecomes(c, s, call[c].key, call[c].file, call[c].authz)
BY IssuingSetStage DEF Issuing!Goto, IssuingBecomes, IssuingTypes

LEMMA IssuingEndMoves ==
    ASSUME Issuing!Parameters, IssuingTypes, NEW c \in Task, Issuing!End(c)
    PROVE  IssuingBecomes(c, "idle", None, None, 0)
<1>1. Issuing!Idle \in IssuingIssue
  <2>1. 0 \in 0..MaxOrders
    BY DEF Issuing!Parameters
  <2> QED BY <2>1 DEF Issuing!Idle, IssuingIssue, IssuingStages
<1>2. /\ call' \in [Task -> IssuingIssue] /\ \A d \in Task : d # c => call'[d] = call[d]
      /\ call'[c] = Issuing!Idle
  BY <1>1 DEF Issuing!End, IssuingTypes
<1> QED BY <1>2 DEF IssuingBecomes, Issuing!Idle

LEMMA IssuingLoadMoves ==
    ASSUME IssuingTypes, NEW c \in Task, Issuing!LoadKey(c)
    PROVE  /\ call[c].stage = "idle"
           /\ \/ /\ keyFile # None /\ content[keyFile] # None /\ generated' = generated
                 /\ IssuingBecomes(c, "order", content[keyFile], call[c].file, call[c].authz)
              \/ \E k \in AccountKey \ generated :
                    /\ generated' = generated \cup {k}
                    /\ IssuingBecomes(c, "open", k, call[c].file, call[c].authz)
<1>1. ASSUME NEW s \in IssuingStages, NEW k \in AccountKey,
             call' = [call EXCEPT ![c].stage = s, ![c].key = k]
      PROVE  IssuingBecomes(c, s, k, call[c].file, call[c].authz)
  <2> DEFINE m1 == [call EXCEPT ![c].stage = s]
             m2 == [m1 EXCEPT ![c].key = k]
  <2>1. call' = m2
    BY <1>1
  <2>2. /\ m1 \in [Task -> IssuingIssue] /\ \A d \in Task : d # c => m1[d] = call[d]
        /\ m1[c].stage = s /\ m1[c].file = call[c].file /\ m1[c].authz = call[c].authz
    BY IssuingSetStage DEF IssuingTypes
  <2> HIDE DEF m1
  <2>3. /\ m2 \in [Task -> IssuingIssue] /\ \A d \in Task : d # c => m2[d] = m1[d]
        /\ m2[c].stage = m1[c].stage /\ m2[c].key = k /\ m2[c].file = m1[c].file
        /\ m2[c].authz = m1[c].authz
    BY <2>2, IssuingSetKey
  <2> HIDE DEF m2
  <2> QED BY <2>1, <2>2, <2>3 DEF IssuingBecomes
<1>2. CASE keyFile # None /\ content[keyFile] # None
  <2>1. content[keyFile] \in AccountKey
    BY <1>2 DEF IssuingTypes
  <2>2. call' = [call EXCEPT ![c].stage = "order", ![c].key = content[keyFile]]
        /\ generated' = generated /\ call[c].stage = "idle"
    BY <1>2 DEF Issuing!LoadKey, Issuing!At
  <2>3. "order" \in IssuingStages
    BY DEF IssuingStages
  <2> QED BY <1>1, <1>2, <2>1, <2>2, <2>3
<1>3. CASE ~(keyFile # None /\ content[keyFile] # None)
  <2>1. PICK k \in AccountKey \ generated :
          /\ call' = [call EXCEPT ![c].stage = "open", ![c].key = k]
          /\ generated' = generated \cup {k}
    BY <1>3 DEF Issuing!LoadKey
  <2>2. call[c].stage = "idle" /\ "open" \in IssuingStages
    BY DEF Issuing!LoadKey, Issuing!At, IssuingStages
  <2> QED BY <1>1, <2>1, <2>2
<1> QED BY <1>2, <1>3

\* The file that a call opens under the temporary name.
IssuingTemporary(c) == IF tmp = None THEN call[c].key ELSE tmp

LEMMA IssuingOpenMoves ==
    ASSUME IssuingTypes, IssuingCallInv, NEW c \in Task, Issuing!OpenTmp(c)
    PROVE  /\ call[c].stage = "open"
           /\ \/ /\ IssuingTemporary(c) \in AccountKey /\ tmp' = IssuingTemporary(c) /\ spoilt' = spoilt
                 /\ content' = [content EXCEPT ![IssuingTemporary(c)] = None]
                 /\ IssuingBecomes(c, "fill", call[c].key, IssuingTemporary(c), call[c].authz)
              \/ /\ spoilt' /\ UNCHANGED <<tmp, content>>
                 /\ IssuingBecomes(c, "order", call[c].key, call[c].file, call[c].authz)
<1>1. call[c].stage = "open" /\ IssuingTemporary(c) \in AccountKey
  BY DEF Issuing!OpenTmp, Issuing!At, IssuingCallInv, IssuingTypes, IssuingTemporary
<1>2. \/ /\ tmp' = IssuingTemporary(c) /\ content' = [content EXCEPT ![IssuingTemporary(c)] = None]
         /\ call' = [call EXCEPT ![c].stage = "fill", ![c].file = IssuingTemporary(c)]
         /\ spoilt' = spoilt
      \/ spoilt' /\ Issuing!Goto(c, "order") /\ UNCHANGED <<tmp, content>>
  BY DEF Issuing!OpenTmp, IssuingTemporary
<1>3. ASSUME call' = [call EXCEPT ![c].stage = "fill", ![c].file = IssuingTemporary(c)]
      PROVE  IssuingBecomes(c, "fill", call[c].key, IssuingTemporary(c), call[c].authz)
  <2> DEFINE m1 == [call EXCEPT ![c].stage = "fill"]
             m2 == [m1 EXCEPT ![c].file = IssuingTemporary(c)]
  <2>1. call' = m2
    BY <1>3
  <2>2. /\ m1 \in [Task -> IssuingIssue] /\ \A d \in Task : d # c => m1[d] = call[d]
        /\ m1[c].stage = "fill" /\ m1[c].key = call[c].key /\ m1[c].authz = call[c].authz
    <3>1. "fill" \in IssuingStages
      BY DEF IssuingStages
    <3> QED BY <3>1, IssuingSetStage DEF IssuingTypes
  <2> HIDE DEF m1
  <2>3. /\ m2 \in [Task -> IssuingIssue] /\ \A d \in Task : d # c => m2[d] = m1[d]
        /\ m2[c].stage = m1[c].stage /\ m2[c].key = m1[c].key
        /\ m2[c].file = IssuingTemporary(c) /\ m2[c].authz = m1[c].authz
    BY <1>1, <2>2, IssuingSetFile
  <2> HIDE DEF m2
  <2> QED BY <2>1, <2>2, <2>3 DEF IssuingBecomes
<1>4. ASSUME Issuing!Goto(c, "order")
      PROVE  IssuingBecomes(c, "order", call[c].key, call[c].file, call[c].authz)
  BY <1>4, IssuingStageMoves DEF IssuingStages
<1> QED BY <1>1, <1>2, <1>3, <1>4

LEMMA IssuingPlaceMoves ==
    ASSUME Issuing!Parameters, IssuingTypes, NEW c \in Task, Issuing!PlaceOrder(c)
    PROVE  /\ call[c].stage = "order" /\ orders' = orders + 1
           /\ orders + 1 \in Issuing!Authz
           /\ \/ /\ authz' \in [Issuing!Authz -> IssuingAuthorization]
                 /\ \A a \in Issuing!Authz : a # orders + 1 => authz'[a] = authz[a]
                 /\ authz'[orders + 1].key = call[c].key
                 /\ authz'[orders + 1].status = "pending"
                 /\ IssuingBecomes(c, "publish", call[c].key, call[c].file, orders + 1)
              \/ \E a \in Issuing!Authz :
                    /\ authz[a].key = call[c].key
                    /\ authz[a].status \in {"pending", "valid"}
                    /\ authz' = authz
                    /\ IssuingBecomes(c, "publish", call[c].key, call[c].file, a)
<1>1. ASSUME NEW a \in Issuing!Authz,
             call' = [call EXCEPT ![c].stage = "publish", ![c].authz = a]
      PROVE  IssuingBecomes(c, "publish", call[c].key, call[c].file, a)
  <2> DEFINE m1 == [call EXCEPT ![c].stage = "publish"]
             m2 == [m1 EXCEPT ![c].authz = a]
  <2>1. call' = m2
    BY <1>1
  <2>2. /\ m1 \in [Task -> IssuingIssue] /\ \A d \in Task : d # c => m1[d] = call[d]
        /\ m1[c].stage = "publish" /\ m1[c].key = call[c].key /\ m1[c].file = call[c].file
    <3>1. "publish" \in IssuingStages
      BY DEF IssuingStages
    <3> QED BY <3>1, IssuingSetStage DEF IssuingTypes
  <2> HIDE DEF m1
  <2>3. a \in 0..MaxOrders
    BY DEF Issuing!Authz, Issuing!Parameters
  <2>4. /\ m2 \in [Task -> IssuingIssue] /\ \A d \in Task : d # c => m2[d] = m1[d]
        /\ m2[c].stage = m1[c].stage /\ m2[c].key = m1[c].key
        /\ m2[c].file = m1[c].file /\ m2[c].authz = a
    BY <2>2, <2>3, IssuingSetAuthz
  <2> HIDE DEF m2
  <2> QED BY <2>1, <2>2, <2>4 DEF IssuingBecomes
<1>2. call[c].stage = "order" /\ orders < MaxOrders /\ orders' = orders + 1
  BY DEF Issuing!PlaceOrder, Issuing!At
<1>3. orders + 1 \in Issuing!Authz
  BY <1>2 DEF IssuingTypes, Issuing!Authz, Issuing!Parameters
<1>4. \/ /\ authz' = [authz EXCEPT ![orders + 1] =
                        [key |-> call[c].key, status |-> "pending", asked |-> FALSE]]
         /\ call' = [call EXCEPT ![c].stage = "publish", ![c].authz = orders + 1]
      \/ \E a \in Issuing!Authz :
            /\ authz[a].key = call[c].key /\ authz[a].status \in {"pending", "valid"}
            /\ call' = [call EXCEPT ![c].stage = "publish", ![c].authz = a]
            /\ authz' = authz
  BY DEF Issuing!PlaceOrder
<1> DEFINE z == [key |-> call[c].key, status |-> "pending", asked |-> FALSE]
<1>5. z \in IssuingAuthorization /\ z.key = call[c].key /\ z.status = "pending"
  <2>1. call[c].key \in AccountKey \cup {None}
    BY DEF IssuingTypes, IssuingIssue
  <2>2. "pending" \in IssuingStatus /\ FALSE \in BOOLEAN
    BY DEF IssuingStatus
  <2>3. z \in IssuingAuthorization
    BY <2>1, <2>2, Zenon DEF IssuingAuthorization
  <2> QED BY <2>3
<1> HIDE DEF z
<1>6. authz' = [authz EXCEPT ![orders + 1] = z] =>
         /\ authz' \in [Issuing!Authz -> IssuingAuthorization]
         /\ \A a \in Issuing!Authz : a # orders + 1 => authz'[a] = authz[a]
         /\ authz'[orders + 1].key = call[c].key
         /\ authz'[orders + 1].status = "pending"
  BY <1>3, <1>5 DEF IssuingTypes
<1>7. CASE /\ authz' = [authz EXCEPT ![orders + 1] = z]
           /\ call' = [call EXCEPT ![c].stage = "publish", ![c].authz = orders + 1]
  BY <1>1, <1>2, <1>3, <1>6, <1>7
<1>8. CASE \E a \in Issuing!Authz :
             /\ authz[a].key = call[c].key /\ authz[a].status \in {"pending", "valid"}
             /\ call' = [call EXCEPT ![c].stage = "publish", ![c].authz = a]
             /\ authz' = authz
  BY <1>1, <1>2, <1>3, <1>8
<1> QED BY <1>4, <1>7, <1>8 DEF z

LEMMA IssuingFillMoves ==
    ASSUME IssuingTypes, NEW c \in Task, Issuing!FillTmp(c)
    PROVE  /\ call[c].stage = "fill" /\ UNCHANGED <<keyFile, tmp, generated>>
           /\ \/ /\ content' = [content EXCEPT ![call[c].file] = call[c].key]
                 /\ IssuingBecomes(c, "rename", call[c].key, call[c].file, call[c].authz)
                 /\ spoilt' = spoilt
              \/ /\ spoilt' /\ content' = content
                 /\ IssuingBecomes(c, "order", call[c].key, call[c].file, call[c].authz)
<1>1. "rename" \in IssuingStages /\ "order" \in IssuingStages
  BY DEF IssuingStages
<1>2. /\ Issuing!Goto(c, "rename") =>
            IssuingBecomes(c, "rename", call[c].key, call[c].file, call[c].authz)
      /\ Issuing!Goto(c, "order") =>
            IssuingBecomes(c, "order", call[c].key, call[c].file, call[c].authz)
  BY <1>1, IssuingStageMoves
<1> QED BY <1>2 DEF Issuing!FillTmp, Issuing!At

LEMMA IssuingRenameMoves ==
    ASSUME IssuingTypes, NEW c \in Task, Issuing!RenameTmp(c)
    PROVE  /\ call[c].stage = "rename" /\ UNCHANGED <<content, generated>>
           /\ IssuingBecomes(c, "order", call[c].key, call[c].file, call[c].authz)
           /\ \/ /\ keyFile' = (IF tmp = None THEN keyFile ELSE tmp) /\ tmp' = None
                 /\ spoilt' = spoilt
              \/ spoilt' /\ UNCHANGED <<keyFile, tmp>>
<1>1. "order" \in IssuingStages
  BY DEF IssuingStages
<1> QED BY <1>1, IssuingStageMoves DEF Issuing!RenameTmp, Issuing!At

\* What is not about the account key leaves the files alone.
LEMMA IssuingLaterMoves ==
    ASSUME Issuing!Parameters, IssuingTypes, NEW c \in Task
    PROVE  /\ Issuing!Publish(c) =>
                 /\ call[c].stage = "publish"
                 /\ IssuingBecomes(c, "respond", call[c].key, call[c].file, call[c].authz)
           /\ Issuing!Respond(c) =>
                 /\ call[c].stage = "respond"
                 /\ IssuingBecomes(c, "poll", call[c].key, call[c].file, call[c].authz)
           /\ Issuing!Polled(c) =>
                 /\ call[c].stage = "poll"
                 /\ IssuingBecomes(c, "finalize", call[c].key, call[c].file, call[c].authz)
           /\ Issuing!Finalize(c) =>
                 /\ call[c].stage = "finalize"
                 /\ IssuingBecomes(c, "idle", None, None, 0)
           /\ Issuing!Fail(c) =>
                 /\ call[c].stage \in {"order", "publish", "respond", "poll", "finalize"}
                 /\ IssuingBecomes(c, "idle", None, None, 0)
<1>1. {"respond", "poll", "finalize"} \subseteq IssuingStages
  BY DEF IssuingStages
<1>2. Issuing!Publish(c) => /\ call[c].stage = "publish"
                            /\ IssuingBecomes(c, "respond", call[c].key, call[c].file, call[c].authz)
  BY <1>1, IssuingStageMoves DEF Issuing!Publish, Issuing!At
<1>3. Issuing!Respond(c) => /\ call[c].stage = "respond"
                            /\ IssuingBecomes(c, "poll", call[c].key, call[c].file, call[c].authz)
  BY <1>1, IssuingStageMoves DEF Issuing!Respond, Issuing!At
<1>4. Issuing!Polled(c) => /\ call[c].stage = "poll"
                           /\ IssuingBecomes(c, "finalize", call[c].key, call[c].file, call[c].authz)
  BY <1>1, IssuingStageMoves DEF Issuing!Polled, Issuing!At
<1>5. Issuing!Finalize(c) => /\ call[c].stage = "finalize"
                             /\ IssuingBecomes(c, "idle", None, None, 0)
  BY IssuingEndMoves DEF Issuing!Finalize, Issuing!At
<1>6. Issuing!Fail(c) => /\ call[c].stage \in {"order", "publish", "respond", "poll", "finalize"}
                         /\ IssuingBecomes(c, "idle", None, None, 0)
  BY IssuingEndMoves DEF Issuing!Fail
<1> QED BY <1>2, <1>3, <1>4, <1>5, <1>6

IssuingLater(c) ==
    \/ Issuing!Publish(c) \/ Issuing!Respond(c) \/ Issuing!Polled(c)
    \/ Issuing!Finalize(c) \/ Issuing!Fail(c)

\* An authorization keeps its key, and is pending until it is decided.
LEMMA IssuingAuthzMoves ==
    ASSUME IssuingTypes, NEW a \in Issuing!Authz,
           \/ authz' = [authz EXCEPT ![a].asked = TRUE]
           \/ /\ authz[a].status = "pending"
              /\ \E s \in {"valid", "invalid"} : authz' = [authz EXCEPT ![a].status = s]
    PROVE  /\ authz' \in [Issuing!Authz -> IssuingAuthorization]
           /\ \A b \in Issuing!Authz :
                  /\ authz'[b].key = authz[b].key
                  /\ authz'[b].status = "pending" => authz[b].status = "pending"
                  /\ authz'[b].status = "none" <=> authz[b].status = "none"
<1>1. CASE authz' = [authz EXCEPT ![a].asked = TRUE]
  <2>1. TRUE \in BOOLEAN
    BY Zenon
  <2>2. authz[a] \in IssuingAuthorization
    BY DEF IssuingTypes
  <2>3. [authz[a] EXCEPT !.asked = TRUE] \in IssuingAuthorization
    BY <2>1, <2>2 DEF IssuingAuthorization
  <2>4. authz' = [authz EXCEPT ![a] = [authz[a] EXCEPT !.asked = TRUE]]
    BY <1>1 DEF IssuingTypes
  <2>5. [authz[a] EXCEPT !.asked = TRUE].key = authz[a].key
        /\ [authz[a] EXCEPT !.asked = TRUE].status = authz[a].status
    BY <2>2 DEF IssuingAuthorization
  <2> QED BY <2>3, <2>4, <2>5 DEF IssuingTypes
<1>2. CASE /\ authz[a].status = "pending"
           /\ \E s \in {"valid", "invalid"} : authz' = [authz EXCEPT ![a].status = s]
  <2>1. PICK s \in {"valid", "invalid"} : authz' = [authz EXCEPT ![a].status = s]
    BY <1>2
  <2>2. s \in IssuingStatus
    BY DEF IssuingStatus
  <2> QED BY <1>2, <2>1, <2>2 DEF IssuingTypes, IssuingAuthorization
<1> QED BY <1>1, <1>2

LEMMA IssuingRestartMoves ==
    ASSUME Issuing!Parameters, IssuingTypes, Issuing!Restart
    PROVE  /\ call' \in [Task -> IssuingIssue] /\ \A c \in Task : call'[c].stage = "idle"
           /\ tokens' \in [Issuing!Authz -> AccountKey \cup {None}] /\ \A a \in Issuing!Authz : tokens'[a] = None
<1>1. Issuing!Idle \in IssuingIssue /\ Issuing!Idle.stage = "idle"
  <2>1. 0 \in 0..MaxOrders
    BY DEF Issuing!Parameters
  <2>2. Issuing!Idle \in IssuingIssue
    BY <2>1 DEF Issuing!Idle, IssuingIssue, IssuingStages
  <2> QED BY <2>2 DEF Issuing!Idle
<1> QED BY <1>1 DEF Issuing!Restart

LEMMA IssuingTypesStep ==
    ASSUME Issuing!Parameters
    PROVE  IssuingTypes /\ IssuingCallInv /\ [Issuing!Next]_(Issuing!vars)
           => IssuingTypes'
<1> SUFFICES ASSUME IssuingTypes, IssuingCallInv, [Issuing!Next]_(Issuing!vars)
             PROVE  IssuingTypes'
  OBVIOUS
<1> USE DEF IssuingTypes
<1>1. ASSUME NEW c \in Task, Issuing!LoadKey(c) PROVE IssuingTypes'
  <2>1. generated' \subseteq AccountKey /\ call' \in [Task -> IssuingIssue]
    BY <1>1, IssuingLoadMoves DEF IssuingBecomes
  <2> QED BY <1>1, <2>1 DEF Issuing!LoadKey, Issuing!caVars
<1>2. ASSUME NEW c \in Task, Issuing!OpenTmp(c) PROVE IssuingTypes'
  <2>1. /\ call' \in [Task -> IssuingIssue] /\ tmp' \in AccountKey \cup {None}
        /\ content' \in [AccountKey -> AccountKey \cup {None}]
    BY <1>2, IssuingOpenMoves DEF IssuingBecomes
  <2>2. spoilt' \in BOOLEAN
    BY <1>2, Zenon DEF Issuing!OpenTmp
  <2> QED BY <1>2, <2>1, <2>2 DEF Issuing!OpenTmp, Issuing!caVars
<1>3. ASSUME NEW c \in Task, Issuing!FillTmp(c) PROVE IssuingTypes'
  <2>1. /\ call' \in [Task -> IssuingIssue] /\ tmp' \in AccountKey \cup {None}
        /\ content' \in [AccountKey -> AccountKey \cup {None}]
    BY <1>3, IssuingFillMoves DEF IssuingBecomes, IssuingCallInv
  <2>2. spoilt' \in BOOLEAN
    BY <1>3, Zenon DEF Issuing!FillTmp
  <2> QED BY <1>3, <2>1, <2>2 DEF Issuing!FillTmp, Issuing!caVars
<1>4. ASSUME NEW c \in Task, Issuing!RenameTmp(c) PROVE IssuingTypes'
  <2>1. /\ call' \in [Task -> IssuingIssue] /\ tmp' \in AccountKey \cup {None}
        /\ keyFile' \in AccountKey \cup {None}
    BY <1>4, IssuingRenameMoves DEF IssuingBecomes
  <2>2. spoilt' \in BOOLEAN
    BY <1>4, Zenon DEF Issuing!RenameTmp
  <2> QED BY <1>4, <2>1, <2>2 DEF Issuing!RenameTmp, Issuing!caVars
<1>5. ASSUME NEW c \in Task, Issuing!PlaceOrder(c) PROVE IssuingTypes'
  <2>1. call' \in [Task -> IssuingIssue]
         /\ authz' \in [Issuing!Authz -> IssuingAuthorization]
        /\ orders' \in 0..MaxOrders
    BY <1>5, IssuingPlaceMoves DEF IssuingBecomes, Issuing!Authz, Issuing!Parameters
  <2> QED BY <1>5, <2>1 DEF Issuing!PlaceOrder, Issuing!keyVars
<1>6. ASSUME NEW c \in Task, IssuingLater(c) PROVE IssuingTypes'
  <2>1. call' \in [Task -> IssuingIssue]
    BY <1>6, IssuingLaterMoves DEF IssuingLater, IssuingBecomes
  <2>2. CASE Issuing!Publish(c)
    <3>1. call[c].key \in AccountKey \cup {None}
      BY DEF IssuingIssue
    <3>2. tokens' \in [Issuing!Authz -> AccountKey \cup {None}]
      BY <2>2, <3>1 DEF Issuing!Publish
    <3> QED BY <2>1, <2>2, <3>2 DEF Issuing!Publish, Issuing!keyVars, Issuing!caVars
  <2>3. CASE Issuing!Respond(c)
    <3>1. call[c].authz \in Issuing!Authz
      BY <2>3 DEF Issuing!Respond, Issuing!At, IssuingCallInv
    <3>2. authz' \in [Issuing!Authz -> IssuingAuthorization]
      BY <2>3, <3>1, IssuingAuthzMoves DEF Issuing!Respond
    <3> QED BY <2>1, <2>3, <3>2 DEF Issuing!Respond, Issuing!keyVars
  <2>4. CASE Issuing!Polled(c)
    <3>1. tokens' \in [Issuing!Authz -> AccountKey \cup {None}]
      BY <2>4 DEF Issuing!Polled
    <3> QED BY <2>1, <2>4, <3>1 DEF Issuing!Polled, Issuing!keyVars, Issuing!caVars
  <2>5. CASE Issuing!Finalize(c)
    BY <2>1, <2>5 DEF Issuing!Finalize, Issuing!keyVars, Issuing!caVars
  <2>6. CASE Issuing!Fail(c)
    <3>1. call[c].stage \in {"respond", "poll"} => call[c].authz \in Issuing!Authz
      BY DEF IssuingCallInv
    <3>2. leftover' \subseteq Issuing!Authz
      BY <2>6, <3>1 DEF Issuing!Fail
    <3> QED BY <2>1, <2>6, <3>2 DEF Issuing!Fail, Issuing!keyVars, Issuing!caVars
  <2> QED BY <1>6, <2>2, <2>3, <2>4, <2>5, <2>6 DEF IssuingLater
<1>7. ASSUME NEW a \in Issuing!Authz, Issuing!Validate(a) PROVE IssuingTypes'
  <2>1. authz' \in [Issuing!Authz -> IssuingAuthorization]
    <3>1. authz[a].status = "pending"
          /\ \E s \in {"valid", "invalid"} : authz' = [authz EXCEPT ![a].status = s]
      BY <1>7 DEF Issuing!Validate
    <3> QED BY <3>1, IssuingAuthzMoves
  <2> QED BY <1>7, <2>1 DEF Issuing!Validate, Issuing!keyVars
<1>8. CASE Issuing!Restart
  <2>1. /\ call' \in [Task -> IssuingIssue]
        /\ tokens' \in [Issuing!Authz -> AccountKey \cup {None}]
    BY <1>8, IssuingRestartMoves
  <2>2. spoilt' \in BOOLEAN
    BY <1>8, Zenon DEF Issuing!Restart
  <2>3. restarts' \in 0..MaxRestarts
    BY <1>8 DEF Issuing!Restart, Issuing!Parameters
  <2> QED BY <1>8, <2>1, <2>2, <2>3 DEF Issuing!Restart, Issuing!caVars
<1>9. CASE UNCHANGED Issuing!vars
  BY <1>9 DEF Issuing!vars, Issuing!keyVars, Issuing!caVars
<1> QED BY <1>1, <1>2, <1>3, <1>4, <1>5, <1>6, <1>7, <1>8, <1>9
        DEF Issuing!Next, Issuing!Exchange, IssuingLater

LEMMA IssuingCallStep ==
    ASSUME Issuing!Parameters
    PROVE  IssuingTypes /\ IssuingCallInv /\ IssuingAuthzInv /\ IssuingNameInv /\ [Issuing!Next]_(Issuing!vars) => IssuingCallInv'
<1> SUFFICES ASSUME IssuingTypes, IssuingCallInv, IssuingAuthzInv, IssuingNameInv,
                    [Issuing!Next]_(Issuing!vars)
             PROVE  IssuingCallInv'
  OBVIOUS
<1>0. None \notin AccountKey /\ generated \subseteq AccountKey
  BY DEF Issuing!Parameters, IssuingTypes
<1>1. ASSUME NEW c \in Task, Issuing!LoadKey(c) PROVE IssuingCallInv'
  <2>1. authz' = authz /\ generated \subseteq generated'
    BY <1>1, IssuingLoadMoves DEF Issuing!LoadKey, Issuing!caVars
  <2>2. /\ \A d \in Task : d # c => call'[d] = call[d]
        /\ call'[c].stage \in {"order", "open"} /\ call'[c].key \in generated'
    BY <1>0, <1>1, IssuingLoadMoves DEF IssuingBecomes, IssuingNameInv, IssuingTypes
  <2> QED BY <2>1, <2>2 DEF IssuingCallInv
<1>2. ASSUME NEW c \in Task, Issuing!OpenTmp(c) PROVE IssuingCallInv'
  <2>1. authz' = authz /\ generated' = generated
    BY <1>2 DEF Issuing!OpenTmp, Issuing!caVars
  <2>2. /\ \A d \in Task : d # c => call'[d] = call[d]
        /\ call[c].stage = "open" /\ call'[c].key = call[c].key
        /\ \/ call'[c].stage = "fill" /\ call'[c].file \in AccountKey
           \/ call'[c].stage = "order"
    BY <1>2, IssuingOpenMoves DEF IssuingBecomes
  <2> QED BY <2>1, <2>2 DEF IssuingCallInv
<1>3. ASSUME NEW c \in Task, Issuing!FillTmp(c) \/ Issuing!RenameTmp(c)
      PROVE  IssuingCallInv'
  <2>1. authz' = authz /\ generated' = generated
    BY <1>3 DEF Issuing!FillTmp, Issuing!RenameTmp, Issuing!caVars
  <2>2. /\ \A d \in Task : d # c => call'[d] = call[d]
        /\ call[c].stage \in {"fill", "rename"} /\ call'[c].key = call[c].key
        /\ call'[c].stage \in {"rename", "order"}
    BY <1>3, IssuingFillMoves, IssuingRenameMoves DEF IssuingBecomes
  <2> QED BY <2>1, <2>2 DEF IssuingCallInv
<1>4. ASSUME NEW c \in Task, Issuing!PlaceOrder(c) PROVE IssuingCallInv'
  <2>1. generated' = generated
    BY <1>4 DEF Issuing!PlaceOrder, Issuing!keyVars
  <2>2. call[c].stage = "order" /\ orders + 1 \in Issuing!Authz
    BY <1>4, IssuingPlaceMoves
  <2>3. authz[orders + 1].status = "none"
    BY <2>2 DEF IssuingAuthzInv, IssuingTypes, Issuing!Parameters
  <2>4. /\ \A d \in Task : d # c => call'[d] = call[d]
        /\ call'[c].stage = "publish" /\ call'[c].key = call[c].key
        /\ call'[c].authz \in Issuing!Authz /\ authz'[call'[c].authz].status # "none"
        /\ authz'[call'[c].authz].key = call[c].key
        /\ \A a \in Issuing!Authz : a # orders + 1 => authz'[a] = authz[a]
    BY <1>4, <2>2, IssuingPlaceMoves DEF IssuingBecomes
  <2> QED BY <2>1, <2>2, <2>3, <2>4 DEF IssuingCallInv
<1>5. ASSUME NEW c \in Task, IssuingLater(c), ~Issuing!Respond(c) PROVE IssuingCallInv'
  <2>1. authz' = authz /\ generated' = generated
    BY <1>5 DEF IssuingLater, Issuing!Publish, Issuing!Polled, Issuing!Finalize,
       Issuing!Fail, Issuing!keyVars, Issuing!caVars
  <2>2. /\ \A d \in Task : d # c => call'[d] = call[d]
        /\ \/ /\ call[c].stage \in {"publish", "poll"}
              /\ call'[c].stage \in {"respond", "finalize"}
              /\ call'[c].key = call[c].key /\ call'[c].authz = call[c].authz
           \/ call'[c].stage = "idle"
    BY <1>5, IssuingLaterMoves DEF IssuingLater, IssuingBecomes
  <2> QED BY <2>1, <2>2 DEF IssuingCallInv
<1>6. ASSUME NEW a \in Issuing!Authz, call' = call, generated' = generated,
             \A b \in Issuing!Authz :
                 /\ authz'[b].key = authz[b].key
                 /\ authz'[b].status = "none" <=> authz[b].status = "none"
      PROVE  IssuingCallInv'
  BY <1>6 DEF IssuingCallInv
<1>7. ASSUME NEW c \in Task, Issuing!Respond(c) PROVE IssuingCallInv'
  <2>1. /\ \A d \in Task : d # c => call'[d] = call[d]
        /\ call[c].stage = "respond" /\ call'[c].stage = "poll"
        /\ call'[c].key = call[c].key /\ call'[c].authz = call[c].authz
    BY <1>7, IssuingLaterMoves DEF IssuingBecomes
  <2>2. call[c].authz \in Issuing!Authz /\ generated' = generated
    BY <1>7, <2>1 DEF IssuingCallInv, Issuing!Respond, Issuing!keyVars
  <2>3. \A b \in Issuing!Authz :
            /\ authz'[b].key = authz[b].key
            /\ authz'[b].status = "none" <=> authz[b].status = "none"
    BY <1>7, <2>2, IssuingAuthzMoves DEF Issuing!Respond
  <2> QED BY <2>1, <2>2, <2>3 DEF IssuingCallInv
<1>8. ASSUME NEW a \in Issuing!Authz, Issuing!Validate(a) PROVE IssuingCallInv'
  <2>1. authz[a].status = "pending"
        /\ \E s \in {"valid", "invalid"} : authz' = [authz EXCEPT ![a].status = s]
    BY <1>8 DEF Issuing!Validate
  <2>2. \A b \in Issuing!Authz :
            /\ authz'[b].key = authz[b].key
            /\ authz'[b].status = "none" <=> authz[b].status = "none"
    BY <2>1, IssuingAuthzMoves
  <2> QED BY <1>6, <1>8, <2>2 DEF Issuing!Validate, Issuing!keyVars
<1>9. CASE Issuing!Restart
  <2>1. \A c \in Task : call'[c].stage = "idle"
    BY <1>9, IssuingRestartMoves
  <2> QED BY <2>1 DEF IssuingCallInv
<1>10. CASE UNCHANGED Issuing!vars
  BY <1>10 DEF Issuing!vars, Issuing!keyVars, Issuing!caVars, IssuingCallInv
<1> QED BY <1>1, <1>2, <1>3, <1>4, <1>5, <1>7, <1>8, <1>9, <1>10
        DEF Issuing!Next, Issuing!Exchange, IssuingLater

LEMMA IssuingAuthzStep ==
    ASSUME Issuing!Parameters
    PROVE  IssuingTypes /\ IssuingCallInv /\ IssuingAuthzInv /\ [Issuing!Next]_(Issuing!vars) => IssuingAuthzInv'
<1> SUFFICES ASSUME IssuingTypes, IssuingCallInv, IssuingAuthzInv,
                    [Issuing!Next]_(Issuing!vars)
             PROVE  IssuingAuthzInv'
  OBVIOUS
<1>1. CASE UNCHANGED Issuing!caVars
  BY <1>1 DEF Issuing!caVars, IssuingAuthzInv
<1>2. ASSUME NEW c \in Task, Issuing!PlaceOrder(c) PROVE IssuingAuthzInv'
  <2>1. /\ orders' = orders + 1 /\ orders \in Nat
        /\ \A a \in Issuing!Authz : a # orders + 1 => authz'[a] = authz[a]
    BY <1>2, IssuingPlaceMoves DEF IssuingTypes, Issuing!Parameters
  <2>2. \A a \in Issuing!Authz : a \in Nat
    BY DEF Issuing!Authz, Issuing!Parameters
  <2> QED BY <2>1, <2>2 DEF IssuingAuthzInv
<1>3. ASSUME orders' = orders,
             \A b \in Issuing!Authz : authz'[b].status = "none" <=> authz[b].status = "none"
      PROVE  IssuingAuthzInv'
  BY <1>3 DEF IssuingAuthzInv
<1>4. ASSUME NEW c \in Task, Issuing!Respond(c) PROVE IssuingAuthzInv'
  <2>1. call[c].authz \in Issuing!Authz /\ orders' = orders
    BY <1>4 DEF IssuingCallInv, Issuing!Respond, Issuing!At
  <2>2. \A b \in Issuing!Authz : authz'[b].status = "none" <=> authz[b].status = "none"
    BY <1>4, <2>1, IssuingAuthzMoves DEF Issuing!Respond
  <2> QED BY <1>3, <2>1, <2>2
<1>5. ASSUME NEW a \in Issuing!Authz, Issuing!Validate(a) PROVE IssuingAuthzInv'
  <2>1. authz[a].status = "pending" /\ orders' = orders
        /\ \E s \in {"valid", "invalid"} : authz' = [authz EXCEPT ![a].status = s]
    BY <1>5 DEF Issuing!Validate
  <2> QED BY <1>3, <2>1, IssuingAuthzMoves
<1>6. ASSUME NEW c \in Task, Issuing!Exchange(c), ~Issuing!PlaceOrder(c),
             ~Issuing!Respond(c)
      PROVE  UNCHANGED Issuing!caVars
  BY <1>6 DEF Issuing!Exchange, Issuing!LoadKey, Issuing!OpenTmp, Issuing!FillTmp,
     Issuing!RenameTmp, Issuing!Publish, Issuing!Polled, Issuing!Finalize, Issuing!Fail
<1>7. Issuing!Restart \/ UNCHANGED Issuing!vars => UNCHANGED Issuing!caVars
  BY DEF Issuing!Restart, Issuing!vars
<1> QED BY <1>1, <1>2, <1>4, <1>5, <1>6, <1>7 DEF Issuing!Next

\* Where no call has begun to write or to use a token, none has to be there.
LEMMA IssuingTokenStep ==
    ASSUME Issuing!Parameters
    PROVE  IssuingTypes /\ IssuingCallInv /\ IssuingAuthzInv /\ IssuingTokenInv /\ [Issuing!Next]_(Issuing!vars) => IssuingTokenInv'
<1> SUFFICES ASSUME IssuingTypes, IssuingCallInv, IssuingAuthzInv, IssuingTokenInv,
                    [Issuing!Next]_(Issuing!vars)
             PROVE  IssuingTokenInv'
  OBVIOUS
<1>0. \A c \in Task : call[c].stage \in {"publish", "respond", "poll", "finalize"} =>
             /\ call[c].authz \in Issuing!Authz /\ authz[call[c].authz].status # "none"
             /\ authz[call[c].authz].key = call[c].key
  BY DEF IssuingCallInv
\* A caller that neither has a token nor gets one.
<1>1. ASSUME NEW c \in Task, UNCHANGED <<tokens, leftover>>,
             \A a \in Issuing!Authz : authz'[a].status = "pending" =>
                authz[a].status = "pending" \/ a > orders,
             \A d \in Task : d # c => call'[d] = call[d],
             call[c].stage \notin {"respond", "poll"}, call'[c].stage \notin {"respond", "poll"}
      PROVE  IssuingTokenInv'
  <2>1. \A d \in Task : d # c /\ call[d].stage \in {"respond", "poll"} =>
            call[d].authz \in Issuing!Authz /\ ~(call[d].authz > orders)
    BY <1>0 DEF IssuingAuthzInv, IssuingTypes, Issuing!Authz, Issuing!Parameters
  <2> QED BY <1>1, <2>1 DEF IssuingTokenInv
<1>2. ASSUME NEW c \in Task,
             Issuing!LoadKey(c) \/ Issuing!OpenTmp(c) \/ Issuing!FillTmp(c) \/ Issuing!RenameTmp(c)
      PROVE  IssuingTokenInv'
  <2>1. UNCHANGED <<tokens, leftover, authz>>
    BY <1>2 DEF Issuing!LoadKey, Issuing!OpenTmp, Issuing!FillTmp, Issuing!RenameTmp,
       Issuing!caVars
  <2>2. /\ \A d \in Task : d # c => call'[d] = call[d]
        /\ call[c].stage \notin {"respond", "poll"}
        /\ call'[c].stage \notin {"respond", "poll"}
    BY <1>2, IssuingLoadMoves, IssuingOpenMoves, IssuingFillMoves, IssuingRenameMoves
       DEF IssuingBecomes
  <2> QED BY <1>1, <2>1, <2>2
<1>3. ASSUME NEW c \in Task, Issuing!PlaceOrder(c) PROVE IssuingTokenInv'
  <2>1. UNCHANGED <<tokens, leftover>>
    BY <1>3 DEF Issuing!PlaceOrder
  <2>2. /\ \A d \in Task : d # c => call'[d] = call[d]
        /\ call[c].stage \notin {"respond", "poll"}
        /\ call'[c].stage \notin {"respond", "poll"}
        /\ \A a \in Issuing!Authz : a # orders + 1 => authz'[a] = authz[a]
    BY <1>3, IssuingPlaceMoves DEF IssuingBecomes
  <2>3. orders \in Nat /\ orders + 1 > orders
    BY DEF IssuingTypes, Issuing!Parameters
  <2> QED BY <1>1, <2>1, <2>2, <2>3
<1>4. ASSUME NEW c \in Task, Issuing!Publish(c) PROVE IssuingTokenInv'
  <2> DEFINE b == call[c].authz
  <2>1. /\ \A d \in Task : d # c => call'[d] = call[d]
        /\ call[c].stage = "publish" /\ call'[c].stage = "respond"
        /\ call'[c].key = call[c].key /\ call'[c].authz = b
    BY <1>4, IssuingLaterMoves DEF IssuingBecomes
  <2>2. /\ b \in Issuing!Authz /\ authz[b].key = call[c].key
        /\ tokens' = [tokens EXCEPT ![b] = call[c].key] /\ UNCHANGED <<authz, leftover>>
    BY <1>0, <1>4, <2>1 DEF Issuing!Publish, Issuing!caVars
  <2>3. tokens'[b] = call[c].key /\ \A a \in Issuing!Authz : a # b => tokens'[a] = tokens[a]
    BY <2>2 DEF IssuingTypes
  <2> HIDE DEF b
  <2>4. ASSUME NEW d \in Task, call'[d].stage \in {"respond", "poll"},
               authz'[call'[d].authz].status = "pending"
        PROVE  tokens'[call'[d].authz] = call'[d].key
    <3>1. CASE d = c
      BY <2>1, <2>3, <3>1
    <3>2. CASE d # c
      <4>1. call'[d] = call[d] /\ call[d].authz \in Issuing!Authz
            /\ authz[call[d].authz].key = call[d].key
        BY <1>0, <2>1, <2>4, <3>2
      <4>2. tokens[call[d].authz] = call[d].key
        BY <2>2, <2>4, <4>1 DEF IssuingTokenInv
      <4>3. CASE call[d].authz = b
        BY <2>2, <2>3, <4>1, <4>3
      <4>4. CASE call[d].authz # b
        BY <2>3, <4>1, <4>2, <4>4
      <4> QED BY <4>3, <4>4
    <3> QED BY <3>1, <3>2
  <2>5. ASSUME NEW a \in Issuing!Authz, tokens'[a] # None
        PROVE  \/ a \in leftover'
               \/ \E d \in Task : call'[d].authz = a /\ call'[d].stage \in {"respond", "poll"}
    BY <2>1, <2>2, <2>3, <2>5 DEF IssuingTokenInv
  <2> QED BY <2>4, <2>5 DEF IssuingTokenInv
<1>5. ASSUME NEW c \in Task, Issuing!Respond(c) PROVE IssuingTokenInv'
  <2>1. /\ \A d \in Task : d # c => call'[d] = call[d]
        /\ call[c].stage = "respond" /\ call'[c].stage = "poll"
        /\ call'[c].key = call[c].key /\ call'[c].authz = call[c].authz
    BY <1>5, IssuingLaterMoves DEF IssuingBecomes
  <2>2. call[c].authz \in Issuing!Authz /\ UNCHANGED <<tokens, leftover>>
    BY <1>0, <1>5, <2>1 DEF Issuing!Respond
  <2>3. \A b \in Issuing!Authz : authz'[b].status = "pending" => authz[b].status = "pending"
    BY <1>5, <2>2, IssuingAuthzMoves DEF Issuing!Respond
  <2> QED BY <1>0, <2>1, <2>2, <2>3 DEF IssuingTokenInv
<1>6. ASSUME NEW c \in Task, Issuing!Polled(c) PROVE IssuingTokenInv'
  <2> DEFINE b == call[c].authz
  <2>1. /\ \A d \in Task : d # c => call'[d] = call[d]
        /\ call[c].stage = "poll" /\ call'[c].stage = "finalize"
    BY <1>6, IssuingLaterMoves DEF IssuingBecomes
  <2>2. /\ b \in Issuing!Authz /\ authz[b].status = "valid"
        /\ tokens' = [tokens EXCEPT ![b] = None] /\ UNCHANGED <<authz, leftover>>
    BY <1>0, <1>6, <2>1 DEF Issuing!Polled, Issuing!caVars
  <2>3. tokens'[b] = None /\ \A a \in Issuing!Authz : a # b => tokens'[a] = tokens[a]
    BY <2>2 DEF IssuingTypes
  <2> QED BY <1>0, <2>1, <2>2, <2>3 DEF IssuingTokenInv
<1>7. ASSUME NEW c \in Task, Issuing!Finalize(c) PROVE IssuingTokenInv'
  <2>1. UNCHANGED <<tokens, leftover, authz>>
    BY <1>7 DEF Issuing!Finalize, Issuing!caVars
  <2>2. /\ \A d \in Task : d # c => call'[d] = call[d]
        /\ call[c].stage \notin {"respond", "poll"}
        /\ call'[c].stage \notin {"respond", "poll"}
    BY <1>7, IssuingLaterMoves DEF IssuingBecomes
  <2> QED BY <1>1, <2>1, <2>2
<1>8. ASSUME NEW c \in Task, Issuing!Fail(c) PROVE IssuingTokenInv'
  <2>1. UNCHANGED <<tokens, authz>>
        /\ leftover' = IF call[c].stage \in {"respond", "poll"}
                       THEN leftover \cup {call[c].authz} ELSE leftover
    BY <1>8 DEF Issuing!Fail, Issuing!caVars
  <2>2. /\ \A d \in Task : d # c => call'[d] = call[d]
        /\ call'[c].stage = "idle"
    BY <1>8, IssuingLaterMoves DEF IssuingBecomes
  <2> QED BY <2>1, <2>2 DEF IssuingTokenInv
<1>9. ASSUME NEW a \in Issuing!Authz, Issuing!Validate(a) PROVE IssuingTokenInv'
  <2>1. authz[a].status = "pending" /\ UNCHANGED <<call, tokens, leftover>>
        /\ \E s \in {"valid", "invalid"} : authz' = [authz EXCEPT ![a].status = s]
    BY <1>9 DEF Issuing!Validate
  <2>2. \A b \in Issuing!Authz : authz'[b].status = "pending" => authz[b].status = "pending"
    BY <2>1, IssuingAuthzMoves
  <2> QED BY <1>0, <2>1, <2>2 DEF IssuingTokenInv
<1>10. CASE Issuing!Restart
  <2>1. /\ \A c \in Task : call'[c].stage = "idle"
        /\ \A a \in Issuing!Authz : tokens'[a] = None
    BY <1>10, IssuingRestartMoves
  <2> QED BY <2>1 DEF IssuingTokenInv
<1>11. CASE UNCHANGED Issuing!vars
  BY <1>11 DEF Issuing!vars, Issuing!caVars, IssuingTokenInv
<1> QED BY <1>2, <1>3, <1>4, <1>5, <1>6, <1>7, <1>8, <1>9, <1>10, <1>11
        DEF Issuing!Next, Issuing!Exchange

\* A new name is a new key's; the temporary file becomes the key file.
LEMMA IssuingNameStep ==
    ASSUME Issuing!Parameters
    PROVE  IssuingTypes /\ IssuingCallInv /\ IssuingNameInv /\ [Issuing!Next]_(Issuing!vars) => IssuingNameInv'
<1> SUFFICES ASSUME IssuingTypes, IssuingCallInv, IssuingNameInv,
                    [Issuing!Next]_(Issuing!vars)
             PROVE  IssuingNameInv'
  OBVIOUS
<1>0. /\ None \notin AccountKey /\ generated \subseteq AccountKey
      /\ \A c \in Task : call[c].stage # "idle" => call[c].key \in generated
  BY DEF Issuing!Parameters, IssuingTypes, IssuingCallInv
<1>1. ASSUME UNCHANGED <<content, keyFile, tmp, generated>>,
             \A c \in Task : call'[c].stage = "open" => call'[c] = call[c]
      PROVE  IssuingNameInv'
  BY <1>1 DEF IssuingNameInv
<1>2. ASSUME NEW c \in Task, Issuing!LoadKey(c) PROVE IssuingNameInv'
  <2>1. UNCHANGED <<content, keyFile, tmp>>
    BY <1>2 DEF Issuing!LoadKey
  <2>2. CASE \E a, f : IssuingBecomes(c, "order", content[keyFile], f, a) /\ generated' = generated
    <3>1. \A d \in Task : call'[d].stage = "open" => call'[d] = call[d]
      BY <2>2 DEF IssuingBecomes
    <3> QED BY <1>1, <2>1, <2>2, <3>1
  <2>3. CASE \E k \in AccountKey \ generated :
               generated' = generated \cup {k} /\ \E a, f : IssuingBecomes(c, "open", k, f, a)
    <3>1. PICK k \in AccountKey \ generated :
             /\ generated' = generated \cup {k}
             /\ \A d \in Task : d # c => call'[d] = call[d]
             /\ call'[c].stage = "open" /\ call'[c].key = k
      BY <2>3 DEF IssuingBecomes
    <3>2. k # tmp /\ k # keyFile
      BY <1>0, <3>1 DEF IssuingNameInv
    <3>3. \A d \in Task : d # c /\ call'[d].stage = "open" => call'[d].key # k
      BY <1>0, <3>1
    <3> QED BY <2>1, <3>1, <3>2, <3>3 DEF IssuingNameInv
  <2> QED BY <1>2, <2>2, <2>3, IssuingLoadMoves
<1>3. ASSUME NEW c \in Task, Issuing!OpenTmp(c) PROVE IssuingNameInv'
  <2>1. UNCHANGED <<keyFile, generated>> /\ call[c].stage = "open"
        /\ call[c].key \in generated
    BY <1>0, <1>3 DEF Issuing!OpenTmp, Issuing!At
  <2>2. CASE UNCHANGED <<tmp, content>> /\ \E a, f, k : IssuingBecomes(c, "order", k, f, a)
    <3>1. \A d \in Task : call'[d].stage = "open" => call'[d] = call[d]
      BY <2>2 DEF IssuingBecomes
    <3> QED BY <1>1, <2>1, <2>2, <3>1
  <2>3. CASE /\ IssuingTemporary(c) \in AccountKey /\ tmp' = IssuingTemporary(c)
             /\ content' = [content EXCEPT ![IssuingTemporary(c)] = None]
             /\ \E a, f, k : IssuingBecomes(c, "fill", k, f, a)
    <3>1. /\ \A d \in Task : d # c => call'[d] = call[d]
          /\ call'[c].stage = "fill"
      BY <2>3 DEF IssuingBecomes
    <3>2. /\ tmp' \in generated /\ tmp' # keyFile
          /\ \A d \in Task : d # c /\ call[d].stage = "open" => call[d].key # tmp'
      BY <1>0, <2>1, <2>3 DEF IssuingNameInv, IssuingTemporary
    <3>3. \A k \in AccountKey : content'[k] \in {content[k], None}
      BY <2>3 DEF IssuingTypes
    <3> QED BY <2>1, <3>1, <3>2, <3>3 DEF IssuingNameInv
  <2> QED BY <1>3, <2>2, <2>3, IssuingOpenMoves
<1>4. ASSUME NEW c \in Task, Issuing!FillTmp(c) PROVE IssuingNameInv'
  <2>1. /\ UNCHANGED <<keyFile, tmp, generated>> /\ call[c].stage = "fill"
        /\ \A d \in Task : d # c => call'[d] = call[d]
        /\ call'[c].stage \in {"rename", "order"}
        /\ content' \in {content, [content EXCEPT ![call[c].file] = call[c].key]}
    BY <1>4, IssuingFillMoves DEF IssuingBecomes
  <2>2. call[c].key \in generated
    BY <1>0, <2>1
  <2>3. \A k \in AccountKey : content'[k] \in {content[k], call[c].key}
    BY <2>1 DEF IssuingTypes
  <2>4. \A k \in AccountKey : content'[k] \in generated \cup {None}
    BY <2>2, <2>3 DEF IssuingNameInv
  <2> QED BY <2>1, <2>4 DEF IssuingNameInv
<1>5. ASSUME NEW c \in Task, Issuing!RenameTmp(c) PROVE IssuingNameInv'
  <2>1. /\ UNCHANGED <<content, generated>>
        /\ \A d \in Task : d # c => call'[d] = call[d]
        /\ call'[c].stage = "order"
        /\ \/ keyFile' = (IF tmp = None THEN keyFile ELSE tmp) /\ tmp' = None
           \/ UNCHANGED <<keyFile, tmp>>
    BY <1>5, IssuingRenameMoves DEF IssuingBecomes
  <2>2. \A k \in generated : k # None
    BY <1>0
  <2> QED BY <1>0, <2>1, <2>2 DEF IssuingNameInv
<1>6. ASSUME NEW c \in Task, Issuing!PlaceOrder(c) \/ IssuingLater(c)
      PROVE  IssuingNameInv'
  <2>1. UNCHANGED <<content, keyFile, tmp, generated>>
    BY <1>6 DEF Issuing!PlaceOrder, IssuingLater, Issuing!Publish, Issuing!Respond,
       Issuing!Polled, Issuing!Finalize, Issuing!Fail, Issuing!keyVars
  <2>2. \A d \in Task : d # c => call'[d] = call[d]
    BY <1>6, IssuingPlaceMoves, IssuingLaterMoves DEF IssuingLater, IssuingBecomes
  <2>3. call'[c].stage # "open"
    BY <1>6, IssuingPlaceMoves, IssuingLaterMoves DEF IssuingLater, IssuingBecomes
  <2> QED BY <1>1, <2>1, <2>2, <2>3
<1>7. CASE Issuing!Restart
  <2>1. \A c \in Task : call'[c].stage = "idle"
    BY <1>7, IssuingRestartMoves
  <2> QED BY <1>1, <1>7, <2>1 DEF Issuing!Restart
<1>8. ASSUME UNCHANGED <<Issuing!keyVars, call>> PROVE IssuingNameInv'
  BY <1>1, <1>8 DEF Issuing!keyVars
<1>9. (\E a \in Issuing!Authz : Issuing!Validate(a)) \/ UNCHANGED Issuing!vars
         => UNCHANGED <<Issuing!keyVars, call>>
  BY DEF Issuing!Validate, Issuing!vars
<1> QED BY <1>2, <1>3, <1>4, <1>5, <1>6, <1>7, <1>8, <1>9 DEF Issuing!Next,
           Issuing!Exchange, IssuingLater

LEMMA IssuingFileStep ==
    ASSUME Issuing!Parameters
    PROVE  IssuingTypes /\ IssuingCallInv /\ IssuingNameInv /\ IssuingFileInv /\ [Issuing!Next]_(Issuing!vars) => IssuingFileInv'
<1> SUFFICES ASSUME IssuingTypes, IssuingCallInv, IssuingNameInv, IssuingFileInv,
                    [Issuing!Next]_(Issuing!vars), ~spoilt'
             PROVE  IssuingFileInv'
  BY DEF IssuingFileInv
<1>0. /\ None \notin AccountKey /\ generated \subseteq AccountKey
      /\ \A c \in Task : call[c].stage # "idle" => call[c].key \in generated
  BY DEF Issuing!Parameters, IssuingTypes, IssuingCallInv
\* A call that neither was writing nor begins to.
<1>1. ASSUME UNCHANGED Issuing!keyVars,
             \A c \in Task : IssuingBusy(c) => call'[c] = call[c],
             \A c \in Task : ~IssuingBusy(c) => call'[c].stage \notin {"open", "fill", "rename"}
      PROVE  IssuingFileInv'
  <2>1. UNCHANGED <<content, keyFile, tmp, generated, spoilt>>
    BY <1>1 DEF Issuing!keyVars
  <2> QED BY <1>1, <2>1 DEF IssuingFileInv, IssuingBusy
<1>2. ASSUME NEW c \in Task, Issuing!LoadKey(c) PROVE IssuingFileInv'
  <2>1. UNCHANGED <<content, keyFile, tmp, spoilt>> /\ call[c].stage = "idle"
    BY <1>2 DEF Issuing!LoadKey, Issuing!At
  <2>2. /\ \A d \in Task : d # c => call'[d] = call[d]
        /\ \/ call'[c].stage = "open"
           \/ call'[c].stage = "order" /\ keyFile # None
    BY <1>2, IssuingLoadMoves DEF IssuingBecomes
  <2> QED BY <2>1, <2>2 DEF IssuingFileInv, IssuingBusy
<1>3. ASSUME NEW c \in Task, Issuing!OpenTmp(c) PROVE IssuingFileInv'
  <2>1. /\ UNCHANGED <<keyFile, generated, spoilt>> /\ call[c].stage = "open"
        /\ IssuingTemporary(c) \in AccountKey /\ tmp' = IssuingTemporary(c)
        /\ content' = [content EXCEPT ![IssuingTemporary(c)] = None]
        /\ \A d \in Task : d # c => call'[d] = call[d]
        /\ call'[c].stage = "fill" /\ call'[c].file = IssuingTemporary(c)
    BY <1>3, IssuingOpenMoves DEF Issuing!OpenTmp, IssuingBecomes
  <2>2. tmp' # keyFile
    BY <1>0, <2>1 DEF IssuingNameInv, IssuingTemporary
  <2>3. keyFile # None => content'[keyFile] = content[keyFile]
    BY <2>1, <2>2 DEF IssuingTypes
  <2>4. tmp' # None
    BY <1>0, <2>1
  <2> QED BY <2>1, <2>3, <2>4 DEF IssuingFileInv, IssuingBusy
<1>4. ASSUME NEW c \in Task, Issuing!FillTmp(c) PROVE IssuingFileInv'
  <2>1. /\ UNCHANGED <<keyFile, tmp, generated, spoilt>> /\ call[c].stage = "fill"
        /\ content' = [content EXCEPT ![call[c].file] = call[c].key]
        /\ \A d \in Task : d # c => call'[d] = call[d]
        /\ call'[c].stage = "rename"
    BY <1>4, IssuingFillMoves DEF IssuingBecomes
  <2>2. call[c].key \in AccountKey /\ call[c].key # None /\ call[c].file \in AccountKey
    BY <1>0, <2>1 DEF IssuingCallInv
  <2>3. /\ content'[call[c].file] # None
        /\ \A f \in AccountKey : f # call[c].file => content'[f] = content[f]
    BY <2>1, <2>2 DEF IssuingTypes
  <2>4. tmp \in AccountKey \cup {None} /\ keyFile \in AccountKey \cup {None}
    BY DEF IssuingTypes
  <2> QED BY <2>1, <2>3, <2>4 DEF IssuingFileInv, IssuingBusy
<1>5. ASSUME NEW c \in Task, Issuing!RenameTmp(c) PROVE IssuingFileInv'
  <2>1. /\ UNCHANGED <<content, generated, spoilt>> /\ call[c].stage = "rename"
        /\ \A d \in Task : d # c => call'[d] = call[d]
        /\ call'[c].stage = "order"
        /\ keyFile' = (IF tmp = None THEN keyFile ELSE tmp) /\ tmp' = None
    BY <1>5, IssuingRenameMoves DEF IssuingBecomes
  <2>2. keyFile' # None
    BY <2>1 DEF IssuingFileInv
  <2> QED BY <2>1, <2>2 DEF IssuingFileInv
<1>6. ASSUME NEW c \in Task, Issuing!PlaceOrder(c) \/ IssuingLater(c)
      PROVE  IssuingFileInv'
  <2>1. UNCHANGED Issuing!keyVars
    BY <1>6 DEF Issuing!PlaceOrder, IssuingLater, Issuing!Publish, Issuing!Respond,
       Issuing!Polled, Issuing!Finalize, Issuing!Fail
  <2>2. \A d \in Task : d # c => call'[d] = call[d]
    BY <1>6, IssuingPlaceMoves, IssuingLaterMoves DEF IssuingLater, IssuingBecomes
  <2>3. ~IssuingBusy(c) /\ call'[c].stage \notin {"open", "fill", "rename"}
    BY <1>6, IssuingPlaceMoves, IssuingLaterMoves DEF IssuingLater, IssuingBecomes,
       IssuingBusy
  <2> QED BY <1>1, <2>1, <2>2, <2>3 DEF IssuingBusy
<1>7. CASE Issuing!Restart
  <2>1. /\ \A c \in Task : call'[c].stage = "idle" /\ ~IssuingBusy(c)
        /\ UNCHANGED <<content, keyFile, tmp, generated>> /\ ~spoilt
    BY <1>7, IssuingRestartMoves DEF Issuing!Restart, IssuingBusy
  <2> QED BY <2>1 DEF IssuingFileInv, IssuingBusy
<1>8. CASE UNCHANGED <<Issuing!keyVars, call>>
  BY <1>1, <1>8 DEF IssuingBusy
<1>9. (\E a \in Issuing!Authz : Issuing!Validate(a)) \/ UNCHANGED Issuing!vars
         => UNCHANGED <<Issuing!keyVars, call>>
  BY DEF Issuing!Validate, Issuing!vars
<1> QED BY <1>2, <1>3, <1>4, <1>5, <1>6, <1>7, <1>8, <1>9 DEF Issuing!Next,
           Issuing!Exchange, IssuingLater

-----------------------------------------------------------------------------
LEMMA IssuingInvStep ==
    ASSUME Issuing!Parameters
    PROVE  IssuingInv /\ [Issuing!Next]_(Issuing!vars) => IssuingInv'
BY IssuingTypesStep, IssuingCallStep, IssuingAuthzStep, IssuingTokenStep, IssuingNameStep,
   IssuingFileStep DEF IssuingInv

LEMMA IssuingTypeCorrect ==
    ASSUME Issuing!Parameters
    PROVE  Issuing!Init /\ [][Issuing!Next]_(Issuing!vars) => []Issuing!TypeOK
<1>1. IssuingInv => Issuing!TypeOK
  BY DEF IssuingInv, IssuingTypes, Issuing!TypeOK, IssuingIssue, IssuingStages,
     IssuingAuthorization, IssuingStatus
<1> QED BY <1>1, IssuingInvInit, IssuingInvStep, PTL

\* The CA finds the token of a call that waits for it.
LEMMA IssuingAnswerThere ==
    ASSUME Issuing!Parameters
    PROVE  Issuing!Init /\ [][Issuing!Next]_(Issuing!vars) => []Issuing!ChallengeServed
<1>1. IssuingInv => Issuing!ChallengeServed
  BY DEF IssuingInv, IssuingTokenInv, Issuing!ChallengeServed, Issuing!At
<1> QED BY <1>1, IssuingInvInit, IssuingInvStep, PTL

LEMMA IssuingNoneForgotten ==
    ASSUME Issuing!Parameters
    PROVE  Issuing!Init /\ [][Issuing!Next]_(Issuing!vars) => []Issuing!TokensAccounted
<1>1. IssuingInv => Issuing!TokensAccounted
  BY DEF IssuingInv, IssuingTokenInv, Issuing!TokensAccounted
<1> QED BY <1>1, IssuingInvInit, IssuingInvStep, PTL

\* The calls that write the key at the same time leave a whole one.
LEMMA IssuingKeyStays ==
    ASSUME Issuing!Parameters
    PROVE  Issuing!Init /\ [][Issuing!Next]_(Issuing!vars) => []Issuing!KeyOnDisk
<1>1. IssuingInv => Issuing!KeyOnDisk
  <2> SUFFICES ASSUME IssuingInv, generated # {}, ~spoilt, \A c \in Task : ~IssuingBusy(c)
               PROVE  keyFile # None /\ content[keyFile] \in generated
    BY DEF Issuing!KeyOnDisk, IssuingBusy
  <2>1. keyFile # None
    BY DEF IssuingInv, IssuingFileInv
  <2>2. content[keyFile] # None /\ keyFile \in AccountKey
    BY <2>1 DEF IssuingInv, IssuingFileInv, IssuingBusy, IssuingTypes
  <2> QED BY <2>1, <2>2 DEF IssuingInv, IssuingNameInv
<1> QED BY <1>1, IssuingInvInit, IssuingInvStep, PTL

-----------------------------------------------------------------------------
(* DomainWatchdog: for any hosts, rounds and outages, and any threshold.   *)

WatchingFails(h) == IF health[h] = None THEN 0 ELSE health[h].failures

\* The counter of the health entry is what the checks of the host found.
WatchingCountInv ==
    /\ \A h \in Host : WatchingFails(h) = bad[h].checks
    /\ round.stage = "repair" =>
          /\ round.host \in Host /\ health[round.host] # None
          /\ bad[round.host].checks >= Threshold /\ bad[round.host].last = "tls"
          /\ round.host \in began
    /\ round.stage # "asleep" => round.todo \subseteq began

\* A host has been checked as often as it has waited, and a last time in this
\* round if the round is past it.
WatchingWaitInv ==
    /\ \A h \in Host :
          /\ waited[h] <= WatchingFails(h) /\ waited[h] < Threshold
          /\ h \in watchdogServed => waited[h] = 0
          /\ h \in lacking => h \notin watchdogServed /\ h \in began
          /\ round.stage # "asleep" /\ h \in began /\ h \notin lacking => waited[h] = 0
          /\ h \in lacking /\ h \notin round.todo =>
                waited[h] + 1 <= WatchingFails(h) /\ WatchingFails(h) < Threshold
    /\ round.stage = "asleep" => lacking = {}
    /\ round.stage = "repair" => round.host \notin lacking

WatchingInv == Watching!TypeOK /\ WatchingCountInv /\ WatchingWaitInv

LEMMA WatchingInvInit == ASSUME Watching!Parameters PROVE Watching!Init => WatchingInv
<1> SUFFICES ASSUME Watching!Init PROVE WatchingInv
  OBVIOUS
<1>1. Watching!TypeOK
  BY DEF Watching!Init, Watching!TypeOK, Watching!Parameters, Watching!Asleep,
     Watching!Unbeaten
<1>2. /\ \A h \in Host : WatchingFails(h) = 0 /\ bad[h].checks = 0 /\ waited[h] = 0
      /\ round.stage = "asleep" /\ lacking = {}
  BY DEF Watching!Init, WatchingFails, Watching!Asleep, Watching!Unbeaten
<1> QED BY <1>1, <1>2 DEF WatchingInv, WatchingCountInv, WatchingWaitInv,
           Watching!Parameters

\* What a check leaves in the entry of its host.
LEMMA WatchingRecordedIs ==
    ASSUME Watching!Parameters, Watching!TypeOK, NEW h \in Host,
           NEW how \in {"ok", "tls", "http", "content"}
    PROVE  /\ Watching!Recorded(h, how) \in Watching!Entry
           /\ Watching!Recorded(h, how).failures =
                  IF how = "ok" THEN 0 ELSE Watching!Saturated(WatchingFails(h))
           /\ WatchingFails(h) \in 0..Threshold
           /\ Watching!Saturated(WatchingFails(h)) \in 1..Threshold
<1>1. health[h] # None => health[h] \in Watching!Entry
  BY DEF Watching!TypeOK
<1>2. WatchingFails(h) \in 0..Threshold
  BY <1>1 DEF WatchingFails, Watching!Entry, Watching!Parameters
<1>3. Watching!Saturated(WatchingFails(h)) \in 1..Threshold
  BY <1>2 DEF Watching!Saturated, Watching!Parameters
<1>4. CASE how = "ok"
  BY <1>4, <1>2, <1>3 DEF Watching!Recorded, Watching!Entry, Watching!Parameters
<1>5. CASE how # "ok" /\ health[h] = None
  BY <1>5, <1>2, <1>3 DEF Watching!Recorded, Watching!Entry, WatchingFails
<1>6. CASE how # "ok" /\ health[h] # None
  <2>1. health[h] \in Watching!Entry /\ WatchingFails(h) = health[h].failures
    BY <1>1, <1>6 DEF WatchingFails
  <2>2. Watching!Recorded(h, how) = [health[h] EXCEPT !.failures = Watching!Saturated(health[h].failures)]
    BY <1>6 DEF Watching!Recorded
  <2> QED BY <1>2, <1>3, <1>6, <2>1, <2>2 DEF Watching!Entry
<1> QED BY <1>4, <1>5, <1>6

\* What a check changes.
LEMMA WatchingCheckMoves ==
    ASSUME Watching!Parameters, Watching!TypeOK, NEW h \in Host, Watching!Check(h)
    PROVE  \E how \in Watching!Outcomes(h) :
              /\ health' \in [Host -> {None} \cup Watching!Entry] /\ health'[h] # None
              /\ WatchingFails(h)' = IF how = "ok" THEN 0 ELSE Watching!Saturated(WatchingFails(h))
              /\ \A g \in Host : g # h => WatchingFails(g)' = WatchingFails(g) /\ health'[g] = health[g]
              /\ bad' \in [Host -> [checks : 0..Threshold, last : {"ok", "tls", "http", "content"}]]
              /\ bad'[h].checks = (IF how = "ok" THEN 0 ELSE Watching!Saturated(bad[h].checks))
              /\ bad'[h].last = how
              /\ \A g \in Host : g # h => bad'[g] = bad[g]
              /\ round.stage = "choose" /\ h \in round.todo
              /\ round'.todo = round.todo \ {h}
              /\ \/ /\ how = "tls" /\ WatchingFails(h)' >= Threshold
                    /\ round'.stage = "repair" /\ round'.host = h
                    /\ Watching!Attended(h)
                 \/ /\ how # "tls" \/ WatchingFails(h)' < Threshold
                    /\ round'.stage = "choose" /\ round'.host = round.host
                    /\ UNCHANGED <<lacking, waited>>
              /\ round' \in [stage : {"asleep", "choose", "repair"}, todo : SUBSET Host,
                             host : Host \cup {None}]
<1>1. PICK how \in Watching!Outcomes(h) :
          /\ health' = [health EXCEPT ![h] = Watching!Recorded(h, how)]
          /\ bad' = [bad EXCEPT ![h] = IF how = "ok" THEN Watching!Unbeaten
                           ELSE [checks |-> Watching!Saturated(bad[h].checks), last |-> how]]
          /\ IF Watching!Repairs(h, how)
             THEN /\ round' = [stage |-> "repair", todo |-> round.todo \ {h}, host |-> h]
                  /\ Watching!Attended(h)
             ELSE /\ round' = [round EXCEPT !.todo = round.todo \ {h}]
                  /\ UNCHANGED <<lacking, waited>>
  BY DEF Watching!Check
<1>2. how \in {"ok", "tls", "http", "content"}
  BY DEF Watching!Outcomes
<1>3. /\ Watching!Recorded(h, how) \in Watching!Entry
      /\ Watching!Recorded(h, how).failures =
             IF how = "ok" THEN 0 ELSE Watching!Saturated(WatchingFails(h))
      /\ Watching!Recorded(h, how) # None
  BY <1>2, WatchingRecordedIs DEF Watching!Parameters
<1>4. /\ health' \in [Host -> {None} \cup Watching!Entry]
      /\ health'[h] = Watching!Recorded(h, how)
      /\ \A g \in Host : g # h => health'[g] = health[g]
  BY <1>1, <1>3 DEF Watching!TypeOK
<1>5. /\ WatchingFails(h)' = IF how = "ok" THEN 0 ELSE Watching!Saturated(WatchingFails(h))
      /\ \A g \in Host : g # h => WatchingFails(g)' = WatchingFails(g)
  BY <1>3, <1>4 DEF WatchingFails
<1>6. /\ bad[h].checks \in 0..Threshold
      /\ Watching!Saturated(bad[h].checks) \in 0..Threshold /\ 0 \in 0..Threshold
  BY DEF Watching!TypeOK, Watching!Saturated, Watching!Parameters
<1>7. /\ bad' \in [Host -> [checks : 0..Threshold, last : {"ok", "tls", "http", "content"}]]
      /\ bad'[h].checks = (IF how = "ok" THEN 0 ELSE Watching!Saturated(bad[h].checks))
      /\ bad'[h].last = how
      /\ \A g \in Host : g # h => bad'[g] = bad[g]
  BY <1>1, <1>2, <1>6 DEF Watching!TypeOK, Watching!Unbeaten
<1>8. round.stage = "choose" /\ h \in round.todo /\ round.todo \subseteq Host
  BY DEF Watching!Check, Watching!TypeOK
<1>9. CASE Watching!Repairs(h, how)
  <2>1. /\ round' = [stage |-> "repair", todo |-> round.todo \ {h}, host |-> h]
        /\ Watching!Attended(h)
    BY <1>1, <1>9
  <2>2. how = "tls" /\ WatchingFails(h)' >= Threshold
    BY <1>3, <1>5, <1>9 DEF Watching!Repairs
  <2>3. /\ round'.stage = "repair" /\ round'.host = h /\ round'.todo = round.todo \ {h}
        /\ round' \in [stage : {"asleep", "choose", "repair"}, todo : SUBSET Host,
                       host : Host \cup {None}]
    BY <2>1, <1>8
  <2> QED BY <2>1, <2>2, <2>3, <1>4, <1>5, <1>7, <1>8, <1>3
<1>10. CASE ~Watching!Repairs(h, how)
  <2>1. round' = [round EXCEPT !.todo = round.todo \ {h}] /\ UNCHANGED <<lacking, waited>>
    BY <1>1, <1>10
  <2>2. how # "tls" \/ WatchingFails(h)' < Threshold
    BY <1>2, <1>3, <1>5, <1>10, WatchingRecordedIs DEF Watching!Repairs,
       Watching!Parameters
  <2>3. /\ round'.stage = "choose" /\ round'.host = round.host
        /\ round'.todo = round.todo \ {h}
        /\ round' \in [stage : {"asleep", "choose", "repair"}, todo : SUBSET Host,
                       host : Host \cup {None}]
    BY <2>1, <1>8 DEF Watching!TypeOK
  <2> QED BY <2>1, <2>2, <2>3, <1>4, <1>5, <1>7, <1>8, <1>3
<1> QED BY <1>9, <1>10

LEMMA WatchingRepairedMoves ==
    ASSUME Watching!Parameters, Watching!TypeOK, WatchingCountInv, Watching!Repaired
    PROVE  /\ health' \in [Host -> {None} \cup Watching!Entry]
           /\ \A g \in Host : WatchingFails(g)' = WatchingFails(g)
           /\ watchdogServed' \in {watchdogServed, watchdogServed \cup {round.host}}
           /\ round.stage = "repair" /\ round.host \in Host
           /\ round'.stage = "choose" /\ round'.todo = round.todo
           /\ round' \in [stage : {"asleep", "choose", "repair"}, todo : SUBSET Host,
                          host : Host \cup {None}]
           /\ UNCHANGED <<watchdogRegistered, expecting, Watching!history>>
<1>1. /\ round.stage = "repair" /\ round.host \in Host
      /\ health[round.host] # None /\ health[round.host] \in Watching!Entry
  BY DEF Watching!Repaired, WatchingCountInv, Watching!TypeOK
<1>2. PICK done \in BOOLEAN :
          /\ watchdogServed' = IF done THEN watchdogServed \cup {round.host} ELSE watchdogServed
          /\ health' = [health EXCEPT ![round.host].action = IF done THEN "reissued" ELSE "failed"]
  BY DEF Watching!Repaired
<1>3. /\ health'[round.host] \in Watching!Entry
      /\ health'[round.host].failures = health[round.host].failures
      /\ \A g \in Host : g # round.host => health'[g] = health[g]
      /\ health' \in [Host -> {None} \cup Watching!Entry]
  BY <1>1, <1>2 DEF Watching!TypeOK, Watching!Entry
<1>4. \A g \in Host : WatchingFails(g)' = WatchingFails(g)
  BY <1>1, <1>3 DEF WatchingFails, Watching!Parameters
<1>5. round' = [round EXCEPT !.stage = "choose", !.host = None]
  BY DEF Watching!Repaired
<1>6. /\ round'.stage = "choose" /\ round'.todo = round.todo
      /\ round' \in [stage : {"asleep", "choose", "repair"}, todo : SUBSET Host,
                     host : Host \cup {None}]
  BY <1>5 DEF Watching!TypeOK
<1> QED BY <1>1, <1>2, <1>3, <1>4, <1>6 DEF Watching!Repaired

LEMMA WatchingInvStep ==
    ASSUME Watching!Parameters
    PROVE  WatchingInv /\ [Watching!Next]_(Watching!vars) => WatchingInv'
<1> SUFFICES ASSUME WatchingInv, [Watching!Next]_(Watching!vars) PROVE WatchingInv'
  OBVIOUS
<1> USE DEF WatchingInv
<1>1. ASSUME Watching!StartRound PROVE WatchingInv'
  <2>1. /\ round.stage = "asleep" /\ round'.stage = "choose"
        /\ round'.todo = watchdogRegistered
        /\ round' = [stage |-> "choose", todo |-> watchdogRegistered, host |-> None]
        /\ began' = watchdogRegistered /\ lacking' = watchdogRegistered \ watchdogServed
        /\ UNCHANGED <<watchdogRegistered, watchdogServed, expecting, health, bad, waited>>
    BY <1>1 DEF Watching!StartRound, Watching!Begin
  <2>2. Watching!TypeOK'
    BY <2>1 DEF Watching!TypeOK
  <2>3. \A h \in Host : WatchingFails(h)' = WatchingFails(h)
    BY <2>1 DEF WatchingFails
  <2>4. WatchingCountInv'
    BY <2>1, <2>3 DEF WatchingCountInv
  <2>5. WatchingWaitInv'
    BY <2>1, <2>3 DEF WatchingWaitInv
  <2> QED BY <2>2, <2>4, <2>5
<1>2. ASSUME Watching!Repaired PROVE WatchingInv'
  <2>1. /\ health' \in [Host -> {None} \cup Watching!Entry]
        /\ \A g \in Host : WatchingFails(g)' = WatchingFails(g)
        /\ watchdogServed' \in {watchdogServed, watchdogServed \cup {round.host}}
        /\ round.stage = "repair" /\ round.host \in Host
        /\ round'.stage = "choose" /\ round'.todo = round.todo
        /\ round' \in [stage : {"asleep", "choose", "repair"}, todo : SUBSET Host,
                       host : Host \cup {None}]
        /\ UNCHANGED <<watchdogRegistered, expecting, began, bad, lacking, waited>>
    BY <1>2, WatchingRepairedMoves DEF Watching!history
  <2>2. Watching!TypeOK'
    BY <2>1 DEF Watching!TypeOK
  <2>3. WatchingCountInv'
    BY <2>1 DEF WatchingCountInv
  <2>4. WatchingWaitInv'
    BY <2>1 DEF WatchingWaitInv, WatchingCountInv
  <2> QED BY <2>2, <2>3, <2>4
<1>3. ASSUME Watching!EndRound PROVE WatchingInv'
  <2>1. /\ round.stage = "choose" /\ round.todo = {}
        /\ round' = Watching!Asleep /\ round'.stage = "asleep" /\ lacking' = {}
        /\ waited' = [h \in Host |-> IF h \in lacking THEN waited[h] + 1
                                     ELSE IF h \in began THEN 0 ELSE waited[h]]
        /\ UNCHANGED <<watchdogRegistered, watchdogServed, expecting, health, began, bad>>
    BY <1>3 DEF Watching!EndRound, Watching!Asleep
  <2>2. \A h \in Host : WatchingFails(h)' = WatchingFails(h) /\ WatchingFails(h) \in 0..Threshold
    BY <2>1, WatchingRecordedIs DEF WatchingFails
  <2>3. \A h \in Host :
            /\ waited'[h] \in Nat
            /\ h \in lacking => waited'[h] = waited[h] + 1 /\ h \notin watchdogServed
            /\ h \notin lacking => waited'[h] \in {0, waited[h]}
    BY <2>1 DEF Watching!TypeOK, WatchingWaitInv
  <2>4. Watching!TypeOK'
    BY <2>1, <2>3 DEF Watching!TypeOK, Watching!Asleep
  <2>5. WatchingCountInv'
    BY <2>1, <2>2 DEF WatchingCountInv
  <2>6. ASSUME NEW h \in Host
        PROVE  /\ waited'[h] <= WatchingFails(h)' /\ waited'[h] < Threshold
               /\ h \in watchdogServed' => waited'[h] = 0
    <3>1. CASE h \in lacking
      <4>1. /\ waited[h] + 1 <= WatchingFails(h) /\ WatchingFails(h) < Threshold
            /\ waited[h] \in Nat
            /\ WatchingFails(h) \in 0..Threshold /\ WatchingFails(h)' = WatchingFails(h)
        BY <2>1, <2>2, <3>1 DEF WatchingWaitInv, Watching!TypeOK
      <4>2. waited'[h] = waited[h] + 1 /\ h \notin watchdogServed'
        BY <2>1, <2>3, <3>1
      <4> QED BY <4>1, <4>2 DEF Watching!Parameters
    <3>2. CASE h \notin lacking
      <4>1. waited'[h] \in {0, waited[h]} /\ waited[h] <= WatchingFails(h)
             /\ waited[h] < Threshold
            /\ (h \in watchdogServed => waited[h] = 0)
        BY <2>3, <3>2 DEF WatchingWaitInv
      <4> QED BY <4>1, <2>1, <2>2 DEF Watching!Parameters
    <3> QED BY <3>1, <3>2
  <2>7. WatchingWaitInv'
    BY <2>1, <2>6 DEF WatchingWaitInv
  <2> QED BY <2>4, <2>5, <2>7
<1>4. ASSUME Watching!Restart PROVE WatchingInv'
  <2>1. /\ round' = Watching!Asleep /\ round'.stage = "asleep" /\ lacking' = {}
        /\ \A h \in Host : WatchingFails(h)' = 0 /\ bad'[h].checks = 0 /\ waited'[h] = 0
    BY <1>4 DEF Watching!Restart, Watching!Asleep, Watching!Unbeaten, WatchingFails
  <2>2. Watching!TypeOK'
    BY <1>4 DEF Watching!Restart, Watching!TypeOK, Watching!Asleep, Watching!Unbeaten,
       Watching!Parameters
  <2>3. WatchingCountInv' /\ WatchingWaitInv'
    BY <2>1 DEF WatchingCountInv, WatchingWaitInv, Watching!Parameters
  <2> QED BY <2>2, <2>3
<1>5. ASSUME NEW h \in Host,
             Watching!Register(h) \/ Watching!SetExpectations(h) \/ Watching!RemoveTls(h)
      PROVE  WatchingInv'
  <2>1. /\ watchdogRegistered' \subseteq Host
        /\ watchdogServed' \subseteq watchdogServed /\ expecting' \subseteq Host
        /\ UNCHANGED <<health, round, began, bad, lacking, waited>>
    BY <1>5 DEF Watching!Register, Watching!SetExpectations, Watching!RemoveTls,
       Watching!TypeOK, Watching!history
  <2>2. \A g \in Host : WatchingFails(g)' = WatchingFails(g)
    BY <2>1 DEF WatchingFails
  <2>3. Watching!TypeOK'
    BY <2>1 DEF Watching!TypeOK
  <2>4. WatchingCountInv'
    BY <2>1, <2>2 DEF WatchingCountInv
  <2>5. WatchingWaitInv'
    BY <2>1, <2>2 DEF WatchingWaitInv
  <2> QED BY <2>3, <2>4, <2>5
<1>6. ASSUME NEW h \in Host, Watching!UpsertTls(h) PROVE WatchingInv'
  <2>1. /\ watchdogServed' = watchdogServed \cup {h} /\ lacking' = lacking \ {h}
        /\ waited' = [waited EXCEPT ![h] = 0]
        /\ UNCHANGED <<watchdogRegistered, expecting, health, round, began, bad>>
    BY <1>6 DEF Watching!UpsertTls, Watching!Attended
  <2>2. \A g \in Host : WatchingFails(g)' = WatchingFails(g) /\ WatchingFails(g) \in 0..Threshold
    BY <2>1, WatchingRecordedIs DEF WatchingFails
  <2>3. waited'[h] = 0 /\ \A g \in Host : g # h => waited'[g] = waited[g]
    BY <2>1 DEF Watching!TypeOK
  <2>4. Watching!TypeOK'
    BY <2>1 DEF Watching!TypeOK
  <2>5. WatchingCountInv'
    BY <2>1, <2>2 DEF WatchingCountInv
  <2>6. WatchingWaitInv'
    BY <2>1, <2>2, <2>3 DEF WatchingWaitInv, Watching!Parameters
  <2> QED BY <2>4, <2>5, <2>6
<1>7. ASSUME NEW h \in Host, Watching!Check(h) PROVE WatchingInv'
  <2>1. PICK how \in Watching!Outcomes(h) :
              /\ health' \in [Host -> {None} \cup Watching!Entry] /\ health'[h] # None
              /\ WatchingFails(h)' = IF how = "ok" THEN 0 ELSE Watching!Saturated(WatchingFails(h))
              /\ \A g \in Host : g # h => WatchingFails(g)' = WatchingFails(g) /\ health'[g] = health[g]
              /\ bad' \in [Host -> [checks : 0..Threshold, last : {"ok", "tls", "http", "content"}]]
              /\ bad'[h].checks = (IF how = "ok" THEN 0 ELSE Watching!Saturated(bad[h].checks))
              /\ bad'[h].last = how
              /\ \A g \in Host : g # h => bad'[g] = bad[g]
              /\ round.stage = "choose" /\ h \in round.todo
              /\ round'.todo = round.todo \ {h}
              /\ \/ /\ how = "tls" /\ WatchingFails(h)' >= Threshold
                    /\ round'.stage = "repair" /\ round'.host = h
                    /\ Watching!Attended(h)
                 \/ /\ how # "tls" \/ WatchingFails(h)' < Threshold
                    /\ round'.stage = "choose" /\ round'.host = round.host
                    /\ UNCHANGED <<lacking, waited>>
              /\ round' \in [stage : {"asleep", "choose", "repair"}, todo : SUBSET Host,
                             host : Host \cup {None}]
    BY <1>7, WatchingCheckMoves
  <2>2. UNCHANGED <<watchdogRegistered, watchdogServed, expecting, began>>
    BY <1>7 DEF Watching!Check
  <2>3. WatchingFails(h) \in 0..Threshold /\ WatchingFails(h) = bad[h].checks
    BY WatchingRecordedIs DEF WatchingCountInv
  <2>4. CASE round'.stage = "repair"
    <3>1. /\ how = "tls" /\ WatchingFails(h)' >= Threshold /\ round'.host = h
          /\ lacking' = lacking \ {h} /\ waited' = [waited EXCEPT ![h] = 0]
      BY <2>1, <2>4 DEF Watching!Attended
    <3>2. waited'[h] = 0 /\ \A g \in Host : g # h => waited'[g] = waited[g]
      BY <3>1 DEF Watching!TypeOK
    <3>3. Watching!TypeOK'
      BY <2>1, <2>2, <3>1 DEF Watching!TypeOK
    <3>4. WatchingCountInv'
      BY <2>1, <2>2, <2>3, <3>1 DEF WatchingCountInv
    <3>5. WatchingWaitInv'
      BY <2>1, <2>2, <2>4, <3>1, <3>2 DEF WatchingWaitInv, WatchingCountInv,
         Watching!Parameters
    <3> QED BY <3>3, <3>4, <3>5
  <2>5. CASE round'.stage # "repair"
    <3>1. /\ how # "tls" \/ WatchingFails(h)' < Threshold
          /\ round'.stage = "choose" /\ UNCHANGED <<lacking, waited>>
      BY <2>1, <2>5
    <3>2. Watching!TypeOK'
      BY <2>1, <2>2, <3>1 DEF Watching!TypeOK
    <3>3. WatchingCountInv'
      BY <2>1, <2>2, <2>3, <3>1 DEF WatchingCountInv
    <3>4. /\ h \in lacking => how = "tls"
          /\ h \notin watchdogServed => how = "tls"
      BY DEF Watching!Outcomes, WatchingWaitInv
    <3>5. h \in lacking => /\ WatchingFails(h)' = WatchingFails(h) + 1 /\ WatchingFails(h)' < Threshold
                           /\ waited[h] <= WatchingFails(h)
      BY <2>1, <2>3, <3>1, <3>4 DEF Watching!Saturated, WatchingWaitInv
    <3>6. h \notin lacking => waited[h] = 0
      BY <2>1 DEF WatchingWaitInv, WatchingCountInv
    <3>7. WatchingFails(h)' \in 0..Threshold /\ waited[h] \in Nat
      BY <2>1, WatchingRecordedIs, <2>3 DEF Watching!TypeOK, Watching!Parameters
    <3>8. ASSUME NEW g \in Host
          PROVE  /\ waited'[g] <= WatchingFails(g)' /\ waited'[g] < Threshold
                 /\ g \in lacking' /\ g \notin round'.todo =>
                        waited'[g] + 1 <= WatchingFails(g)'
                         /\ WatchingFails(g)' < Threshold
      <4>1. CASE g = h
        <5>1. h \in lacking
                 => waited[h] <= WatchingFails(h)' /\ waited[h] + 1 <= WatchingFails(h)'
                               /\ WatchingFails(h)' < Threshold /\ waited[h] < Threshold
          BY <3>5, <3>7, <2>3 DEF Watching!Parameters
        <5>2. h \notin lacking => waited[h] <= WatchingFails(h)' /\ waited[h] < Threshold
          BY <3>6, <3>7 DEF Watching!Parameters
        <5> QED BY <4>1, <3>1, <5>1, <5>2 DEF WatchingFails
      <4>2. CASE g # h
        BY <4>2, <2>1, <3>1 DEF WatchingWaitInv
      <4> QED BY <4>1, <4>2
    <3>9. WatchingWaitInv'
      BY <2>1, <2>2, <3>1, <3>8 DEF WatchingWaitInv
    <3> QED BY <3>2, <3>3, <3>9
  <2> QED BY <2>4, <2>5
<1>8. ASSUME UNCHANGED Watching!vars PROVE WatchingInv'
  BY <1>8 DEF Watching!vars, Watching!TypeOK, WatchingCountInv, WatchingWaitInv,
     WatchingFails
<1> QED BY <1>1, <1>2, <1>3, <1>4, <1>5, <1>6, <1>7, <1>8 DEF Watching!Next

LEMMA WatchingTypeCorrect ==
    ASSUME Watching!Parameters
    PROVE  Watching!Init /\ [][Watching!Next]_(Watching!vars) => []Watching!TypeOK
<1>1. WatchingInv => Watching!TypeOK
  BY DEF WatchingInv
<1> QED BY <1>1, WatchingInvInit, WatchingInvStep, PTL

\* An order is justified by the checks, and is for a host of its round.
LEMMA WatchingDue ==
    ASSUME Watching!Parameters
    PROVE  Watching!Init /\ [][Watching!Next]_(Watching!vars)
              => [](Watching!ReissueJustified /\ Watching!AsksForRegistered)
<1>1. WatchingInv => Watching!ReissueJustified /\ Watching!AsksForRegistered
  BY DEF WatchingInv, WatchingCountInv, Watching!ReissueJustified,
     Watching!AsksForRegistered
<1> QED BY <1>1, WatchingInvInit, WatchingInvStep, PTL

\* Each whole round without a certificate is a failed check.
LEMMA WatchingServed ==
    ASSUME Watching!Parameters
    PROVE  Watching!Init /\ [][Watching!Next]_(Watching!vars)
           => []Watching!NeverLeftWaiting
<1>1. WatchingInv => Watching!NeverLeftWaiting
  BY DEF WatchingInv, WatchingWaitInv, Watching!NeverLeftWaiting
<1> QED BY <1>1, WatchingInvInit, WatchingInvStep, PTL

-----------------------------------------------------------------------------
(* FreeDomain: for any names, addresses, moves of the machine and          *)
(* capacity.                                                               *)

\* The operators of FiniteSets, by either way.
LEMMA AnnouncingCardinality == \A S : Announcing!Cardinality(S) = Cardinality(S)
BY DEF Announcing!Cardinality, Cardinality

LEMMA AnnouncingFiniteSet == \A S : Announcing!IsFiniteSet(S) = IsFiniteSet(S)
BY DEF Announcing!IsFiniteSet, IsFiniteSet

AnnouncingLoops == [stage : {"asleep", "fetch", "update"}, now : Announcing!Answers,
          todo : SUBSET Domain, good : BOOLEAN]

AnnouncingRequest == [name : Domain, now : Announcing!Addresses]

\* Does every name that was there have the address a at DuckDNS?
AnnouncingAllHave(others, f, a) == \A d \in duckdnsRegistered \ others : duckdnsRecord[d][f] = a

\* While a pass has sent no other address, what was told stays true; what a good
\* pass sends is true of the names it is past.
AnnouncingToldInv ==
    \A f \in Announcing!Family :
        /\ /\ last[f] # None /\ ~duckdnsTorn[f]
           /\ duckdnsLoop.stage = "update"
                 => duckdnsLoop.now[f] = None \/ duckdnsLoop.now[f] = last[f] \/ Announcing!Ill
           => AnnouncingAllHave(fresh[f], f, last[f])
        /\ duckdnsLoop.stage = "update" /\ duckdnsLoop.good /\ duckdnsLoop.now[f] # None =>
              AnnouncingAllHave(touched \cup duckdnsLoop.todo, f, duckdnsLoop.now[f])

\* A pass has still to do, as it starts, all names that are not set up since; one
\* that sends no address is good only before its first name; a name on the way is
\* registered, or was overtaken.
AnnouncingPassInv ==
    /\ IsFiniteSet(duckdnsRegistered)
    /\ duckdnsLoop.stage = "fetch"
          => duckdnsRegistered \ touched \subseteq duckdnsLoop.todo /\ duckdnsLoop.todo # {}
    /\ duckdnsLoop.stage = "update" /\ Announcing!Ill /\ duckdnsLoop.good
          => duckdnsLoop.todo # {}
    /\ duckdnsLoop.todo \subseteq duckdnsRegistered \cup overtaken
    /\ setup # None => setup \in duckdnsRegistered \cup overtaken
    /\ status \subseteq duckdnsRegistered \cup overtaken

AnnouncingInv == Announcing!TypeOK /\ AnnouncingToldInv /\ AnnouncingPassInv

LEMMA AnnouncingAsleepIs == Announcing!Asleep \in AnnouncingLoops
                             /\ Announcing!Asleep.stage = "asleep" /\ Announcing!Asleep.todo = {}
<1>1. TRUE \in BOOLEAN
  BY Zenon
<1>2. [f \in Announcing!Family |-> None] \in Announcing!Answers
  BY DEF Announcing!Family, Announcing!Answers
<1> QED BY <1>1, <1>2 DEF Announcing!Asleep, AnnouncingLoops

\* What the loop sends is an address, or it is ill.
LEMMA AnnouncingNowIs ==
    ASSUME Announcing!Parameters, Announcing!TypeOK, ~Announcing!Ill
    PROVE  duckdnsLoop.now \in Announcing!Addresses
<1>1. duckdnsLoop.now \in Announcing!Answers
  BY DEF Announcing!TypeOK
<1> QED BY <1>1 DEF Announcing!Answers, Announcing!Addresses, Announcing!Ill

\* What an update makes of a record.
LEMMA AnnouncingGivenIs ==
    ASSUME Announcing!TypeOK, NEW d \in Domain, NEW given \in Announcing!Addresses,
           duckdnsRecord' = [duckdnsRecord EXCEPT ![d] = Announcing!Given(d, given)]
    PROVE  /\ duckdnsRecord' \in [Domain -> Announcing!Addresses]
           /\ \A e \in Domain : e # d => duckdnsRecord'[e] = duckdnsRecord[e]
           /\ \A f \in Announcing!Family :
                  duckdnsRecord'[d][f] = IF given[f] = None THEN duckdnsRecord[d][f] ELSE given[f]
<1>1. Announcing!Given(d, given) \in Announcing!Addresses
  <2>1. duckdnsRecord[d] \in Announcing!Addresses
    BY DEF Announcing!TypeOK
  <2> QED BY <2>1 DEF Announcing!Given, Announcing!Addresses, Announcing!Family
<1>2. /\ duckdnsRecord'[d] = Announcing!Given(d, given)
      /\ \A e \in Domain : e # d => duckdnsRecord'[e] = duckdnsRecord[e]
  BY DEF Announcing!TypeOK
<1>3. duckdnsRecord' \in [Domain -> Announcing!Addresses]
  BY <1>1 DEF Announcing!TypeOK
<1> QED BY <1>2, <1>3 DEF Announcing!Given

\* A request that breaks.
LEMMA AnnouncingLeaveIs ==
    ASSUME Announcing!TypeOK, NEW d \in Domain, NEW given \in Announcing!Addresses,
           UNCHANGED duckdnsLate \/ Announcing!Leave(d, given)
    PROVE  duckdnsLate' \in [1..MaxLate -> AnnouncingRequest \cup {None}]
<1>1. duckdnsLate \in [1..MaxLate -> AnnouncingRequest \cup {None}]
  BY DEF Announcing!TypeOK, AnnouncingRequest
<1>2. [name |-> d, now |-> given] \in AnnouncingRequest
  BY DEF AnnouncingRequest
<1>3. CASE UNCHANGED duckdnsLate
  BY <1>1, <1>3
<1>4. CASE Announcing!Leave(d, given)
  <2>1. PICK i \in 1..MaxLate :
            duckdnsLate' = [duckdnsLate EXCEPT ![i] = [name |-> d, now |-> given]]
    BY <1>4 DEF Announcing!Leave
  <2> QED BY <1>1, <1>2, <2>1
<1> QED BY <1>3, <1>4

LEMMA AnnouncingInvInit ==
    ASSUME Announcing!Parameters
    PROVE  Announcing!Init => AnnouncingInv
<1> SUFFICES ASSUME Announcing!Init PROVE AnnouncingInv
  OBVIOUS
<1>1. /\ duckdnsWan \in [v4 : Addr, v6 : Addr6 \cup {None}] /\ moves = 0 /\ setups = 0
      /\ duckdnsRegistered = Seed /\ status = {} /\ duckdnsLoop = Announcing!Asleep
      /\ setup = None /\ duckdnsLate = [i \in 1..MaxLate |-> None]
      /\ duckdnsRecord = [d \in Domain |-> [f \in Announcing!Family |-> None]]
      /\ last = [f \in Announcing!Family |-> None]
      /\ touched = {} /\ overtaken = {}
      /\ fresh = [f \in Announcing!Family |-> Seed]
      /\ duckdnsTorn = [f \in Announcing!Family |-> FALSE]
  BY DEF Announcing!Init
<1>2. duckdnsWan \in Announcing!Addresses /\ last \in Announcing!Addresses
       /\ duckdnsRecord \in [Domain -> Announcing!Addresses]
  <2>1. [f \in Announcing!Family |-> None] \in Announcing!Addresses
    BY DEF Announcing!Family, Announcing!Addresses
  <2> QED BY <1>1, <2>1 DEF Announcing!Addresses
<1>3. duckdnsTorn \in [Announcing!Family -> BOOLEAN]
  <2>1. FALSE \in BOOLEAN
    BY Zenon
  <2> QED BY <1>1, <2>1
<1>4. Announcing!TypeOK
  BY <1>1, <1>2, <1>3, AnnouncingAsleepIs DEF Announcing!TypeOK, AnnouncingLoops,
     Announcing!Parameters
<1> QED BY <1>1, <1>4, AnnouncingAsleepIs, AnnouncingFiniteSet DEF AnnouncingInv,
           AnnouncingToldInv, AnnouncingPassInv, Announcing!Parameters

\* One name more or less.
LEMMA AnnouncingNamesMove ==
    ASSUME Announcing!Parameters, Announcing!TypeOK, AnnouncingPassInv, NEW d \in Domain,
           Announcing!Register(d) \/ Announcing!Remove(d)
    PROVE  /\ duckdnsRegistered' \subseteq Domain /\ IsFiniteSet(duckdnsRegistered')
           /\ Cardinality(duckdnsRegistered') <= Capacity
<1>1. /\ IsFiniteSet(duckdnsRegistered) /\ Cardinality(duckdnsRegistered) <= Capacity
      /\ Cardinality(duckdnsRegistered) \in Nat /\ duckdnsRegistered \subseteq Domain
  BY FS_CardinalityType, AnnouncingCardinality DEF AnnouncingPassInv, Announcing!TypeOK
<1>2. CASE Announcing!Register(d) /\ d \notin duckdnsRegistered
  <2>1. duckdnsRegistered' = duckdnsRegistered \cup {d}
         /\ Cardinality(duckdnsRegistered) < Capacity
    BY <1>2, AnnouncingCardinality DEF Announcing!Register
  <2>2. IsFiniteSet(duckdnsRegistered')
         /\ Cardinality(duckdnsRegistered') = Cardinality(duckdnsRegistered) + 1
    BY <1>1, <1>2, <2>1, FS_AddElement
  <2> QED BY <1>1, <2>1, <2>2 DEF Announcing!Parameters
<1>3. CASE Announcing!Register(d) /\ d \in duckdnsRegistered
  <2>1. duckdnsRegistered' = duckdnsRegistered
    BY <1>3 DEF Announcing!Register
  <2> QED BY <1>1, <2>1
<1>4. CASE Announcing!Remove(d)
  <2>1. duckdnsRegistered' = duckdnsRegistered \ {d} /\ d \in duckdnsRegistered
    BY <1>4 DEF Announcing!Remove
  <2>2. IsFiniteSet(duckdnsRegistered')
         /\ Cardinality(duckdnsRegistered') = Cardinality(duckdnsRegistered) - 1
    BY <1>1, <2>1, FS_RemoveElement
  <2> QED BY <1>1, <2>1, <2>2 DEF Announcing!Parameters
<1> QED BY <1>2, <1>3, <1>4

LEMMA AnnouncingRegisterStep ==
    ASSUME Announcing!Parameters, AnnouncingInv, NEW d \in Domain, Announcing!Register(d)
    PROVE  AnnouncingInv'
<1> USE DEF AnnouncingInv
<1>1. /\ duckdnsRegistered' = duckdnsRegistered \cup {d} /\ overtaken' = overtaken \ {d}
      /\ setup' = d /\ setups < MaxSetups /\ setups' = setups + 1
      /\ touched' = touched \cup {d}
      /\ fresh' = [f \in Announcing!Family |-> fresh[f] \cup {d}]
      /\ UNCHANGED <<duckdnsWan, moves, status, duckdnsRecord, duckdnsLate, last, duckdnsLoop,
                     duckdnsTorn>>
  BY DEF Announcing!Register
<1>2. /\ duckdnsRegistered' \subseteq Domain /\ IsFiniteSet(duckdnsRegistered')
      /\ Cardinality(duckdnsRegistered') <= Capacity
  BY AnnouncingNamesMove
<1>3. /\ \A f \in Announcing!Family : fresh'[f] = fresh[f] \cup {d}
      /\ fresh' \in [Announcing!Family -> SUBSET Domain]
  BY <1>1 DEF Announcing!TypeOK
<1>4. setups' \in 0..MaxSetups
  BY <1>1 DEF Announcing!TypeOK, Announcing!Parameters
<1>5. Announcing!TypeOK'
  BY <1>1, <1>2, <1>3, <1>4, AnnouncingCardinality DEF Announcing!TypeOK
<1>6. AnnouncingToldInv'
  BY <1>1, <1>3 DEF AnnouncingToldInv, AnnouncingAllHave, Announcing!Ill
<1>7. AnnouncingPassInv'
  BY <1>1, <1>2 DEF AnnouncingPassInv, Announcing!Ill
<1> QED BY <1>5, <1>6, <1>7

LEMMA AnnouncingRemoveStep ==
    ASSUME Announcing!Parameters, AnnouncingInv, NEW d \in Domain, Announcing!Remove(d)
    PROVE  AnnouncingInv'
<1> USE DEF AnnouncingInv
<1>1. /\ duckdnsRegistered' = duckdnsRegistered \ {d} /\ status' = status \ {d}
      /\ overtaken' = IF d = setup \/ d \in duckdnsLoop.todo THEN overtaken \cup {d} ELSE overtaken
      /\ UNCHANGED <<duckdnsWan, moves, duckdnsRecord, duckdnsLate, last, duckdnsLoop, setup, setups,
                     touched, fresh, duckdnsTorn>>
  BY DEF Announcing!Remove, Announcing!history
<1>2. /\ duckdnsRegistered' \subseteq Domain /\ IsFiniteSet(duckdnsRegistered')
      /\ Cardinality(duckdnsRegistered') <= Capacity
  BY AnnouncingNamesMove
<1>3. overtaken \subseteq overtaken' /\ overtaken' \subseteq overtaken \cup {d}
  BY <1>1
<1>5. Announcing!TypeOK'
  BY <1>1, <1>2, <1>3, AnnouncingCardinality DEF Announcing!TypeOK
<1>6. AnnouncingToldInv'
  BY <1>1 DEF AnnouncingToldInv, AnnouncingAllHave, Announcing!Ill
<1>7. AnnouncingPassInv'
  BY <1>1, <1>2, <1>3 DEF AnnouncingPassInv, Announcing!Ill
<1> QED BY <1>5, <1>6, <1>7

LEMMA AnnouncingAnnounceStep ==
    ASSUME Announcing!Parameters, AnnouncingInv, Announcing!Announce
    PROVE  AnnouncingInv'
<1> USE DEF AnnouncingInv
<1>1. PICK taken \in BOOLEAN, answer \in {"good", "bad", "lost"} :
          /\ taken = (answer = "good") \/ answer = "lost"
          /\ duckdnsRecord' = IF taken THEN [duckdnsRecord EXCEPT ![setup].v4 = duckdnsWan.v4] ELSE duckdnsRecord
          /\ status' = IF answer = "lost" THEN status ELSE status \cup {setup}
          /\ \/ UNCHANGED duckdnsLate
             \/ Announcing!Leave(setup, [v4 |-> duckdnsWan.v4, v6 |-> None])
  BY DEF Announcing!Announce
<1>2. /\ setup # None /\ setup' = None /\ setup \in Domain
      /\ touched' = touched \cup {setup}
      /\ fresh' = [fresh EXCEPT !.v4 = fresh.v4 \cup {setup}]
      /\ UNCHANGED <<duckdnsWan, moves, duckdnsRegistered, last, duckdnsLoop, setups, duckdnsTorn, overtaken>>
  BY DEF Announcing!Announce, Announcing!TypeOK
<1>3. /\ fresh' \in [Announcing!Family -> SUBSET Domain]
      /\ fresh'["v4"] = fresh["v4"] \cup {setup} /\ fresh'["v6"] = fresh["v6"]
  BY <1>2 DEF Announcing!TypeOK, Announcing!Family
<1>4. /\ duckdnsRecord' \in [Domain -> Announcing!Addresses]
      /\ \A e \in Domain : e # setup => duckdnsRecord'[e] = duckdnsRecord[e]
      /\ \A e \in Domain : duckdnsRecord'[e]["v6"] = duckdnsRecord[e]["v6"]
  <2>1. CASE taken
    <3>1. duckdnsRecord' = [duckdnsRecord EXCEPT ![setup].v4 = duckdnsWan.v4] /\ duckdnsRecord[setup] \in Announcing!Addresses
      BY <1>1, <1>2, <2>1 DEF Announcing!TypeOK
    <3> DEFINE m == [duckdnsRecord[setup] EXCEPT !.v4 = duckdnsWan.v4]
    <3>2. m \in Announcing!Addresses /\ m["v6"] = duckdnsRecord[setup]["v6"]
      BY <3>1 DEF Announcing!TypeOK, Announcing!Addresses
    <3>3. duckdnsRecord' = [duckdnsRecord EXCEPT ![setup] = m]
      BY <3>1
    <3> HIDE DEF m
    <3> QED BY <3>2, <3>3, <1>2 DEF Announcing!TypeOK
  <2>2. CASE ~taken
    BY <1>1, <2>2 DEF Announcing!TypeOK
  <2> QED BY <2>1, <2>2
<1>5. status' \subseteq status \cup {setup}
  BY <1>1
<1>11. duckdnsLate' \in [1..MaxLate -> AnnouncingRequest \cup {None}]
  <2>1. [v4 |-> duckdnsWan.v4, v6 |-> None] \in Announcing!Addresses
    BY DEF Announcing!TypeOK, Announcing!Addresses
  <2> QED BY <1>1, <1>2, <2>1, AnnouncingLeaveIs
<1>6. Announcing!TypeOK'
  BY <1>2, <1>3, <1>4, <1>5, <1>11 DEF Announcing!TypeOK, AnnouncingRequest
<1>7. ASSUME NEW f \in Announcing!Family, NEW a, AnnouncingAllHave(fresh[f], f, a)
      PROVE  \A e \in duckdnsRegistered \ fresh'[f] : duckdnsRecord'[e][f] = a
  <2>1. CASE f = "v4"
    BY <1>3, <1>4, <1>7, <2>1 DEF AnnouncingAllHave, Announcing!TypeOK
  <2>2. CASE f = "v6"
    BY <1>3, <1>4, <1>7, <2>2 DEF AnnouncingAllHave, Announcing!TypeOK
  <2> QED BY <2>1, <2>2 DEF Announcing!Family
<1>8. ASSUME NEW f \in Announcing!Family, NEW a,
             AnnouncingAllHave(touched \cup duckdnsLoop.todo, f, a)
      PROVE  \A e \in duckdnsRegistered \ (touched' \cup duckdnsLoop.todo) : duckdnsRecord'[e][f] = a
  BY <1>2, <1>4, <1>8 DEF AnnouncingAllHave, Announcing!TypeOK
<1>9. AnnouncingToldInv'
  <2> SUFFICES ASSUME NEW f \in Announcing!Family
               PROVE  /\ /\ last[f] # None /\ ~duckdnsTorn[f]
                         /\ duckdnsLoop.stage = "update"
                               => \/ duckdnsLoop.now[f] = None \/ duckdnsLoop.now[f] = last[f]
                                  \/ Announcing!Ill
                         => \A e \in duckdnsRegistered \ fresh'[f] : duckdnsRecord'[e][f] = last[f]
                      /\ duckdnsLoop.stage = "update" /\ duckdnsLoop.good /\ duckdnsLoop.now[f] # None =>
                            \A e \in duckdnsRegistered \ (touched' \cup duckdnsLoop.todo) :
                               duckdnsRecord'[e][f] = duckdnsLoop.now[f]
    BY <1>2 DEF AnnouncingToldInv, AnnouncingAllHave, Announcing!Ill
  <2> QED BY <1>7, <1>8 DEF AnnouncingToldInv
<1>10. AnnouncingPassInv'
  BY <1>2, <1>5 DEF AnnouncingPassInv, Announcing!Ill
<1> QED BY <1>6, <1>9, <1>10

LEMMA AnnouncingUpdateStep ==
    ASSUME Announcing!Parameters, AnnouncingInv, NEW d \in Domain, Announcing!Update(d)
    PROVE  AnnouncingInv'
<1> USE DEF AnnouncingInv
<1>1. PICK taken \in BOOLEAN, answer \in {"good", "bad"} :
          /\ answer = "good" => taken
          /\ taken => ~Announcing!Ill
          /\ duckdnsRecord' = IF taken
                              THEN [duckdnsRecord EXCEPT ![d] = Announcing!Given(d, duckdnsLoop.now)]
                              ELSE duckdnsRecord
          /\ duckdnsLoop' = [duckdnsLoop EXCEPT !.todo = duckdnsLoop.todo \ {d},
                                  !.good = duckdnsLoop.good /\ answer = "good"]
          /\ \/ UNCHANGED duckdnsLate
             \/ ~Announcing!Ill /\ Announcing!Leave(d, duckdnsLoop.now)
  BY DEF Announcing!Update
<1>2. /\ duckdnsLoop.stage = "update" /\ d \in duckdnsLoop.todo
      /\ status' = status \cup {d}
      /\ UNCHANGED <<duckdnsWan, moves, duckdnsRegistered, last, setup, setups, touched, fresh,
                     duckdnsTorn, overtaken>>
  BY DEF Announcing!Update, Announcing!history
<1>3. duckdnsLoop \in AnnouncingLoops /\ (duckdnsLoop.good /\ answer = "good") \in BOOLEAN
  <2>1. (duckdnsLoop.good /\ answer = "good") \in BOOLEAN
    BY Zenon
  <2> QED BY <2>1 DEF Announcing!TypeOK, AnnouncingLoops
<1>4. /\ duckdnsLoop' \in AnnouncingLoops /\ duckdnsLoop'.stage = "update"
      /\ duckdnsLoop'.now = duckdnsLoop.now
      /\ duckdnsLoop'.todo = duckdnsLoop.todo \ {d}
      /\ duckdnsLoop'.good <=> duckdnsLoop.good /\ answer = "good"
  BY <1>1, <1>2, <1>3 DEF AnnouncingLoops
<1>5. duckdnsLate' \in [1..MaxLate -> AnnouncingRequest \cup {None}]
  <2>1. CASE UNCHANGED duckdnsLate
    BY <2>1 DEF Announcing!TypeOK, AnnouncingRequest
  <2>2. CASE ~Announcing!Ill /\ Announcing!Leave(d, duckdnsLoop.now)
    BY <2>2, AnnouncingNowIs, AnnouncingLeaveIs
  <2> QED BY <1>1, <2>1, <2>2
<1>6. /\ duckdnsRecord' \in [Domain -> Announcing!Addresses]
      /\ \A e \in Domain : e # d => duckdnsRecord'[e] = duckdnsRecord[e]
      /\ \A f \in Announcing!Family :
             /\ Announcing!Ill => duckdnsRecord'[d][f] = duckdnsRecord[d][f]
             /\ duckdnsRecord'[d][f] \in {duckdnsRecord[d][f], duckdnsLoop.now[f]}
             /\ duckdnsLoop.now[f] = None => duckdnsRecord'[d][f] = duckdnsRecord[d][f]
             /\ taken /\ duckdnsLoop.now[f] # None
                   => duckdnsRecord'[d][f] = duckdnsLoop.now[f]
  <2>1. CASE taken
    <3>1. ~Announcing!Ill /\ duckdnsLoop.now \in Announcing!Addresses
      BY <1>1, <2>1, AnnouncingNowIs
    <3>2. duckdnsRecord' = [duckdnsRecord EXCEPT ![d] = Announcing!Given(d, duckdnsLoop.now)]
      BY <1>1, <2>1
    <3>3. /\ duckdnsRecord' \in [Domain -> Announcing!Addresses]
          /\ \A e \in Domain : e # d => duckdnsRecord'[e] = duckdnsRecord[e]
          /\ \A f \in Announcing!Family :
                 duckdnsRecord'[d][f] = IF duckdnsLoop.now[f] = None THEN duckdnsRecord[d][f]
                                        ELSE duckdnsLoop.now[f]
      BY <3>1, <3>2, AnnouncingGivenIs
    <3> QED BY <3>1, <3>3
  <2>2. CASE ~taken
    BY <1>1, <2>2 DEF Announcing!TypeOK
  <2> QED BY <2>1, <2>2
<1>7. Announcing!TypeOK'
  BY <1>2, <1>4, <1>5, <1>6 DEF Announcing!TypeOK, AnnouncingLoops, AnnouncingRequest
<1>8. ASSUME NEW f \in Announcing!Family, last[f] # None, ~duckdnsTorn[f],
             duckdnsLoop.now[f] = None \/ duckdnsLoop.now[f] = last[f] \/ Announcing!Ill
      PROVE  \A e \in duckdnsRegistered \ fresh[f] : duckdnsRecord'[e][f] = last[f]
  <2>1. AnnouncingAllHave(fresh[f], f, last[f])
    BY <1>8 DEF AnnouncingToldInv
  <2>2. SUFFICES ASSUME NEW e \in duckdnsRegistered \ fresh[f]
                 PROVE  duckdnsRecord'[e][f] = last[f]
    OBVIOUS
  <2>3. duckdnsRecord[e][f] = last[f] /\ e \in Domain
    BY <2>1, <2>2 DEF AnnouncingAllHave, Announcing!TypeOK
  <2>4. CASE e = d
    BY <1>6, <1>8, <2>3, <2>4
  <2>5. CASE e # d
    BY <1>6, <2>3, <2>5
  <2> QED BY <2>4, <2>5
<1>9. ASSUME NEW f \in Announcing!Family, duckdnsLoop'.good, duckdnsLoop.now[f] # None
      PROVE  \A e \in duckdnsRegistered \ (touched \cup duckdnsLoop'.todo) : duckdnsRecord'[e][f] = duckdnsLoop.now[f]
  <2>1. AnnouncingAllHave(touched \cup duckdnsLoop.todo, f, duckdnsLoop.now[f]) /\ taken
    BY <1>1, <1>2, <1>4, <1>9 DEF AnnouncingToldInv
  <2>2. SUFFICES ASSUME NEW e \in duckdnsRegistered \ (touched \cup duckdnsLoop'.todo)
                 PROVE  duckdnsRecord'[e][f] = duckdnsLoop.now[f]
    OBVIOUS
  <2>3. CASE e = d
    BY <1>6, <1>9, <2>1, <2>3
  <2>4. CASE e # d
    <3>1. e \in duckdnsRegistered \ (touched \cup duckdnsLoop.todo) /\ e \in Domain
      BY <1>4, <2>2, <2>4 DEF Announcing!TypeOK
    <3> QED BY <1>6, <2>1, <2>4, <3>1 DEF AnnouncingAllHave
  <2> QED BY <2>3, <2>4
<1>10. AnnouncingToldInv'
  BY <1>2, <1>4, <1>8, <1>9 DEF AnnouncingToldInv, AnnouncingAllHave, Announcing!Ill
<1>11. AnnouncingPassInv'
  <2>1. duckdnsLoop'.good => taken /\ ~Announcing!Ill
    BY <1>1, <1>4
  <2> QED BY <1>2, <1>4, <2>1 DEF AnnouncingPassInv, Announcing!Ill
<1> QED BY <1>7, <1>10, <1>11

LEMMA AnnouncingEndPassStep ==
    ASSUME Announcing!Parameters, AnnouncingInv, Announcing!EndPass
    PROVE  AnnouncingInv'
<1> USE DEF AnnouncingInv
<1>1. /\ duckdnsLoop.stage = "update" /\ duckdnsLoop.todo = {}
      /\ duckdnsLoop' = Announcing!Asleep
      /\ last' = [f \in Announcing!Family |-> IF duckdnsLoop.good /\ Announcing!Sent(f) THEN duckdnsLoop.now[f] ELSE last[f]]
      /\ fresh' = [f \in Announcing!Family |-> IF duckdnsLoop.good /\ Announcing!Sent(f) THEN touched ELSE fresh[f]]
      /\ duckdnsTorn' = [f \in Announcing!Family |-> Announcing!Torn(f)]
      /\ UNCHANGED <<duckdnsWan, moves, duckdnsRegistered, status, duckdnsRecord, duckdnsLate,
                     setup, setups, touched, overtaken>>
  BY DEF Announcing!EndPass
<1>9. duckdnsLoop.good => ~Announcing!Ill
  BY <1>1 DEF AnnouncingPassInv
<1>2. last' \in Announcing!Addresses
  <2>1. /\ last \in Announcing!Addresses
        /\ duckdnsLoop.good => duckdnsLoop.now \in Announcing!Addresses
    BY <1>9, AnnouncingNowIs DEF Announcing!TypeOK
  <2> QED BY <1>1, <2>1 DEF Announcing!Addresses, Announcing!Family
<1>3. fresh' \in [Announcing!Family -> SUBSET Domain]
  BY <1>1 DEF Announcing!TypeOK
<1>4. duckdnsTorn' \in [Announcing!Family -> BOOLEAN]
  <2>1. \A f \in Announcing!Family : Announcing!Torn(f) \in BOOLEAN
    <3> SUFFICES ASSUME NEW f \in Announcing!Family PROVE Announcing!Torn(f) \in BOOLEAN
      OBVIOUS
    <3>1. duckdnsTorn[f] \in BOOLEAN
      BY DEF Announcing!TypeOK
    <3>2. (~duckdnsLoop.good /\ (duckdnsTorn[f] \/ last'[f] # duckdnsLoop.now[f])) \in BOOLEAN
      BY Zenon
    <3> QED BY <3>1, <3>2 DEF Announcing!Torn
  <2> QED BY <1>1, <2>1
<1>5. Announcing!TypeOK'
  BY <1>1, <1>2, <1>3, <1>4, AnnouncingAsleepIs DEF Announcing!TypeOK, AnnouncingLoops
<1>6. ASSUME NEW f \in Announcing!Family, last'[f] # None, ~duckdnsTorn'[f]
      PROVE  \A e \in duckdnsRegistered \ fresh'[f] : duckdnsRecord[e][f] = last'[f]
  <2>1. ~Announcing!Torn(f)
    BY <1>1, <1>6
  <2>2. CASE duckdnsLoop.good /\ Announcing!Sent(f)
    <3>1. AnnouncingAllHave(touched \cup duckdnsLoop.todo, f, duckdnsLoop.now[f])
      BY <1>1, <2>2 DEF AnnouncingToldInv, Announcing!Sent
    <3> QED BY <1>1, <2>2, <3>1 DEF AnnouncingAllHave
  <2>3. CASE ~(duckdnsLoop.good /\ Announcing!Sent(f))
    <3>1. last'[f] = last[f] /\ fresh'[f] = fresh[f]
      BY <1>1, <2>3
    <3>2. ~duckdnsTorn[f] /\ (duckdnsLoop.now[f] = None \/ duckdnsLoop.now[f] = last[f]
                              \/ Announcing!Ill)
      BY <2>1, <2>3, <3>1 DEF Announcing!Torn, Announcing!Sent
    <3>3. AnnouncingAllHave(fresh[f], f, last[f])
      BY <1>6, <3>1, <3>2 DEF AnnouncingToldInv
    <3> QED BY <3>1, <3>3 DEF AnnouncingAllHave
  <2> QED BY <2>2, <2>3
<1>7. AnnouncingToldInv'
  BY <1>1, <1>6, AnnouncingAsleepIs DEF AnnouncingToldInv, AnnouncingAllHave
<1>8. AnnouncingPassInv'
  BY <1>1, AnnouncingAsleepIs DEF AnnouncingPassInv
<1> QED BY <1>5, <1>7, <1>8

LEMMA AnnouncingRestartStep ==
    ASSUME Announcing!Parameters, AnnouncingInv, Announcing!Restart
    PROVE  AnnouncingInv'
<1> USE DEF AnnouncingInv
<1>1. /\ duckdnsRegistered' = Seed /\ status' = {}
      /\ last' = [f \in Announcing!Family |-> None] /\ duckdnsLoop' = Announcing!Asleep
      /\ setup' = None
      /\ touched' = {} /\ fresh' = [f \in Announcing!Family |-> Domain] /\ overtaken' = {}
      /\ duckdnsTorn' = [f \in Announcing!Family |-> FALSE]
      /\ UNCHANGED <<duckdnsWan, moves, duckdnsRecord, duckdnsLate, setups>>
  BY DEF Announcing!Restart
<1>2. last' \in Announcing!Addresses
  BY <1>1 DEF Announcing!Addresses, Announcing!Family
<1>3. duckdnsTorn' \in [Announcing!Family -> BOOLEAN]
       /\ fresh' \in [Announcing!Family -> SUBSET Domain]
  <2>1. FALSE \in BOOLEAN
    BY Zenon
  <2> QED BY <1>1, <2>1
<1>4. Announcing!TypeOK'
  BY <1>1, <1>2, <1>3, AnnouncingAsleepIs DEF Announcing!TypeOK, AnnouncingLoops,
     Announcing!Parameters
<1>5. AnnouncingToldInv'
  BY <1>1, AnnouncingAsleepIs DEF AnnouncingToldInv, Announcing!Parameters
<1>6. AnnouncingPassInv'
  BY <1>1, AnnouncingAsleepIs, AnnouncingFiniteSet DEF AnnouncingPassInv,
     Announcing!Parameters
<1> QED BY <1>4, <1>5, <1>6

\* A broken request that comes late sends the names it was for.
LEMMA AnnouncingLandStep ==
    ASSUME Announcing!Parameters, AnnouncingInv, NEW i \in 1..MaxLate, Announcing!Land(i)
    PROVE  AnnouncingInv'
<1> USE DEF AnnouncingInv
<1> DEFINE d == duckdnsLate[i].name
           given == duckdnsLate[i].now
<1>1. /\ duckdnsLate[i] # None
      /\ duckdnsRecord' = [duckdnsRecord EXCEPT ![d] = Announcing!Given(d, given)]
      /\ touched' = touched \cup {d}
      /\ fresh' = [f \in Announcing!Family |-> IF given[f] = None THEN fresh[f] ELSE fresh[f] \cup {d}]
      /\ duckdnsLate' = [duckdnsLate EXCEPT ![i] = None]
      /\ UNCHANGED <<duckdnsWan, moves, duckdnsRegistered, status, last, duckdnsLoop, setup, setups,
                     duckdnsTorn, overtaken>>
  BY DEF Announcing!Land
<1>2. d \in Domain /\ given \in Announcing!Addresses
  BY <1>1 DEF Announcing!TypeOK
<1> HIDE DEF d, given
<1>3. /\ duckdnsRecord' \in [Domain -> Announcing!Addresses]
      /\ \A e \in Domain : e # d => duckdnsRecord'[e] = duckdnsRecord[e]
      /\ \A f \in Announcing!Family : given[f] = None => duckdnsRecord'[d][f] = duckdnsRecord[d][f]
  <2>1. duckdnsRecord' = [duckdnsRecord EXCEPT ![d] = Announcing!Given(d, given)]
    BY <1>1
  <2>2. \A f \in Announcing!Family :
            duckdnsRecord'[d][f] = IF given[f] = None THEN duckdnsRecord[d][f] ELSE given[f]
    BY <1>2, <2>1, AnnouncingGivenIs
  <2> QED BY <1>2, <2>1, <2>2, AnnouncingGivenIs
<1>4. fresh' \in [Announcing!Family -> SUBSET Domain]
  BY <1>1, <1>2 DEF Announcing!TypeOK
<1>5. duckdnsLate' \in [1..MaxLate -> AnnouncingRequest \cup {None}]
  BY <1>1 DEF Announcing!TypeOK, AnnouncingRequest
<1>6. Announcing!TypeOK'
  BY <1>1, <1>2, <1>3, <1>4, <1>5 DEF Announcing!TypeOK, AnnouncingRequest
<1>7. ASSUME NEW f \in Announcing!Family, NEW a, AnnouncingAllHave(fresh[f], f, a)
      PROVE  \A e \in duckdnsRegistered \ fresh'[f] : duckdnsRecord'[e][f] = a
  BY <1>1, <1>2, <1>3, <1>7 DEF AnnouncingAllHave, Announcing!TypeOK
<1>8. ASSUME NEW f \in Announcing!Family, NEW a,
             AnnouncingAllHave(touched \cup duckdnsLoop.todo, f, a)
      PROVE  \A e \in duckdnsRegistered \ (touched' \cup duckdnsLoop.todo) : duckdnsRecord'[e][f] = a
  BY <1>1, <1>3, <1>8 DEF AnnouncingAllHave, Announcing!TypeOK
<1>9. AnnouncingToldInv'
  <2> SUFFICES ASSUME NEW f \in Announcing!Family
               PROVE  /\ /\ last[f] # None /\ ~duckdnsTorn[f]
                         /\ duckdnsLoop.stage = "update"
                               => \/ duckdnsLoop.now[f] = None \/ duckdnsLoop.now[f] = last[f]
                                  \/ Announcing!Ill
                         => \A e \in duckdnsRegistered \ fresh'[f] : duckdnsRecord'[e][f] = last[f]
                      /\ duckdnsLoop.stage = "update" /\ duckdnsLoop.good /\ duckdnsLoop.now[f] # None =>
                            \A e \in duckdnsRegistered \ (touched' \cup duckdnsLoop.todo) :
                               duckdnsRecord'[e][f] = duckdnsLoop.now[f]
    BY <1>1 DEF AnnouncingToldInv, AnnouncingAllHave, Announcing!Ill
  <2> QED BY <1>7, <1>8 DEF AnnouncingToldInv
<1>10. AnnouncingPassInv'
  BY <1>1 DEF AnnouncingPassInv, Announcing!Ill
<1> QED BY <1>6, <1>9, <1>10

LEMMA AnnouncingInvStep ==
    ASSUME Announcing!Parameters
    PROVE  AnnouncingInv /\ [Announcing!Next]_(Announcing!vars) => AnnouncingInv'
<1> SUFFICES ASSUME AnnouncingInv, [Announcing!Next]_(Announcing!vars)
             PROVE  AnnouncingInv'
  OBVIOUS
<1> USE DEF AnnouncingInv
<1>1. ASSUME Announcing!Move PROVE AnnouncingInv'
  <2>1. /\ \/ \E ip \in Addr : duckdnsWan' = [duckdnsWan EXCEPT !.v4 = ip]
           \/ \E ip \in Addr6 \cup {None} : duckdnsWan' = [duckdnsWan EXCEPT !.v6 = ip]
        /\ moves' = moves + 1 /\ moves < MaxMoves
        /\ UNCHANGED <<duckdnsRegistered, status, duckdnsRecord, duckdnsLate, last, duckdnsLoop,
                       setup, setups, touched, fresh, duckdnsTorn, overtaken>>
    BY <1>1 DEF Announcing!Move, Announcing!history
  <2>2. duckdnsWan' \in Announcing!Addresses /\ moves' \in 0..MaxMoves
    BY <2>1 DEF Announcing!Addresses, Announcing!TypeOK, Announcing!Parameters
  <2>3. Announcing!TypeOK'
    BY <2>1, <2>2 DEF Announcing!TypeOK
  <2> QED BY <2>1, <2>3 DEF AnnouncingToldInv, AnnouncingAllHave, AnnouncingPassInv, Announcing!Ill
<1>2. ASSUME Announcing!StartPass PROVE AnnouncingInv'
  <2>1. PICK v6 \in {None, duckdnsWan.v6, Page} :
          duckdnsLoop' = [stage |-> "fetch", now |-> [v4 |-> None, v6 |-> v6],
                   todo |-> duckdnsRegistered, good |-> TRUE]
    BY <1>2 DEF Announcing!StartPass
  <2>2. /\ duckdnsLoop.stage = "asleep" /\ duckdnsRegistered # {}
        /\ touched' = IF setup = None THEN {} ELSE {setup}
        /\ UNCHANGED <<duckdnsWan, moves, duckdnsRegistered, status, duckdnsRecord, duckdnsLate,
                       last, setup, setups, fresh, duckdnsTorn, overtaken>>
    BY <1>2 DEF Announcing!StartPass
  <2>3. [v4 |-> None, v6 |-> v6] \in Announcing!Answers
    BY DEF Announcing!Answers, Announcing!Addresses, Announcing!TypeOK
  <2>4. duckdnsLoop' \in AnnouncingLoops /\ duckdnsLoop'.stage = "fetch"
         /\ duckdnsLoop'.todo = duckdnsRegistered
    <3>1. TRUE \in BOOLEAN
      BY Zenon
    <3> QED BY <2>1, <2>3, <3>1 DEF AnnouncingLoops, Announcing!TypeOK
  <2>5. touched' \subseteq Domain
    BY <2>2 DEF Announcing!TypeOK
  <2>6. Announcing!TypeOK'
    BY <2>2, <2>4, <2>5 DEF Announcing!TypeOK, AnnouncingLoops
  <2>7. AnnouncingToldInv'
    BY <2>2, <2>4 DEF AnnouncingToldInv, AnnouncingAllHave
  <2>8. AnnouncingPassInv'
    BY <2>2, <2>4 DEF AnnouncingPassInv
  <2> QED BY <2>6, <2>7, <2>8
<1>3. ASSUME Announcing!FetchIp, duckdnsLoop'.stage = "update"
      PROVE  AnnouncingInv'
  <2>1. PICK v4 \in {duckdnsWan.v4, Page} :
            duckdnsLoop' = IF Announcing!Changed(v4, duckdnsLoop.now.v6)
                           THEN [duckdnsLoop EXCEPT !.stage = "update", !.now.v4 = v4]
                           ELSE Announcing!Asleep
    BY <1>3 DEF Announcing!FetchIp
  <2>9. duckdnsLoop' = [duckdnsLoop EXCEPT !.stage = "update", !.now.v4 = v4]
    BY <1>3, <2>1, AnnouncingAsleepIs
  <2>10. /\ duckdnsLoop.stage = "fetch"
         /\ UNCHANGED <<duckdnsWan, moves, duckdnsRegistered, status, duckdnsRecord, duckdnsLate,
                        last, setup, setups, touched, fresh, duckdnsTorn, overtaken>>
    BY <1>3 DEF Announcing!FetchIp, Announcing!history
  <2> DEFINE m == [duckdnsLoop.now EXCEPT !.v4 = v4]
  <2>2. duckdnsLoop \in AnnouncingLoops /\ m \in Announcing!Answers
    BY DEF Announcing!TypeOK, AnnouncingLoops, Announcing!Addresses, Announcing!Answers
  <2>3. duckdnsLoop' = [duckdnsLoop EXCEPT !.stage = "update", !.now = m]
    BY <2>9, <2>2 DEF AnnouncingLoops
  <2> HIDE DEF m
  <2>4. /\ duckdnsLoop' \in AnnouncingLoops /\ duckdnsLoop'.stage = "update"
        /\ duckdnsLoop'.todo = duckdnsLoop.todo
    BY <2>2, <2>3 DEF AnnouncingLoops
  <2>5. Announcing!TypeOK'
    BY <2>10, <2>4 DEF Announcing!TypeOK, AnnouncingLoops
  <2>6. duckdnsRegistered \ (touched \cup duckdnsLoop.todo) = {} /\ duckdnsLoop.todo # {}
    BY <2>10 DEF AnnouncingPassInv
  <2>7. AnnouncingToldInv'
    <3>1. ASSUME NEW f \in Announcing!Family, last[f] # None, ~duckdnsTorn[f]
          PROVE  AnnouncingAllHave(fresh[f], f, last[f])
      BY <2>10, <3>1 DEF AnnouncingToldInv
    <3> QED BY <2>10, <2>4, <2>6, <3>1 DEF AnnouncingToldInv, AnnouncingAllHave
  <2>8. AnnouncingPassInv'
    BY <2>10, <2>4, <2>6 DEF AnnouncingPassInv
  <2> QED BY <2>5, <2>7, <2>8
<1>4. ASSUME \/ Announcing!FetchFails
             \/ Announcing!FetchIp /\ duckdnsLoop'.stage # "update"
      PROVE  AnnouncingInv'
  <2>9. duckdnsLoop.stage = "fetch" /\ duckdnsLoop' = Announcing!Asleep
    <3>1. CASE Announcing!FetchFails
      BY <3>1 DEF Announcing!FetchFails
    <3>2. CASE Announcing!FetchIp /\ duckdnsLoop'.stage # "update"
      <4>1. PICK v4 \in {duckdnsWan.v4, Page} :
                duckdnsLoop' = IF Announcing!Changed(v4, duckdnsLoop.now.v6)
                               THEN [duckdnsLoop EXCEPT !.stage = "update", !.now.v4 = v4]
                               ELSE Announcing!Asleep
        BY <3>2 DEF Announcing!FetchIp
      <4>2. duckdnsLoop \in AnnouncingLoops
        BY DEF Announcing!TypeOK, AnnouncingLoops
      <4>3. duckdnsLoop' # [duckdnsLoop EXCEPT !.stage = "update", !.now.v4 = v4]
        BY <3>2, <4>2 DEF AnnouncingLoops
      <4> QED BY <3>2, <4>1, <4>3 DEF Announcing!FetchIp
    <3> QED BY <1>4, <3>1, <3>2
  <2>1. UNCHANGED <<duckdnsWan, moves, duckdnsRegistered, status, duckdnsRecord, duckdnsLate, last,
                    setup, setups, touched, fresh, duckdnsTorn, overtaken>>
    BY <1>4 DEF Announcing!FetchFails, Announcing!FetchIp, Announcing!history
  <2>2. Announcing!TypeOK'
    BY <2>1, <2>9, AnnouncingAsleepIs DEF Announcing!TypeOK, AnnouncingLoops
  <2>3. AnnouncingToldInv'
    BY <2>1, <2>9, AnnouncingAsleepIs DEF AnnouncingToldInv, AnnouncingAllHave
  <2>4. AnnouncingPassInv'
    BY <2>1, <2>9, AnnouncingAsleepIs DEF AnnouncingPassInv
  <2> QED BY <2>2, <2>3, <2>4
<1>5. ASSUME UNCHANGED Announcing!vars PROVE AnnouncingInv'
  <2>1. Announcing!TypeOK'
    BY <1>5 DEF Announcing!vars, Announcing!history, Announcing!TypeOK
  <2>2. AnnouncingToldInv' /\ AnnouncingPassInv'
    BY <1>5 DEF Announcing!vars, Announcing!history, AnnouncingToldInv, AnnouncingAllHave,
       AnnouncingPassInv, Announcing!Ill
  <2> QED BY <2>1, <2>2
<1> QED BY <1>1, <1>2, <1>3, <1>4, <1>5, AnnouncingRegisterStep, AnnouncingRemoveStep,
           AnnouncingAnnounceStep, AnnouncingUpdateStep, AnnouncingLandStep,
           AnnouncingEndPassStep, AnnouncingRestartStep DEF Announcing!Next

LEMMA AnnouncingTypeCorrect ==
    ASSUME Announcing!Parameters
    PROVE  Announcing!Init /\ [][Announcing!Next]_(Announcing!vars)
           => []Announcing!TypeOK
<1>1. AnnouncingInv => Announcing!TypeOK
  BY DEF AnnouncingInv
<1> QED BY <1>1, AnnouncingInvInit, AnnouncingInvStep, PTL

\* What counts as told is true of every name that was there.
LEMMA AnnouncingTold ==
    ASSUME Announcing!Parameters
    PROVE  Announcing!Init /\ [][Announcing!Next]_(Announcing!vars)
           => []Announcing!ToldIsThere
<1>1. AnnouncingInv => Announcing!ToldIsThere
  BY DEF AnnouncingInv, AnnouncingToldInv, AnnouncingAllHave, Announcing!ToldIsThere
<1> QED BY <1>1, AnnouncingInvInit, AnnouncingInvStep, PTL

LEMMA AnnouncingGone ==
    ASSUME Announcing!Parameters
    PROVE  Announcing!Init /\ [][Announcing!Next]_(Announcing!vars)
           => []Announcing!GoneIsGone
<1>1. AnnouncingInv => Announcing!GoneIsGone
  BY DEF AnnouncingInv, AnnouncingPassInv, Announcing!GoneIsGone
<1> QED BY <1>1, AnnouncingInvInit, AnnouncingInvStep, PTL

-----------------------------------------------------------------------------
(* ZoneUpdate: for any names, addresses and capacity, and every failure of *)
(* a write.                                                                *)

\* The operators of FiniteSets, by either way.
LEMMA ZoningCardinality == \A S : Zoning!Cardinality(S) = Cardinality(S)
BY DEF Zoning!Cardinality, Cardinality

ZoningPassing == [stage : {"asleep", "fetch", "update"}, now : Addr \cup {Page, None},
            todo : SUBSET Name, good : BOOLEAN]

ZoningRequest == [name : Name, text : Addr]

ZoningHolds(text) == \E n \in Name : zone = {[name |-> n, text |-> text]}

\* What a pass has written is an address and is what the zone holds; a pass that
\* is good has an address, or a name to write.
ZoningPassInv ==
    /\ IsFiniteSet(names)
    /\ zone = Site \/ \E a \in Addr : ZoningHolds(a)
    /\ told \in Addr \cup {None}
    /\ pass.stage = "fetch" => pass.todo # {} /\ pass.good
    /\ pass.stage = "update" =>
          /\ pass.now # None
          /\ pass.good => pass.todo # {} \/ pass.now \in Addr
    /\ wrote =>
          pass.stage = "update" /\ pass.now \in Addr /\ ZoningHolds(pass.now)

\* What counts as told is what the zone holds, until a pass writes.
ZoningToldInv == told # None /\ ~zoneTorn /\ ~wrote => ZoningHolds(told)

ZoningInv == Zoning!TypeOK /\ ZoningPassInv /\ ZoningToldInv

LEMMA ZoningInvInit == ASSUME Zoning!Parameters PROVE Zoning!Init => ZoningInv
<1> SUFFICES ASSUME Zoning!Init PROVE ZoningInv
  OBVIOUS
<1>1. /\ address \in Addr /\ names = {} /\ zone = Site /\ told = None
      /\ pass = Zoning!Asleep /\ wrote = FALSE /\ zoneTorn = FALSE
      /\ zoneLate \in [1..MaxLate -> ZoningRequest \cup {None}]
  BY DEF Zoning!Init
<1>2. Zoning!Asleep \in ZoningPassing /\ Zoning!Asleep.stage = "asleep"
  <2>1. TRUE \in BOOLEAN
    BY Zenon
  <2> QED BY <2>1 DEF Zoning!Asleep, ZoningPassing
<1>3. IsFiniteSet(names) /\ Cardinality(names) <= Capacity
  BY <1>1, FS_EmptySet DEF Zoning!Parameters
<1>4. zoneTorn \in BOOLEAN /\ wrote \in BOOLEAN
  BY <1>1, Zenon
<1>5. Zoning!TypeOK
  BY <1>1, <1>2, <1>3, <1>4, ZoningCardinality
     DEF Zoning!TypeOK, ZoningPassing, ZoningRequest
<1> QED BY <1>1, <1>2, <1>3, <1>5 DEF ZoningInv, ZoningPassInv, ZoningToldInv

\* One name more or less.
LEMMA ZoningNamesMove ==
    ASSUME Zoning!Parameters, Zoning!TypeOK, ZoningPassInv, NEW n \in Name
    PROVE  /\ Zoning!Register(n) => names' \subseteq Name /\ IsFiniteSet(names')
                             /\ Cardinality(names') <= Capacity
           /\ Zoning!Remove(n) => names' \subseteq Name /\ IsFiniteSet(names')
                           /\ Cardinality(names') <= Capacity
<1>1. IsFiniteSet(names) /\ Cardinality(names) <= Capacity /\ Cardinality(names) \in Nat
      /\ names \subseteq Name
  BY FS_CardinalityType, ZoningCardinality DEF ZoningPassInv, Zoning!TypeOK
<1>2. ASSUME Zoning!Register(n)
      PROVE  names' \subseteq Name /\ IsFiniteSet(names')
              /\ Cardinality(names') <= Capacity
  <2>1. names' = names \cup {n} /\ (n \in names \/ Cardinality(names) < Capacity)
    BY <1>2, ZoningCardinality DEF Zoning!Register
  <2>2. CASE n \in names
    <3>1. names' = names
      BY <2>1, <2>2
    <3> QED BY <1>1, <3>1
  <2>3. CASE n \notin names
    <3>1. IsFiniteSet(names') /\ Cardinality(names') = Cardinality(names) + 1
      BY <1>1, <2>1, <2>3, FS_AddElement
    <3> QED BY <1>1, <2>1, <2>3, <3>1 DEF Zoning!Parameters
  <2> QED BY <2>2, <2>3
<1>3. ASSUME Zoning!Remove(n)
      PROVE  names' \subseteq Name /\ IsFiniteSet(names')
              /\ Cardinality(names') <= Capacity
  <2>1. names' = names \ {n} /\ n \in names
    BY <1>3 DEF Zoning!Remove
  <2>2. IsFiniteSet(names') /\ Cardinality(names') = Cardinality(names) - 1
    BY <1>1, <2>1, FS_RemoveElement
  <2> QED BY <1>1, <2>1, <2>2 DEF Zoning!Parameters
<1> QED BY <1>2, <1>3

LEMMA ZoningInvStep ==
    ASSUME Zoning!Parameters
    PROVE  ZoningInv /\ [Zoning!Next]_(Zoning!vars) => ZoningInv'
<1> SUFFICES ASSUME ZoningInv, [Zoning!Next]_(Zoning!vars) PROVE ZoningInv'
  OBVIOUS
<1> USE DEF ZoningInv
<1>0. Zoning!Asleep \in ZoningPassing /\ Zoning!Asleep.stage = "asleep"
  <2>1. TRUE \in BOOLEAN
    BY Zenon
  <2> QED BY <2>1 DEF Zoning!Asleep, ZoningPassing
<1>1. ASSUME Zoning!Move PROVE ZoningInv'
  <2>1. address' \in Addr
         /\ UNCHANGED <<names, zone, zoneLate, told, pass, wrote, zoneTorn>>
    BY <1>1 DEF Zoning!Move
  <2> QED BY <2>1 DEF Zoning!TypeOK, ZoningPassInv, ZoningToldInv, ZoningHolds
<1>2. ASSUME NEW n \in Name, Zoning!Register(n) \/ Zoning!Remove(n) PROVE ZoningInv'
  <2>1. UNCHANGED <<address, zone, zoneLate, told, pass, wrote, zoneTorn>>
    BY <1>2 DEF Zoning!Register, Zoning!Remove
  <2>2. names' \subseteq Name /\ IsFiniteSet(names') /\ Cardinality(names') <= Capacity
    BY <1>2, ZoningNamesMove
  <2>3. Zoning!TypeOK'
    BY <2>1, <2>2, ZoningCardinality DEF Zoning!TypeOK
  <2> QED BY <2>1, <2>2, <2>3 DEF ZoningPassInv, ZoningToldInv, ZoningHolds
<1>3. ASSUME Zoning!StartPass PROVE ZoningInv'
  <2>1. /\ pass.stage = "asleep" /\ names # {}
        /\ pass' = [stage |-> "fetch", now |-> None, todo |-> names, good |-> TRUE]
        /\ UNCHANGED <<address, names, zone, zoneLate, told, wrote, zoneTorn>>
    BY <1>3 DEF Zoning!StartPass
  <2>2. pass' \in ZoningPassing
    <3>1. TRUE \in BOOLEAN
      BY Zenon
    <3> QED BY <2>1, <3>1 DEF ZoningPassing, Zoning!TypeOK
  <2>3. pass'.stage = "fetch" /\ pass'.todo # {} /\ pass'.good
    BY <2>1
  <2>4. Zoning!TypeOK'
    BY <2>1, <2>2 DEF Zoning!TypeOK, ZoningPassing
  <2> QED BY <2>1, <2>3, <2>4 DEF ZoningPassInv, ZoningToldInv, ZoningHolds
<1>4. ASSUME Zoning!Fetch PROVE ZoningInv'
  <2>1. /\ pass.stage = "fetch"
        /\ UNCHANGED <<address, names, zone, zoneLate, told, wrote, zoneTorn>>
    BY <1>4 DEF Zoning!Fetch
  <2>2. PICK page \in {address, Page, None} :
          pass' = IF page \in {None, told} THEN Zoning!Asleep
                  ELSE [pass EXCEPT !.stage = "update", !.now = page]
    BY <1>4 DEF Zoning!Fetch
  <2>3. CASE page \in {None, told}
    <3>1. pass' = Zoning!Asleep
      BY <2>2, <2>3
    <3>2. Zoning!TypeOK'
      BY <2>1, <3>1, <1>0 DEF Zoning!TypeOK, ZoningPassing
    <3> QED BY <2>1, <3>1, <3>2, <1>0 DEF ZoningPassInv, ZoningToldInv, ZoningHolds
  <2>4. CASE page \notin {None, told}
    <3>1. pass' = [pass EXCEPT !.stage = "update", !.now = page] /\ pass \in ZoningPassing
      BY <2>2, <2>4 DEF Zoning!TypeOK, ZoningPassing
    <3>2. /\ pass'.stage = "update" /\ pass'.now = page /\ pass'.todo = pass.todo
          /\ pass'.good = pass.good
      BY <3>1 DEF ZoningPassing
    <3>3. page \in Addr \cup {Page, None}
      BY DEF Zoning!TypeOK
    <3>4. pass' \in ZoningPassing
      BY <3>1, <3>3 DEF ZoningPassing
    <3>5. Zoning!TypeOK'
      BY <2>1, <3>4 DEF Zoning!TypeOK, ZoningPassing
    <3> QED BY <2>1, <2>4, <3>2, <3>5 DEF ZoningPassInv, ZoningToldInv, ZoningHolds
  <2> QED BY <2>3, <2>4
<1>5. ASSUME NEW n \in Name, Zoning!Update(n) PROVE ZoningInv'
  <2>1. PICK taken \in BOOLEAN, good \in BOOLEAN :
          /\ good => taken
          /\ taken => Zoning!ValidIpv6(pass.now)
          /\ zone' = IF taken THEN {[name |-> n, text |-> pass.now]} ELSE zone
          /\ wrote' = (wrote \/ taken)
          /\ pass' = [pass EXCEPT !.todo = pass.todo \ {n}, !.good = pass.good /\ good]
          /\ \/ UNCHANGED zoneLate
             \/ /\ Zoning!ValidIpv6(pass.now)
                /\ \E i \in 1..MaxLate :
                      zoneLate' = [zoneLate EXCEPT ![i] = [name |-> n, text |-> pass.now]]
    BY <1>5 DEF Zoning!Update
  <2>2. /\ pass.stage = "update" /\ n \in pass.todo
        /\ UNCHANGED <<address, names, told, zoneTorn>>
    BY <1>5 DEF Zoning!Update, Zoning!TypeOK
  <2>9. zoneLate' \in [1..MaxLate -> ZoningRequest \cup {None}]
    <3>1. CASE UNCHANGED zoneLate
      BY <3>1 DEF Zoning!TypeOK, ZoningRequest
    <3>2. CASE ~UNCHANGED zoneLate
      <4>1. [name |-> n, text |-> pass.now] \in ZoningRequest
        BY <2>1, <3>2 DEF Zoning!ValidIpv6, ZoningRequest
      <4>2. zoneLate \in [1..MaxLate -> ZoningRequest \cup {None}]
        BY DEF Zoning!TypeOK, ZoningRequest
      <4> QED BY <2>1, <3>2, <4>1, <4>2
    <3> QED BY <3>1, <3>2
  <2>10. wrote' \in BOOLEAN
    BY <2>1, Zenon
  <2>3. pass \in ZoningPassing
    BY DEF Zoning!TypeOK, ZoningPassing
  <2>4. (pass.good /\ good) \in BOOLEAN
    BY Zenon
  <2>5. pass' \in ZoningPassing
    BY <2>1, <2>3, <2>4 DEF ZoningPassing
  <2>6. /\ pass'.stage = "update" /\ pass'.now = pass.now
        /\ pass'.good <=> pass.good /\ good
    BY <2>1, <2>2, <2>3 DEF ZoningPassing
  <2>7. CASE taken
    <3>1. pass.now \in Addr /\ zone' = {[name |-> n, text |-> pass.now]}
          /\ wrote'
      BY <2>1, <2>7 DEF Zoning!ValidIpv6
    <3>2. Zoning!TypeOK'
      BY <2>2, <2>5, <2>9, <2>10, <3>1 DEF Zoning!TypeOK, ZoningPassing, ZoningRequest
    <3>3. ZoningHolds(pass.now)'
      BY <2>6, <3>1 DEF ZoningHolds
    <3>4. ZoningPassInv'
      <4>1. \E a \in Addr : ZoningHolds(a)'
        BY <3>1 DEF ZoningHolds
      <4> QED BY <2>2, <2>6, <3>1, <3>3, <4>1 DEF ZoningPassInv
    <3>5. ZoningToldInv'
      BY <2>6, <3>1 DEF ZoningToldInv
    <3> QED BY <3>2, <3>4, <3>5
  <2>8. CASE ~taken
    <3>1. zone' = zone /\ (wrote' <=> wrote) /\ ~good
      BY <2>1, <2>8
    <3>2. Zoning!TypeOK'
      BY <2>2, <2>5, <2>9, <2>10, <3>1 DEF Zoning!TypeOK, ZoningPassing, ZoningRequest
    <3>3. ZoningPassInv'
      BY <2>2, <2>6, <3>1 DEF ZoningPassInv, ZoningHolds
    <3>4. ZoningToldInv'
      BY <2>2, <2>6, <3>1 DEF ZoningToldInv, ZoningHolds
    <3> QED BY <3>2, <3>3, <3>4
  <2> QED BY <2>7, <2>8
<1>6. ASSUME Zoning!EndPass PROVE ZoningInv'
  <2>1. /\ pass.stage = "update" /\ pass.todo = {} /\ pass' = Zoning!Asleep
        /\ told' = IF pass.good THEN pass.now ELSE told
        /\ zoneTorn' = Zoning!Torn /\ wrote' = FALSE
        /\ UNCHANGED <<address, names, zone, zoneLate>>
    BY <1>6 DEF Zoning!EndPass
  <2>2. zoneTorn' \in BOOLEAN /\ wrote' \in BOOLEAN
    <3>1. Zoning!Torn \in BOOLEAN
      <4>1. CASE pass.good
        BY <4>1, Zenon DEF Zoning!Torn
      <4>2. CASE ~pass.good
        BY <4>2, Zenon DEF Zoning!Torn
      <4> QED BY <4>1, <4>2
    <3> QED BY <2>1, <3>1, Zenon
  <2>3. /\ pass.good => pass.now \in Addr
        /\ wrote => ZoningHolds(pass.now)
    BY <2>1 DEF ZoningPassInv
  <2>4. told' \in Addr \cup {None}
    BY <2>1, <2>3 DEF ZoningPassInv
  <2>5. Zoning!TypeOK'
    BY <2>1, <2>2, <2>4, <1>0 DEF Zoning!TypeOK, ZoningPassing
  <2>6. ZoningPassInv'
    BY <2>1, <2>4, <1>0 DEF ZoningPassInv, ZoningHolds
  <2>7. ASSUME told' # None, ~zoneTorn' PROVE ZoningHolds(told')
    <3>1. CASE pass.good
      BY <2>1, <2>3, <2>7, <3>1 DEF Zoning!Torn
    <3>2. CASE ~pass.good
      <4>1. told' = told /\ ~zoneTorn /\ (~wrote \/ told = pass.now)
        BY <2>1, <2>7, <3>2 DEF Zoning!Torn
      <4>2. CASE ~wrote
        BY <2>7, <4>1, <4>2 DEF ZoningToldInv
      <4>3. CASE wrote /\ told = pass.now
        BY <2>3, <4>1, <4>3
      <4> QED BY <4>1, <4>2, <4>3
    <3> QED BY <3>1, <3>2
  <2>8. ZoningToldInv'
    BY <2>1, <2>7 DEF ZoningToldInv, ZoningHolds
  <2> QED BY <2>5, <2>6, <2>8
<1>7. ASSUME Zoning!Restart PROVE ZoningInv'
  <2>1. /\ names' = {} /\ told' = None /\ pass' = Zoning!Asleep
        /\ wrote' = FALSE /\ zoneTorn' = FALSE /\ UNCHANGED <<address, zone, zoneLate>>
    BY <1>7 DEF Zoning!Restart
  <2>2. IsFiniteSet(names') /\ Cardinality(names') <= Capacity
    BY <2>1, FS_EmptySet DEF Zoning!Parameters
  <2>3. zoneTorn' \in BOOLEAN /\ wrote' \in BOOLEAN
    BY <2>1, Zenon
  <2>4. Zoning!TypeOK'
    BY <2>1, <2>2, <2>3, <1>0, ZoningCardinality DEF Zoning!TypeOK, ZoningPassing
  <2> QED BY <2>1, <2>2, <2>4, <1>0 DEF ZoningPassInv, ZoningToldInv, ZoningHolds
<1>8. ASSUME UNCHANGED Zoning!vars PROVE ZoningInv'
  BY <1>8 DEF Zoning!vars, Zoning!TypeOK, ZoningPassInv, ZoningToldInv, ZoningHolds
<1>9. ASSUME NEW i \in 1..MaxLate, Zoning!Land(i) PROVE ZoningInv'
  <2>1. /\ zoneLate[i] # None /\ zone' = {zoneLate[i]}
        /\ zoneLate' = [zoneLate EXCEPT ![i] = None]
        /\ wrote' = FALSE /\ zoneTorn' = TRUE
        /\ UNCHANGED <<address, names, told, pass>>
    BY <1>9 DEF Zoning!Land
  <2>2. zoneLate \in [1..MaxLate -> ZoningRequest \cup {None}]
    BY DEF Zoning!TypeOK, ZoningRequest
  <2>3. PICK n \in Name, a \in Addr : zoneLate[i] = [name |-> n, text |-> a]
    BY <2>1, <2>2 DEF ZoningRequest
  <2>4. zoneTorn' \in BOOLEAN /\ wrote' \in BOOLEAN
    BY <2>1, Zenon
  <2>5. zone' \subseteq [name : Name, text : Addr \cup {Page}]
        /\ zoneLate' \in [1..MaxLate -> ZoningRequest \cup {None}]
    BY <2>1, <2>2, <2>3
  <2>6. Zoning!TypeOK'
    BY <2>1, <2>4, <2>5 DEF Zoning!TypeOK, ZoningRequest
  <2>7. \E b \in Addr : ZoningHolds(b)'
    BY <2>1, <2>3 DEF ZoningHolds
  <2>8. ZoningPassInv' /\ ZoningToldInv'
    BY <2>1, <2>7 DEF ZoningPassInv, ZoningToldInv
  <2> QED BY <2>6, <2>8
<1> QED BY <1>1, <1>2, <1>3, <1>4, <1>5, <1>6, <1>7, <1>8, <1>9 DEF Zoning!Next

LEMMA ZoningTypeCorrect ==
    ASSUME Zoning!Parameters
    PROVE  Zoning!Init /\ [][Zoning!Next]_(Zoning!vars) => []Zoning!TypeOK
<1>1. ZoningInv => Zoning!TypeOK
  BY DEF ZoningInv
<1> QED BY <1>1, ZoningInvInit, ZoningInvStep, PTL

\* An answer that is no address gets no further than the pass.
LEMMA ZoningAddressesOnly ==
    ASSUME Zoning!Parameters
    PROVE  Zoning!Init /\ [][Zoning!Next]_(Zoning!vars) => []Zoning!OnlyAddresses
<1>1. ZoningInv => Zoning!OnlyAddresses
  BY DEF ZoningInv, ZoningPassInv, ZoningHolds, Zoning!OnlyAddresses, Zoning!Parameters
<1> QED BY <1>1, ZoningInvInit, ZoningInvStep, PTL

\* A pass counts as told only what its last write put there.
LEMMA ZoningInZone ==
    ASSUME Zoning!Parameters
    PROVE  Zoning!Init /\ [][Zoning!Next]_(Zoning!vars) => []Zoning!ToldInZone
<1>1. ZoningInv => Zoning!ToldInZone
  BY DEF ZoningInv, ZoningPassInv, ZoningToldInv, ZoningHolds, Zoning!ToldInZone
<1> QED BY <1>1, ZoningInvInit, ZoningInvStep, PTL

-----------------------------------------------------------------------------
(* AddressLoop: for any addresses, interval, timeout and limit.            *)

\* How long ago the last pass began, at most: a request lasts no longer than
\* Timeout, a nap that is not frugal no longer than Base.
TellingAliveInv ==
    /\ since = None <=> ddnsLoop.stage = "off"
    /\ ddnsLoop.stage = "begin" => ddnsLoop.left = 0
    /\ ddnsLoop.stage = "fetch" => since + ddnsLoop.left <= Timeout
    /\ ddnsLoop.stage = "update" => since + ddnsLoop.left <= 2 * Timeout
    /\ ddnsLoop.stage \in {"asleep", "begin"} /\ ~frugal =>
          since + ddnsLoop.left <= Base + 2 * Timeout

\* How long the address has not counted as told, at most: an address other than the
\* machine's is on its way only since a change or an ill answer. What counts as told
\* and what is the record part only in a way that torn records.
TellingTimeInv ==
    /\ lastIp # None /\ ~ddnsTorn => ddnsRecord = lastIp
    /\ lastIp = ddnsWan => stale = 0
    /\ ddnsLoop.stage \in {"asleep", "begin"} =>
          ddnsLoop.left <= 3 * Base /\ stale + ddnsLoop.left <= 3 * Base + Timeout
    /\ ddnsLoop.stage = "fetch" =>
          ddnsLoop.left <= Timeout /\ stale + ddnsLoop.left <= 3 * Base + 2 * Timeout
    /\ ddnsLoop.stage = "update" =>
          /\ ddnsLoop.left <= Timeout /\ stale + ddnsLoop.left <= 3 * Base + 3 * Timeout
          /\ ddnsLoop.ip # ddnsWan => stale + ddnsLoop.left <= Timeout
    /\ ddnsLoop.stage = "off" => stale = 0

TellingInv == Telling!TypeOK /\ TellingAliveInv /\ TellingTimeInv

LEMMA TellingInvInit == ASSUME Telling!Parameters PROVE Telling!Init => TellingInv
<1> SUFFICES ASSUME Telling!Init PROVE TellingInv
  OBVIOUS
<1>1. /\ \/ ddnsLoop = [stage |-> "begin", left |-> 0, ip |-> None] /\ since = 0
         \/ ddnsLoop = [stage |-> "off", left |-> 0, ip |-> None] /\ since = None
      /\ ddnsWan \in Addr /\ ddnsRecord = None /\ flags \subseteq Telling!Flag
      /\ lastIp = None /\ ddnsLate \in [1..MaxLate -> Addr \cup {None}]
      /\ stale = 0
  BY DEF Telling!Init
<1>2. frugal = FALSE /\ ddnsTorn = FALSE
  BY DEF Telling!Init
<1>3. Telling!TypeOK
  <2>1. frugal \in BOOLEAN /\ ddnsTorn \in BOOLEAN
    BY <1>2, Zenon
  <2>2. /\ ddnsLoop \in [stage : {"off", "asleep", "begin", "fetch", "update"}, left : Nat,
                     ip : Addr \cup {Page, None}]
        /\ since \in Nat \cup {None} /\ stale \in Nat
    BY <1>1
  <2> QED BY <1>1, <2>1, <2>2 DEF Telling!TypeOK
<1>0. Base \in Nat /\ Timeout \in Nat /\ 0 # None
  BY DEF Telling!Parameters
<1>4. TellingAliveInv
  <2>1. CASE ddnsLoop = [stage |-> "begin", left |-> 0, ip |-> None] /\ since = 0
    BY <2>1, <1>0 DEF TellingAliveInv
  <2>2. CASE ddnsLoop = [stage |-> "off", left |-> 0, ip |-> None] /\ since = None
    BY <2>2 DEF TellingAliveInv
  <2> QED BY <1>1, <2>1, <2>2
<1>5. TellingTimeInv
  BY <1>0, <1>1, <1>2 DEF TellingTimeInv, Telling!Parameters
<1> QED BY <1>3, <1>4, <1>5 DEF TellingInv

LEMMA TellingNapIs ==
    ASSUME Telling!Parameters, NEW f \in SUBSET Telling!Flag
    PROVE  /\ Telling!Nap(f) \in Nat /\ Telling!Nap(f) <= 3 * Base
           /\ ~("power_save" \in f /\ "always_on" \notin f) => Telling!Nap(f) <= Base
BY DEF Telling!Parameters, Telling!Nap

\* What a nap that begins puts in place of a request.
LEMMA TellingSleepMoves ==
    ASSUME Telling!Parameters, Telling!TypeOK, Telling!Sleep
    PROVE  /\ ddnsLoop'.stage = "asleep" /\ ddnsLoop'.left \in Nat
           /\ ddnsLoop' \in [stage : {"off", "asleep", "begin", "fetch", "update"}, left : Nat,
                         ip : Addr \cup {Page, None}]
           /\ ddnsLoop'.left <= 3 * Base /\ frugal' \in BOOLEAN
           /\ ~frugal' => ddnsLoop'.left <= Base
<1>1. /\ ddnsLoop' = [stage |-> "asleep", left |-> Telling!Nap(flags), ip |-> None]
      /\ frugal' = ("power_save" \in flags /\ "always_on" \notin flags)
  BY DEF Telling!Sleep
<1>2. /\ Telling!Nap(flags) \in Nat /\ Telling!Nap(flags) <= 3 * Base
      /\ ~("power_save" \in flags /\ "always_on" \notin flags)
            => Telling!Nap(flags) <= Base
  BY TellingNapIs DEF Telling!TypeOK
<1>3. frugal' \in BOOLEAN
  BY <1>1, Zenon
<1>4. ~frugal' => Telling!Nap(flags) <= Base
  BY <1>1, <1>2
<1>5. ddnsLoop'.stage = "asleep" /\ ddnsLoop'.left = Telling!Nap(flags)
  BY <1>1
<1> QED BY <1>1, <1>2, <1>3, <1>4, <1>5

LEMMA TellingInvStep ==
    ASSUME Telling!Parameters
    PROVE  TellingInv /\ [Telling!Next]_(Telling!vars) => TellingInv'
<1> SUFFICES ASSUME TellingInv, [Telling!Next]_(Telling!vars) PROVE TellingInv'
  OBVIOUS
<1> USE DEF TellingInv
<1>1. ASSUME Telling!Move PROVE TellingInv'
  <2>1. /\ ddnsWan' \in Addr /\ stale' = 0
        /\ UNCHANGED <<ddnsRecord, ddnsLate, flags, lastIp, ddnsLoop, since, frugal, ddnsTorn>>
    BY <1>1 DEF Telling!Move
  <2>2. Telling!TypeOK'
    BY <2>1 DEF Telling!TypeOK
  <2>3. TellingAliveInv'
    BY <2>1 DEF TellingAliveInv
  <2>4. TellingTimeInv'
    BY <2>1 DEF TellingTimeInv, Telling!TypeOK, Telling!Parameters
  <2> QED BY <2>2, <2>3, <2>4
<1>2. ASSUME Telling!SetPowerProfile PROVE TellingInv'
  BY <1>2 DEF Telling!SetPowerProfile, Telling!TypeOK, TellingAliveInv, TellingTimeInv
<1>3. ASSUME Telling!Begin PROVE TellingInv'
  <2>1. /\ ddnsLoop.stage = "begin" /\ since' = 0
        /\ ddnsLoop' = [stage |-> "fetch", left |-> Timeout, ip |-> None]
        /\ UNCHANGED <<ddnsWan, ddnsRecord, ddnsLate, flags, lastIp, frugal, stale, ddnsTorn>>
    BY <1>3 DEF Telling!Begin
  <2>2. Telling!TypeOK'
    BY <2>1 DEF Telling!TypeOK, Telling!Parameters
  <2>3. TellingAliveInv'
    BY <2>1 DEF TellingAliveInv, Telling!Parameters
  <2>4. TellingTimeInv'
    BY <2>1 DEF TellingTimeInv, Telling!Parameters, Telling!TypeOK
  <2> QED BY <2>2, <2>3, <2>4
<1>4. ASSUME NEW ip \in {ddnsWan, Page}, ddnsLoop.stage = "fetch",
             stale' = (IF ip = ddnsWan THEN stale ELSE 0), ip # lastIp,
             ddnsLoop' = [stage |-> "update", left |-> Timeout, ip |-> ip],
             UNCHANGED <<ddnsWan, ddnsRecord, ddnsLate, flags, lastIp, since, frugal, ddnsTorn>>
      PROVE  TellingInv'
  <2>1. ip \in Addr \cup {Page, None} /\ Timeout \in Nat /\ Base \in Nat /\ stale' \in Nat
    BY <1>4 DEF Telling!TypeOK, Telling!Parameters
  <2>2. Telling!TypeOK'
    BY <1>4, <2>1 DEF Telling!TypeOK
  <2>3. TellingAliveInv'
    BY <1>4 DEF TellingAliveInv, Telling!TypeOK, Telling!Parameters
  <2>4. stale <= 3 * Base + 2 * Timeout /\ (stale' = stale \/ stale' = 0)
        /\ (ip # ddnsWan => stale' = 0) /\ (lastIp = ddnsWan => stale' = 0)
    BY <1>4, <2>1 DEF TellingTimeInv, Telling!TypeOK
  <2>5. TellingTimeInv'
    BY <1>4, <2>1, <2>4 DEF TellingTimeInv, Telling!TypeOK
  <2> QED BY <2>2, <2>3, <2>5
<1>5. ASSUME NEW ip \in {ddnsWan, Page}, ddnsLoop.stage = "fetch", Telling!Sleep,
             stale' = (IF ip = ddnsWan THEN stale ELSE 0), ip = lastIp,
             UNCHANGED <<ddnsWan, ddnsRecord, ddnsLate, flags, lastIp, since, ddnsTorn>>
      PROVE  TellingInv'
  <2>1. stale' = 0
    BY <1>5 DEF TellingTimeInv
  <2>2. Telling!TypeOK'
    BY <1>5, <2>1, TellingSleepMoves DEF Telling!TypeOK
  <2>3. TellingAliveInv'
    BY <1>5, TellingSleepMoves DEF TellingAliveInv, Telling!TypeOK, Telling!Parameters
  <2>4. TellingTimeInv'
    BY <1>5, <2>1, TellingSleepMoves DEF TellingTimeInv, Telling!TypeOK,
       Telling!Parameters
  <2> QED BY <2>2, <2>3, <2>4
<1>6. ASSUME Telling!Fails PROVE TellingInv'
  <2>1. /\ ddnsLoop.stage \in {"fetch", "update"} /\ Telling!Sleep /\ stale' = 0
        /\ UNCHANGED <<ddnsWan, flags, lastIp, since>>
    BY <1>6 DEF Telling!Fails
  <2>2. /\ ddnsRecord' \in Addr \cup {None} /\ ddnsTorn' \in BOOLEAN
        /\ ddnsLate' \in [1..MaxLate -> Addr \cup {None}]
        /\ ~ddnsTorn' => ddnsRecord' = ddnsRecord /\ ~ddnsTorn
    <3>1. CASE UNCHANGED <<ddnsRecord, ddnsLate, ddnsTorn>>
      BY <3>1 DEF Telling!TypeOK
    <3>2. CASE ddnsLoop.ip \in Addr /\ ddnsRecord' = ddnsLoop.ip /\ ddnsTorn' = TRUE
               /\ UNCHANGED ddnsLate
      BY <3>2 DEF Telling!TypeOK
    <3>3. CASE /\ ddnsLoop.ip \in Addr /\ UNCHANGED <<ddnsRecord, ddnsTorn>>
               /\ \E i \in 1..MaxLate : ddnsLate' = [ddnsLate EXCEPT ![i] = ddnsLoop.ip]
      BY <3>3 DEF Telling!TypeOK
    <3> QED BY <1>6, <3>1, <3>2, <3>3 DEF Telling!Fails
  <2>3. Telling!TypeOK'
    BY <2>1, <2>2, TellingSleepMoves DEF Telling!TypeOK
  <2>4. TellingAliveInv'
    BY <2>1, TellingSleepMoves DEF TellingAliveInv, Telling!TypeOK, Telling!Parameters
  <2>5. TellingTimeInv'
    BY <2>1, <2>2, TellingSleepMoves DEF TellingTimeInv, Telling!TypeOK, Telling!Parameters
  <2> QED BY <2>3, <2>4, <2>5
<1>7. ASSUME Telling!Updated PROVE TellingInv'
  <2>1. /\ ddnsLoop.stage = "update" /\ Telling!Sleep /\ lastIp' = ddnsLoop.ip
        /\ stale' = IF ddnsLoop.ip = ddnsWan THEN 0 ELSE stale
        /\ UNCHANGED <<ddnsWan, ddnsLate, flags, since>>
    BY <1>7 DEF Telling!Updated
  <2>2. /\ ddnsRecord' \in Addr \cup {None} /\ ddnsTorn' \in BOOLEAN
        /\ ~ddnsTorn' => ddnsRecord' = ddnsLoop.ip
    <3>1. PICK taken \in BOOLEAN :
             /\ taken => ddnsLoop.ip \in Addr
             /\ ddnsRecord' = IF taken THEN ddnsLoop.ip ELSE ddnsRecord
             /\ ddnsTorn' = ~taken
      BY <1>7, Zenon DEF Telling!Updated
    <3>2. ddnsRecord' \in Addr \cup {None}
      BY <3>1 DEF Telling!TypeOK
    <3>3. ddnsTorn' \in BOOLEAN /\ (~ddnsTorn' => ddnsRecord' = ddnsLoop.ip)
      BY <3>1, Zenon
    <3> QED BY <3>2, <3>3
  <2>3. stale' \in Nat /\ stale' <= Timeout /\ (ddnsLoop.ip = ddnsWan => stale' = 0)
    BY <2>1 DEF TellingTimeInv, Telling!TypeOK, Telling!Parameters
  <2>4. Telling!TypeOK'
    BY <2>1, <2>2, <2>3, TellingSleepMoves DEF Telling!TypeOK
  <2>5. TellingAliveInv'
    BY <2>1, TellingSleepMoves DEF TellingAliveInv, Telling!TypeOK, Telling!Parameters
  <2>6. TellingTimeInv'
    BY <2>1, <2>2, <2>3, TellingSleepMoves DEF TellingTimeInv, Telling!TypeOK,
       Telling!Parameters
  <2> QED BY <2>4, <2>5, <2>6
<1>8. ASSUME Telling!Tick, ddnsLoop.stage # "off" PROVE TellingInv'
  <2>1. /\ ddnsLoop.left > 0 /\ ddnsLoop.left \in Nat /\ since \in Nat
        /\ ddnsLoop' = [ddnsLoop EXCEPT !.left = ddnsLoop.left - 1]
        /\ since' = since + 1
        /\ stale' = IF lastIp = ddnsWan THEN 0 ELSE stale + 1
        /\ UNCHANGED <<ddnsWan, ddnsRecord, ddnsLate, flags, lastIp, frugal, ddnsTorn>>
    BY <1>8 DEF Telling!Tick, TellingAliveInv, Telling!TypeOK
  <2>2. ddnsLoop'.stage = ddnsLoop.stage /\ ddnsLoop'.left = ddnsLoop.left - 1
         /\ ddnsLoop'.left \in Nat
    BY <2>1 DEF Telling!TypeOK
  <2>3. Telling!TypeOK'
    BY <2>1 DEF Telling!TypeOK
  <2>4. TellingAliveInv'
    BY <2>1, <2>2, <1>8 DEF TellingAliveInv, Telling!TypeOK, Telling!Parameters
  <2>5. stale' \in {0, stale + 1} /\ (lastIp = ddnsWan => stale' = 0)
        /\ ddnsLoop'.ip = ddnsLoop.ip
    BY <2>1 DEF Telling!TypeOK
  <2>6. TellingTimeInv'
    <3>1. /\ stale \in Nat /\ stale' \in Nat /\ Base \in Nat /\ Timeout \in Nat
          /\ stale' + ddnsLoop'.left <= stale + ddnsLoop.left
          /\ ddnsLoop'.left <= ddnsLoop.left
      BY <2>1, <2>2, <2>5 DEF Telling!TypeOK, Telling!Parameters
    <3> QED BY <2>1, <2>2, <2>5, <3>1, <1>8 DEF TellingTimeInv
  <2> QED BY <2>3, <2>4, <2>6
<1>9. ASSUME Telling!Tick, ddnsLoop.stage = "off" PROVE TellingInv'
  <2>1. /\ ddnsLoop' = ddnsLoop /\ since = None /\ since' = None /\ stale' = 0
        /\ UNCHANGED <<ddnsWan, ddnsRecord, ddnsLate, flags, lastIp, frugal, ddnsTorn>>
    BY <1>9 DEF Telling!Tick, TellingAliveInv
  <2> QED BY <2>1, <1>9 DEF Telling!TypeOK, TellingAliveInv, TellingTimeInv
<1>10. ASSUME Telling!Wake PROVE TellingInv'
  <2>1. /\ ddnsLoop.stage = "asleep" /\ ddnsLoop.left = 0
        /\ ddnsLoop' = [ddnsLoop EXCEPT !.stage = "begin"]
        /\ UNCHANGED <<ddnsWan, ddnsRecord, ddnsLate, flags, lastIp, since, frugal, stale,
                       ddnsTorn>>
    BY <1>10 DEF Telling!Wake
  <2>2. ddnsLoop'.stage = "begin" /\ ddnsLoop'.left = 0
    BY <2>1 DEF Telling!TypeOK
  <2>3. Telling!TypeOK'
    BY <2>1 DEF Telling!TypeOK
  <2>4. TellingAliveInv'
    BY <2>1, <2>2 DEF TellingAliveInv
  <2>5. TellingTimeInv'
    BY <2>1, <2>2 DEF TellingTimeInv
  <2> QED BY <2>3, <2>4, <2>5
<1>11. ASSUME NEW i \in 1..MaxLate, Telling!Land(i) PROVE TellingInv'
  <2>1. /\ ddnsLate[i] # None /\ ddnsRecord' = ddnsLate[i] /\ ddnsTorn' = TRUE
        /\ ddnsLate' = [ddnsLate EXCEPT ![i] = None]
        /\ UNCHANGED <<ddnsWan, flags, lastIp, ddnsLoop, since, frugal, stale>>
    BY <1>11 DEF Telling!Land
  <2>2. ddnsRecord' \in Addr /\ ddnsLate' \in [1..MaxLate -> Addr \cup {None}]
    BY <2>1 DEF Telling!TypeOK
  <2>3. Telling!TypeOK'
    BY <2>1, <2>2 DEF Telling!TypeOK
  <2>4. TellingAliveInv' /\ TellingTimeInv'
    BY <2>1 DEF TellingAliveInv, TellingTimeInv
  <2> QED BY <2>3, <2>4
<1>12. ASSUME UNCHANGED Telling!vars PROVE TellingInv'
  BY <1>12 DEF Telling!vars, Telling!TypeOK, TellingAliveInv, TellingTimeInv
<1>13. ASSUME Telling!Fetched PROVE TellingInv'
  BY <1>4, <1>5, <1>13 DEF Telling!Fetched
<1> QED BY <1>1, <1>2, <1>3, <1>6, <1>7, <1>8, <1>9, <1>10, <1>11, <1>12, <1>13
           DEF Telling!Next

LEMMA TellingTypeCorrect ==
    ASSUME Telling!Parameters
    PROVE  Telling!Init /\ [][Telling!Next]_(Telling!vars) => []Telling!TypeOK
<1>1. TellingInv => Telling!TypeOK
  BY DEF TellingInv
<1> QED BY <1>1, TellingInvInit, TellingInvStep, PTL

\* Only a frugal nap is longer than the health page waits.
LEMMA TellingLooksAlive ==
    ASSUME Telling!Parameters
    PROVE  Telling!Init /\ [][Telling!Next]_(Telling!vars) => []Telling!AliveLooksAlive
<1>1. TellingInv => Telling!AliveLooksAlive
  BY DEF TellingInv, TellingAliveInv, Telling!TypeOK, Telling!AliveLooksAlive,
     Telling!Parameters
<1> QED BY <1>1, TellingInvInit, TellingInvStep, PTL

\* A nap and three requests are the longest way to the provider.
LEMMA TellingInTime ==
    ASSUME Telling!Parameters
    PROVE  Telling!Init /\ [][Telling!Next]_(Telling!vars) => []Telling!ToldInTime
<1>1. TellingInv => Telling!ToldInTime
  BY DEF TellingInv, TellingTimeInv, Telling!TypeOK, Telling!ToldInTime, Telling!Longest,
     Telling!Parameters
<1> QED BY <1>1, TellingInvInit, TellingInvStep, PTL

\* What counts as told was taken, unless the refusal or the late request is remembered.
LEMMA TellingTaken ==
    ASSUME Telling!Parameters
    PROVE  Telling!Init /\ [][Telling!Next]_(Telling!vars) => []Telling!ToldIsTaken
<1>1. TellingInv => Telling!ToldIsTaken
  BY DEF TellingInv, TellingTimeInv, Telling!ToldIsTaken
<1> QED BY <1>1, TellingInvInit, TellingInvStep, PTL

-----------------------------------------------------------------------------
(* SftpServer: for any clients, passwords and keys, kills and power        *)
(* failures.                                                               *)

\* The key in use is the one in the file, once it is written; it is made only
\* where there is no file, and nobody is logged in before the server is up.
StartingStageInv ==
    /\ sftpStage = "write" => sftpFile = None /\ hostKey \in 1..MaxHostKeys
    /\ sftpStage \in {"mode", "bind", "up"}
          => hostKey = sftpFile /\ hostKey \in 1..MaxHostKeys
    /\ sftpStage # "up" => sessions = {}

\* Unless the file was lost it has the key that the clients keep, or is cut.
StartingKnownInv ==
    "lost" \notin harm => \A c \in Client : known[c] # None => sftpFile \in {known[c], Starting!Cut}

StartingInv == Starting!TypeOK /\ StartingStageInv /\ StartingKnownInv
    /\ Starting!UnreadableOnlyIfCut /\ Starting!LetInAsTold

LEMMA StartingInvInit == ASSUME Starting!Parameters PROVE Starting!Init => StartingInv
<1> SUFFICES ASSUME Starting!Init PROVE StartingInv
  OBVIOUS
<1>1. synced \in BOOLEAN
  BY Zenon DEF Starting!Init
<1>2. /\ sftpStage = "down" /\ hostKey = None /\ sftpFile = None /\ made = 0
      /\ authorized_keys \in {None} \cup SUBSET Client /\ accepted = {}
      /\ sessions = {} /\ known = [c \in Client |-> None] /\ harm = {}
  BY DEF Starting!Init
<1>3. Starting!TypeOK
  BY <1>1, <1>2 DEF Starting!TypeOK, Starting!Parameters
<1> QED
  BY <1>2, <1>3
     DEF StartingInv, StartingStageInv, StartingKnownInv, Starting!UnreadableOnlyIfCut,
         Starting!LetInAsTold, Starting!Cut, Starting!Parameters

\* What is not written to stays.
LEMMA StartingSpawnStep ==
    ASSUME Starting!Parameters, StartingInv, Starting!Spawn
    PROVE  StartingInv'
<1>1. /\ sftpStage = "down" /\ sftpStage' \in {"off", "load"}
      /\ accepted' \subseteq Client
      /\ UNCHANGED <<hostKey, sessions, known, sftpFile, synced, made, harm,
                     authorized_keys, allow_password, password>>
  BY DEF Starting!Spawn, Starting!OnDisk, Starting!Settings, StartingInv, Starting!TypeOK
<1>2. sessions = {}
  BY <1>1 DEF StartingInv, StartingStageInv
<1>3. Starting!TypeOK'
  BY <1>1 DEF StartingInv, Starting!TypeOK
<1> QED BY <1>1, <1>2, <1>3
        DEF StartingInv, StartingStageInv, StartingKnownInv, Starting!UnreadableOnlyIfCut,
            Starting!LetInAsTold, Starting!Cut

LEMMA StartingLoadKeyStep ==
    ASSUME Starting!Parameters, StartingInv, Starting!LoadKey
    PROVE  StartingInv'
<1>1. /\ sftpStage = "load"
      /\ UNCHANGED <<sftpFile, synced, harm, accepted, sessions, known, authorized_keys,
                     allow_password, password>>
  BY DEF Starting!LoadKey, Starting!Settings
<1>2. \/ /\ sftpFile = None /\ made < MaxHostKeys /\ made' = made + 1
         /\ hostKey' = made + 1 /\ sftpStage' = "write"
      \/ sftpFile = Starting!Cut /\ sftpStage' = "off" /\ UNCHANGED <<made, hostKey>>
      \/ sftpFile \notin {None, Starting!Cut} /\ hostKey' = sftpFile /\ sftpStage' = "bind" /\ UNCHANGED made
  BY DEF Starting!LoadKey
<1>3. made' \in 0..MaxHostKeys
  BY <1>2 DEF StartingInv, Starting!TypeOK, Starting!Parameters
<1>4. sftpStage' = "write" => hostKey' \in 1..MaxHostKeys
  BY <1>2 DEF StartingInv, Starting!TypeOK, Starting!Parameters
<1>5. sftpStage' = "bind" => hostKey' = sftpFile /\ hostKey' \in 1..MaxHostKeys
  BY <1>2 DEF StartingInv, Starting!TypeOK, Starting!Cut
<1>6. sftpStage' \in {"write", "off", "bind"} /\ (sftpStage' = "write" => sftpFile = None)
  BY <1>2
<1>7. hostKey' \in {None} \cup 1..MaxHostKeys
  BY <1>2, <1>4, <1>5 DEF StartingInv, Starting!TypeOK
<1>8. Starting!TypeOK'
  BY <1>1, <1>3, <1>6, <1>7 DEF StartingInv, Starting!TypeOK, Starting!Cut
<1> QED BY <1>1, <1>4, <1>5, <1>6, <1>8
        DEF StartingInv, StartingStageInv, StartingKnownInv, Starting!UnreadableOnlyIfCut,
            Starting!LetInAsTold, Starting!Cut

LEMMA StartingWriteKeyStep ==
    ASSUME Starting!Parameters, StartingInv, Starting!WriteKey
    PROVE  StartingInv'
<1>1. /\ sftpStage = "write"
      /\ UNCHANGED <<made, hostKey, accepted, sessions, known, authorized_keys,
                     allow_password, password>>
  BY DEF Starting!WriteKey, Starting!Settings
<1>2. \/ sftpStage' = "mode" /\ sftpFile' = hostKey /\ UNCHANGED harm
      \/ sftpStage' = "off" /\ UNCHANGED <<sftpFile, harm>>
      \/ sftpStage' = "off" /\ sftpFile' = Starting!Cut /\ harm' = harm \cup {"cut"}
  BY DEF Starting!WriteKey
<1>3. synced' \in BOOLEAN
  BY Zenon DEF Starting!WriteKey, StartingInv, Starting!TypeOK
<1>4. sftpFile = None /\ hostKey \in 1..MaxHostKeys /\ sessions = {}
  BY <1>1 DEF StartingInv, StartingStageInv
<1>5. Starting!TypeOK'
  BY <1>1, <1>2, <1>3, <1>4 DEF StartingInv, Starting!TypeOK
<1>6. StartingStageInv'
  BY <1>1, <1>2, <1>4 DEF StartingStageInv
<1>7. StartingKnownInv'
  BY <1>1, <1>2, <1>4 DEF StartingInv, StartingKnownInv, Starting!Cut, Starting!Parameters
<1>8. Starting!UnreadableOnlyIfCut'
  BY <1>2, <1>4 DEF StartingInv, Starting!UnreadableOnlyIfCut, Starting!Cut
<1> QED BY <1>1, <1>5, <1>6, <1>7, <1>8 DEF StartingInv, Starting!LetInAsTold

LEMMA StartingGoOnStep ==
    ASSUME Starting!Parameters, StartingInv, Starting!SetMode \/ Starting!Bind
    PROVE  StartingInv'
<1>1. /\ sftpStage \in {"mode", "bind"} /\ sftpStage' \in {"bind", "up", "off"}
      /\ UNCHANGED <<hostKey, accepted, sessions, known, sftpFile, synced, made, harm,
                     authorized_keys, allow_password, password>>
  BY DEF Starting!SetMode, Starting!Bind, Starting!OnDisk, Starting!Settings
<1>2. Starting!TypeOK'
  BY <1>1 DEF StartingInv, Starting!TypeOK
<1> QED BY <1>1, <1>2 DEF StartingInv, StartingStageInv, StartingKnownInv,
           Starting!UnreadableOnlyIfCut, Starting!LetInAsTold, Starting!Cut

LEMMA StartingEnterStep ==
    ASSUME Starting!Parameters, StartingInv, NEW c \in Client, Starting!Enter(c)
    PROVE  StartingInv'
<1>1. /\ sftpStage = "up" /\ known[c] \in {None, hostKey}
      /\ known' = [known EXCEPT ![c] = hostKey]
      /\ UNCHANGED <<sftpStage, hostKey, accepted, sftpFile, synced, made, harm,
                     authorized_keys, allow_password, password>>
  BY DEF Starting!Enter, Starting!OnDisk, Starting!Settings
<1>2. hostKey = sftpFile /\ hostKey \in 1..MaxHostKeys
  BY <1>1 DEF StartingInv, StartingStageInv
<1>3. \/ UNCHANGED sessions
      \/ c \in accepted /\ sessions' = sessions \cup {<<c, "key">>}
      \/ allow_password /\ password # None /\ sessions' = sessions \cup {<<c, "password">>}
  BY DEF Starting!Enter
<1>4. sessions' \subseteq Client \X {"key", "password"}
  BY <1>3 DEF StartingInv, Starting!TypeOK
<1>5. known' \in [Client -> {None} \cup 1..MaxHostKeys]
  BY <1>1, <1>2 DEF StartingInv, Starting!TypeOK
<1>6. Starting!TypeOK'
  BY <1>1, <1>4, <1>5 DEF StartingInv, Starting!TypeOK
<1>7. StartingStageInv'
  BY <1>1 DEF StartingInv, StartingStageInv
<1>8. StartingKnownInv'
  <2>1. \A d \in Client : known'[d] = IF d = c THEN hostKey ELSE known[d]
    BY <1>1 DEF StartingInv, Starting!TypeOK
  <2> QED BY <1>1, <1>2, <2>1 DEF StartingInv, StartingKnownInv
<1>9. Starting!LetInAsTold'
  <2>1. allow_password' = allow_password /\ password' = password /\ accepted' = accepted
    BY <1>1
  <2> QED BY <1>3, <2>1 DEF StartingInv, Starting!LetInAsTold
<1> QED BY <1>1, <1>6, <1>7, <1>8, <1>9 DEF StartingInv, Starting!UnreadableOnlyIfCut,
           Starting!Cut

LEMMA StartingLeaveStep ==
    ASSUME Starting!Parameters, StartingInv, Starting!Leave
    PROVE  StartingInv'
<1>1. /\ sessions' \subseteq sessions
      /\ UNCHANGED <<sftpStage, hostKey, accepted, known, sftpFile, synced, made, harm,
                     authorized_keys, allow_password, password>>
  BY DEF Starting!Leave, Starting!OnDisk, Starting!Settings
<1>2. Starting!TypeOK'
  BY <1>1 DEF StartingInv, Starting!TypeOK
<1> QED BY <1>1, <1>2 DEF StartingInv, StartingStageInv, StartingKnownInv,
           Starting!UnreadableOnlyIfCut, Starting!LetInAsTold, Starting!Cut

LEMMA StartingEditKeysStep ==
    ASSUME Starting!Parameters, StartingInv, Starting!EditKeys
    PROVE  StartingInv'
<1>1. /\ authorized_keys' \in {None} \cup SUBSET Client
      /\ UNCHANGED <<sftpStage, hostKey, accepted, known, sftpFile, synced, made, harm,
                     sessions, allow_password, password>>
  BY DEF Starting!EditKeys, Starting!OnDisk
<1>2. Starting!TypeOK'
  BY <1>1 DEF StartingInv, Starting!TypeOK
<1> QED BY <1>1, <1>2 DEF StartingInv, StartingStageInv, StartingKnownInv,
           Starting!UnreadableOnlyIfCut, Starting!LetInAsTold, Starting!Cut

\* The process ends, by a kill or with the power.
LEMMA StartingEndStep ==
    ASSUME Starting!Parameters, StartingInv, Starting!Kill \/ Starting!PowerFails
    PROVE  StartingInv'
<1>1. /\ sftpStage' = "down" /\ hostKey' = None /\ accepted' = {} /\ sessions' = {}
      /\ UNCHANGED <<made, known, authorized_keys, allow_password, password>>
  BY DEF Starting!Kill, Starting!PowerFails, Starting!Settings
<1>2. \/ UNCHANGED <<sftpFile, harm>>
      \/ sftpFile' = Starting!Cut /\ harm' = harm \cup {"cut"}
      \/ sftpFile' = None /\ harm' = harm \cup {"lost"}
  BY DEF Starting!Kill, Starting!PowerFails, Starting!Cut, Starting!Parameters
<1>3. synced' \in BOOLEAN
  BY Zenon DEF Starting!Kill, Starting!PowerFails, StartingInv, Starting!TypeOK
<1>4. Starting!TypeOK'
  BY <1>1, <1>2, <1>3 DEF StartingInv, Starting!TypeOK
<1>5. StartingKnownInv' /\ Starting!UnreadableOnlyIfCut'
  BY <1>1, <1>2 DEF StartingInv, StartingKnownInv, Starting!UnreadableOnlyIfCut,
     Starting!Cut, Starting!Parameters
<1> QED BY <1>1, <1>4, <1>5 DEF StartingInv, StartingStageInv, Starting!LetInAsTold

LEMMA StartingSyncStep ==
    ASSUME Starting!Parameters, StartingInv, Starting!Sync
    PROVE  StartingInv'
<1>1. UNCHANGED <<sftpStage, hostKey, sftpFile, made, harm, accepted, sessions, known,
                  authorized_keys, allow_password, password>>
  BY DEF Starting!Sync, Starting!Settings
<1>2. synced' \in BOOLEAN
  BY Zenon DEF Starting!Sync
<1>3. Starting!TypeOK'
  BY <1>1, <1>2 DEF StartingInv, Starting!TypeOK
<1> QED BY <1>1, <1>3 DEF StartingInv, StartingStageInv, StartingKnownInv,
           Starting!UnreadableOnlyIfCut, Starting!LetInAsTold, Starting!Cut

LEMMA StartingInvStep ==
    ASSUME Starting!Parameters
    PROVE  StartingInv /\ [Starting!Next]_(Starting!vars) => StartingInv'
<1> SUFFICES ASSUME StartingInv, [Starting!Next]_(Starting!vars) PROVE StartingInv'
  OBVIOUS
<1>1. ASSUME UNCHANGED Starting!vars PROVE StartingInv'
  <2>1. Starting!TypeOK'
    BY <1>1 DEF Starting!vars, StartingInv, Starting!TypeOK
  <2> QED BY <1>1, <2>1
          DEF Starting!vars, StartingInv, StartingStageInv, StartingKnownInv,
              Starting!UnreadableOnlyIfCut, Starting!LetInAsTold, Starting!Cut
<1> QED BY <1>1, StartingSpawnStep, StartingLoadKeyStep, StartingWriteKeyStep,
           StartingGoOnStep, StartingEnterStep, StartingLeaveStep,
           StartingEditKeysStep, StartingEndStep, StartingSyncStep DEF Starting!Next

LEMMA StartingTypeCorrect ==
    ASSUME Starting!Parameters
    PROVE  Starting!Init /\ [][Starting!Next]_(Starting!vars) => []Starting!TypeOK
<1>1. StartingInv => Starting!TypeOK
  BY DEF StartingInv
<1> QED BY <1>1, StartingInvInit, StartingInvStep, PTL

\* The key that is used is the one in the file, which the clients keep.
LEMMA StartingOneHostKey ==
    ASSUME Starting!Parameters
    PROVE  Starting!Init /\ [][Starting!Next]_(Starting!vars) => []Starting!SameHostKey
<1>1. ASSUME StartingInv PROVE Starting!SameHostKey
  <2>1. SUFFICES ASSUME sftpStage = "up", "lost" \notin harm, NEW c \in Client,
                        known[c] # None
                 PROVE  known[c] = hostKey
    BY DEF Starting!SameHostKey
  <2>2. hostKey = sftpFile /\ hostKey \in 1..MaxHostKeys
    BY <1>1, <2>1 DEF StartingInv, StartingStageInv
  <2>3. sftpFile # Starting!Cut
    BY <2>2 DEF Starting!Cut
  <2> QED BY <1>1, <2>1, <2>2, <2>3 DEF StartingInv, StartingKnownInv
<1> QED BY <1>1, StartingInvInit, StartingInvStep, PTL

LEMMA StartingOnlyIfCut ==
    ASSUME Starting!Parameters
    PROVE  Starting!Init /\ [][Starting!Next]_(Starting!vars)
           => []Starting!UnreadableOnlyIfCut
<1>1. StartingInv => Starting!UnreadableOnlyIfCut
  BY DEF StartingInv
<1> QED BY <1>1, StartingInvInit, StartingInvStep, PTL

LEMMA StartingLetIn ==
    ASSUME Starting!Parameters
    PROVE  Starting!Init /\ [][Starting!Next]_(Starting!vars) => []Starting!LetInAsTold
<1>1. StartingInv => Starting!LetInAsTold
  BY DEF StartingInv
<1> QED BY <1>1, StartingInvInit, StartingInvStep, PTL

-----------------------------------------------------------------------------
(* SftpSession: for any channels, paths, lengths and numbers of files and  *)
(* handles.                                                                *)

\* The first n names of a path.
FilingPart(x, n) == SubSeq(x, 1, n)

\* The path x below p, when p has become q.
FilingUnder(p, q, x) == q \o SubSeq(x, Len(p) + 1, Len(x))

LEMMA FilingPartIs ==
    ASSUME NEW N, NEW x \in Seq(N), NEW n \in 0..Len(x)
    PROVE  FilingPart(x, n) \in Seq(N) /\ Len(FilingPart(x, n)) = n /\ \A i \in 1..n : FilingPart(x, n)[i] = x[i]
<1>1. \A i \in 1..n : x[i] \in N
  BY ElementOfSeq, LenProperties
<1>2. n \in Int /\ 1 \in Int /\ (n = 0 => ~(1 <= n)) /\ n - 1 + 1 = n /\ (n # 0 => 1 <= n)
  BY LenProperties
<1> QED BY <1>1, <1>2, SubSeqProperties DEF FilingPart

LEMMA FilingPartOfPart ==
    ASSUME NEW N, NEW x \in Seq(N), NEW m \in 0..Len(x), NEW n \in 0..m
    PROVE  FilingPart(FilingPart(x, m), n) = FilingPart(x, n)
<1>1. FilingPart(x, m) \in Seq(N) /\ Len(FilingPart(x, m)) = m /\ \A i \in 1..m : FilingPart(x, m)[i] = x[i]
  BY FilingPartIs
<1>2. n \in 0..Len(x) /\ n \in 0..Len(FilingPart(x, m)) /\ \A i \in 1..n : i \in 1..m
  BY <1>1, LenProperties
<1>3. /\ FilingPart(x, n) \in Seq(N) /\ Len(FilingPart(x, n)) = n
      /\ \A i \in 1..n : FilingPart(x, n)[i] = x[i]
  BY <1>2, FilingPartIs
<1>4. /\ FilingPart(FilingPart(x, m), n) \in Seq(N)
      /\ Len(FilingPart(FilingPart(x, m), n)) = n
      /\ \A i \in 1..n : FilingPart(FilingPart(x, m), n)[i] = FilingPart(x, m)[i]
  BY <1>1, <1>2, FilingPartIs
<1> QED BY <1>1, <1>2, <1>3, <1>4, SeqEqual

\* A path is a prefix of another if it is the first names of it.
LEMMA FilingPrefixIs ==
    ASSUME NEW N, NEW p \in Seq(N), NEW x \in Seq(N)
    PROVE  /\ Filing!IsPrefix(p, x) <=> Len(p) <= Len(x) /\ p = FilingPart(x, Len(p))
           /\ Filing!IsPrefix(p, x) <=> Len(p) <= Len(x) /\ \A i \in 1..Len(p) : p[i] = x[i]
<1>1. Len(p) \in Nat /\ Len(x) \in Nat /\ SubSeq(p, 1, Len(p)) = p
  BY LenProperties, SubSeqFull
<1>2. Filing!IsPrefix(p, x) <=> Len(p) <= Len(x) /\ p = FilingPart(x, Len(p))
  BY <1>1 DEF Filing!IsPrefix, FilingPart
<1>3. ASSUME Len(p) <= Len(x), \A i \in 1..Len(p) : p[i] = x[i]
      PROVE  p = FilingPart(x, Len(p))
  <2>1. Len(p) \in 0..Len(x)
    BY <1>1, <1>3
  <2>2. /\ FilingPart(x, Len(p)) \in Seq(N) /\ Len(FilingPart(x, Len(p))) = Len(p)
        /\ \A i \in 1..Len(p) : FilingPart(x, Len(p))[i] = x[i]
    BY <2>1, FilingPartIs
  <2> QED BY <2>2, <1>3, SeqEqual
<1>4. ASSUME Len(p) <= Len(x), p = FilingPart(x, Len(p))
      PROVE  \A i \in 1..Len(p) : p[i] = x[i]
  <2>1. Len(p) \in 0..Len(x)
    BY <1>1, <1>4
  <2> QED BY <2>1, <1>4, FilingPartIs
<1> QED BY <1>2, <1>3, <1>4

LEMMA FilingPartPrefix ==
    ASSUME NEW N, NEW x \in Seq(N), NEW n \in 0..Len(x)
    PROVE  Filing!IsPrefix(FilingPart(x, n), x)
<1>1. FilingPart(x, n) \in Seq(N) /\ Len(FilingPart(x, n)) = n /\ n <= Len(x)
  BY FilingPartIs, LenProperties
<1> QED BY <1>1, FilingPrefixIs

LEMMA FilingPrefixOfPrefix ==
    ASSUME NEW N, NEW p \in Seq(N), NEW x \in Seq(N), NEW y \in Seq(N),
           Filing!IsPrefix(p, x), Filing!IsPrefix(x, y)
    PROVE  Filing!IsPrefix(p, y)
<1>1. /\ Len(p) <= Len(x) /\ \A i \in 1..Len(p) : p[i] = x[i]
      /\ Len(x) <= Len(y) /\ \A i \in 1..Len(x) : x[i] = y[i]
  BY FilingPrefixIs
<1>2. Len(p) \in Nat /\ Len(x) \in Nat /\ Len(y) \in Nat
  BY LenProperties
<1>3. Len(p) <= Len(y) /\ \A i \in 1..Len(p) : p[i] = y[i]
  BY <1>1, <1>2
<1> QED BY <1>3, FilingPrefixIs

\* y is q with the names of x behind its first Len(p).
FilingIsUnder(p, q, x, y) ==
    /\ Len(y) = Len(q) + (Len(x) - Len(p))
    /\ \A i \in 1..Len(q) : y[i] = q[i]
    /\ \A i \in Len(q) + 1 .. Len(q) + (Len(x) - Len(p)) : y[i] = x[i - Len(q) + Len(p)]

LEMMA FilingUnderIs ==
    ASSUME NEW N, NEW p \in Seq(N), NEW q \in Seq(N), NEW x \in Seq(N), Len(p) <= Len(x)
    PROVE  FilingUnder(p, q, x) \in Seq(N) /\ FilingIsUnder(p, q, x, FilingUnder(p, q, x))
<1> DEFINE y == SubSeq(x, Len(p) + 1, Len(x))
<1>1. Len(p) \in Nat /\ Len(q) \in Nat /\ Len(x) \in Nat
  BY LenProperties
<1>2. \A i \in Len(p) + 1 .. Len(x) : x[i] \in N
  BY <1>1, ElementOfSeq
<1>3. /\ y \in Seq(N)
      /\ Len(y) = IF Len(p) + 1 <= Len(x) THEN Len(x) - (Len(p) + 1) + 1 ELSE 0
      /\ \A i \in 1 .. Len(x) - (Len(p) + 1) + 1 : y[i] = x[Len(p) + 1 + i - 1]
  <2>1. Len(p) + 1 \in Int /\ Len(x) \in Int
    BY <1>1
  <2> HIDE DEF y
  <2>2. \A m, n \in Int : (\A i \in m..n : x[i] \in N)
           => /\ SubSeq(x, m, n) \in Seq(N)
              /\ Len(SubSeq(x, m, n)) = IF m <= n THEN n - m + 1 ELSE 0
              /\ \A i \in 1 .. n - m + 1 : SubSeq(x, m, n)[i] = x[m + i - 1]
    BY SubSeqProperties
  <2> QED BY <2>1, <2>2, <1>2 DEF y
<1> HIDE DEF y
<1>4. Len(y) = Len(x) - Len(p) /\ \A i \in 1 .. Len(x) - Len(p) : y[i] = x[Len(p) + i]
  BY <1>1, <1>3
<1>5. /\ q \o y \in Seq(N) /\ Len(q \o y) = Len(q) + Len(y)
      /\ \A i \in 1 .. Len(q) + Len(y) :
            (q \o y)[i] = IF i <= Len(q) THEN q[i] ELSE y[i - Len(q)]
  BY <1>3, ConcatProperties
<1>6. FilingUnder(p, q, x) = q \o y
  BY DEF FilingUnder, y
<1>7. \A i \in 1..Len(q) : (q \o y)[i] = q[i]
  BY <1>1, <1>4, <1>5
<1>8. \A i \in Len(q) + 1 .. Len(q) + (Len(x) - Len(p)) :
            (q \o y)[i] = x[i - Len(q) + Len(p)]
  <2> TAKE i \in Len(q) + 1 .. Len(q) + (Len(x) - Len(p))
  <2>1. i \in 1 .. Len(q) + Len(y) /\ ~(i <= Len(q))
         /\ i - Len(q) \in 1 .. Len(x) - Len(p)
        /\ Len(p) + (i - Len(q)) = i - Len(q) + Len(p)
    BY <1>1, <1>4
  <2> QED BY <2>1, <1>4, <1>5
<1> QED BY <1>4, <1>5, <1>6, <1>7, <1>8 DEF FilingIsUnder

\* What moved can be told from where it is.
LEMMA FilingUnderBack ==
    ASSUME NEW N, NEW p \in Seq(N), NEW q \in Seq(N), NEW x \in Seq(N),
           Filing!IsPrefix(p, x)
    PROVE  Filing!IsPrefix(q, FilingUnder(p, q, x))
            /\ FilingUnder(q, p, FilingUnder(p, q, x)) = x
<1> DEFINE y == FilingUnder(p, q, x)
<1> HIDE DEF y
<1>1. Len(p) \in Nat /\ Len(q) \in Nat /\ Len(x) \in Nat
  BY LenProperties
<1>2. Len(p) <= Len(x) /\ \A i \in 1..Len(p) : p[i] = x[i]
  BY FilingPrefixIs
<1>3. /\ y \in Seq(N) /\ Len(y) = Len(q) + (Len(x) - Len(p))
      /\ \A i \in 1..Len(q) : y[i] = q[i]
      /\ \A i \in Len(q) + 1 .. Len(q) + (Len(x) - Len(p)) : y[i] = x[i - Len(q) + Len(p)]
  <2>1. Len(p) <= Len(x)
    BY <1>2
  <2>2. y \in Seq(N) /\ FilingIsUnder(p, q, x, y)
    BY <2>1, FilingUnderIs DEF y
  <2> QED BY <2>2 DEF FilingIsUnder
<1>4. Len(q) <= Len(y) /\ Filing!IsPrefix(q, y)
  <2>1. Len(q) <= Len(y)
    BY <1>1, <1>2, <1>3
  <2> QED BY <2>1, <1>3, FilingPrefixIs
<1>5. /\ FilingUnder(q, p, y) \in Seq(N)
      /\ Len(FilingUnder(q, p, y)) = Len(p) + (Len(y) - Len(q))
      /\ \A i \in 1..Len(p) : FilingUnder(q, p, y)[i] = p[i]
      /\ \A i \in Len(p) + 1 .. Len(p) + (Len(y) - Len(q)) :
            FilingUnder(q, p, y)[i] = y[i - Len(p) + Len(q)]
  <2>1. Len(q) <= Len(y)
    BY <1>4
  <2>2. FilingUnder(q, p, y) \in Seq(N) /\ FilingIsUnder(q, p, y, FilingUnder(q, p, y))
    BY <2>1, <1>3, FilingUnderIs
  <2> QED BY <2>2 DEF FilingIsUnder
<1>6. Len(FilingUnder(q, p, y)) = Len(x)
  BY <1>1, <1>3, <1>5
<1>7. ASSUME NEW i \in 1..Len(x) PROVE FilingUnder(q, p, y)[i] = x[i]
  <2>1. CASE i <= Len(p)
    <3>1. i \in 1..Len(p)
      BY <1>1, <2>1
    <3> QED BY <3>1, <1>2, <1>5
  <2>2. CASE ~(i <= Len(p))
    <3>1. i \in Len(p) + 1 .. Len(p) + (Len(y) - Len(q))
      BY <1>1, <1>3, <2>2
    <3>2. i - Len(p) + Len(q) \in Len(q) + 1 .. Len(q) + (Len(x) - Len(p))
      BY <1>1, <2>2
    <3>3. (i - Len(p) + Len(q)) - Len(q) + Len(p) = i
      BY <1>1
    <3> QED BY <3>1, <3>2, <3>3, <1>3, <1>5
  <2> QED BY <2>1, <2>2
<1>8. FilingUnder(q, p, y) = x
  BY <1>5, <1>6, <1>7, SeqEqual
<1> QED BY <1>4, <1>8 DEF y

\* The first names of what moved.
LEMMA FilingUnderPart ==
    ASSUME NEW N, NEW p \in Seq(N), NEW q \in Seq(N), NEW x \in Seq(N),
           Filing!IsPrefix(p, x),
           NEW n \in Len(q) .. Len(q) + (Len(x) - Len(p))
    PROVE  /\ Len(p) + (n - Len(q)) \in Len(p) .. Len(x)
           /\ Filing!IsPrefix(p, FilingPart(x, Len(p) + (n - Len(q))))
           /\ FilingPart(FilingUnder(p, q, x), n) = FilingUnder(p, q, FilingPart(x, Len(p) + (n - Len(q))))
<1> DEFINE m == Len(p) + (n - Len(q))
<1>1. Len(p) \in Nat /\ Len(q) \in Nat /\ Len(x) \in Nat
  BY LenProperties
<1>2. Len(p) <= Len(x) /\ \A i \in 1..Len(p) : p[i] = x[i]
  BY FilingPrefixIs
<1>3. m \in Len(p) .. Len(x) /\ m \in 0..Len(x) /\ Len(q) + (m - Len(p)) = n
       /\ Len(p) <= m
  BY <1>1, <1>2
<1> HIDE DEF m
<1> DEFINE y == FilingUnder(p, q, x)   z == FilingPart(x, m)
<1> HIDE DEF y, z
<1>4. z \in Seq(N) /\ Len(z) = m /\ \A i \in 1..m : z[i] = x[i]
  BY <1>3, FilingPartIs DEF z
<1>5. Filing!IsPrefix(p, z)
  <2>1. \A i \in 1..Len(p) : i \in 1..m
    BY <1>1, <1>3
  <2> QED BY <2>1, <1>2, <1>3, <1>4, FilingPrefixIs
<1>6. /\ y \in Seq(N) /\ Len(y) = Len(q) + (Len(x) - Len(p))
      /\ \A i \in 1..Len(q) : y[i] = q[i]
      /\ \A i \in Len(q) + 1 .. Len(q) + (Len(x) - Len(p)) : y[i] = x[i - Len(q) + Len(p)]
  <2>1. Len(p) <= Len(x)
    BY <1>2
  <2>2. y \in Seq(N) /\ FilingIsUnder(p, q, x, y)
    BY <2>1, FilingUnderIs DEF y
  <2> QED BY <2>2 DEF FilingIsUnder
<1>7. n \in 0..Len(y)
  BY <1>1, <1>6
<1>8. /\ FilingPart(y, n) \in Seq(N) /\ Len(FilingPart(y, n)) = n
      /\ \A i \in 1..n : FilingPart(y, n)[i] = y[i]
  BY <1>6, <1>7, FilingPartIs
<1>9. /\ FilingUnder(p, q, z) \in Seq(N) /\ Len(FilingUnder(p, q, z)) = n
      /\ \A i \in 1..Len(q) : FilingUnder(p, q, z)[i] = q[i]
      /\ \A i \in Len(q) + 1 .. n : FilingUnder(p, q, z)[i] = z[i - Len(q) + Len(p)]
  <2>1. Len(p) <= Len(z) /\ z \in Seq(N)
    BY <1>3, <1>4
  <2>2. FilingUnder(p, q, z) \in Seq(N) /\ FilingIsUnder(p, q, z, FilingUnder(p, q, z))
    BY <2>1, FilingUnderIs
  <2>3. Len(q) + (Len(z) - Len(p)) = n
    BY <1>3, <1>4
  <2> QED BY <2>2, <2>3 DEF FilingIsUnder
<1>10. ASSUME NEW i \in 1..n PROVE FilingPart(y, n)[i] = FilingUnder(p, q, z)[i]
  <2>1. CASE i <= Len(q)
    <3>1. i \in 1..Len(q)
      BY <1>1, <2>1
    <3> QED BY <3>1, <1>6, <1>8, <1>9
  <2>2. CASE ~(i <= Len(q))
    <3>1. i \in Len(q) + 1 .. n /\ i \in Len(q) + 1 .. Len(q) + (Len(x) - Len(p))
      BY <1>1, <1>3, <2>2
    <3>2. i - Len(q) + Len(p) \in 1..m
      BY <1>1, <1>3, <2>2
    <3> QED BY <3>1, <3>2, <1>4, <1>6, <1>8, <1>9
  <2> QED BY <2>1, <2>2
<1>11. FilingPart(y, n) = FilingUnder(p, q, z)
  <2> HIDE DEF FilingPart, FilingUnder
  <2> QED BY <1>8, <1>9, <1>10, SeqEqual
<1> QED BY <1>3, <1>5, <1>11 DEF y, z, m

LEMMA FilingPartOfUnder ==
    ASSUME NEW N, NEW p \in Seq(N), NEW q \in Seq(N), NEW x \in Seq(N), Len(p) <= Len(x),
           NEW n \in 0..Len(q)
    PROVE  FilingPart(FilingUnder(p, q, x), n) = FilingPart(q, n)
<1> DEFINE y == FilingUnder(p, q, x)
<1>1. y \in Seq(N) /\ FilingIsUnder(p, q, x, y)
  BY FilingUnderIs
<1> HIDE DEF y
<1>2. /\ n \in 0..Len(y) /\ \A i \in 1..n : y[i] = q[i]
  BY <1>1, LenProperties DEF FilingIsUnder
<1>3. /\ FilingPart(y, n) \in Seq(N) /\ Len(FilingPart(y, n)) = n
      /\ \A i \in 1..n : FilingPart(y, n)[i] = y[i]
  BY <1>1, <1>2, FilingPartIs
<1>4. /\ FilingPart(q, n) \in Seq(N) /\ Len(FilingPart(q, n)) = n
      /\ \A i \in 1..n : FilingPart(q, n)[i] = q[i]
  BY FilingPartIs
<1>5. FilingPart(y, n) = FilingPart(q, n)
  BY <1>2, <1>3, <1>4, SeqEqual
<1> QED BY <1>5 DEF y

-----------------------------------------------------------------------------
(* The handles of a channel.                                               *)

\* n handles were given out; those the client holds are open, each with its path, and
\* of each it is known whether it was listed.
FilingChannelInv(n, paths, listed, mine) ==
    /\ n \in Nat /\ DOMAIN paths \subseteq 1..n
    /\ \A h \in DOMAIN paths : paths[h] \in Path \cup {Filing!Root}
    /\ \A r \in mine : r \in [handle : 1..n, path : Path \cup {Filing!Root}, lists : 0..1]
    /\ \A r \in mine : r.handle \in DOMAIN paths /\ paths[r.handle] = r.path
    /\ \A h : h \in listed <=> \E r \in mine : r.handle = h /\ r.lists = 1
    /\ \A r, s \in mine : r.handle = s.handle => r = s

FilingHandleInv ==
    /\ next_handle = [c \in Channel |-> next_handle[c]]
    /\ handles = [c \in Channel |-> handles[c]]
    /\ exhausted = [c \in Channel |-> exhausted[c]]
    /\ opened = [c \in Channel |-> opened[c]]
    /\ \A c \in Channel :
          /\ next_handle[c] \in 0..MaxOpens[c]
          /\ FilingChannelInv(next_handle[c], handles[c], exhausted[c], opened[c])

LEMMA FilingNewChannel == FilingChannelInv(0, Filing!NoHandles, {}, {})
BY DEF FilingChannelInv, Filing!NoHandles

LEMMA FilingHandleGiven ==
    ASSUME NEW n, NEW paths, NEW listed, NEW mine,
           FilingChannelInv(n, paths, listed, mine),
           NEW p \in Path \cup {Filing!Root}
    PROVE  FilingChannelInv(n + 1, Filing!With(paths, n + 1, p), listed,
                      mine \cup {[handle |-> n + 1, path |-> p, lists |-> 0]})
<1> DEFINE entry == [handle |-> n + 1, path |-> p, lists |-> 0]
           ps == Filing!With(paths, n + 1, p)
           hs == mine \cup {entry}
<1>1. n \in Nat /\ n + 1 \in Nat /\ n + 1 \notin 1..n
  BY DEF FilingChannelInv
<1>2. /\ DOMAIN ps = DOMAIN paths \cup {n + 1} /\ ps[n + 1] = p
      /\ \A h \in DOMAIN paths : ps[h] = paths[h]
  BY <1>1 DEF FilingChannelInv, Filing!With
<1>3. /\ entry.handle = n + 1 /\ entry.path = p /\ entry.lists = 0
      /\ entry \in [handle : 1..(n + 1), path : Path \cup {Filing!Root}, lists : 0..1]
  BY <1>1
<1>4. \A r \in mine :
            r \in [handle : 1..(n + 1), path : Path \cup {Filing!Root}, lists : 0..1]
                        /\ r.handle # n + 1
  BY <1>1 DEF FilingChannelInv
<1> HIDE DEF entry, ps
<1>5. \A r \in hs :
            r \in [handle : 1..(n + 1), path : Path \cup {Filing!Root}, lists : 0..1]
  BY <1>3, <1>4
<1>6. DOMAIN ps \subseteq 1..(n + 1) /\ \A h \in DOMAIN ps : ps[h] \in Path \cup {Filing!Root}
  BY <1>1, <1>2 DEF FilingChannelInv
<1>7. \A r \in hs : r.handle \in DOMAIN ps /\ ps[r.handle] = r.path
  BY <1>2, <1>3 DEF FilingChannelInv
<1>8. \A h : h \in listed <=> \E r \in hs : r.handle = h /\ r.lists = 1
  BY <1>3 DEF FilingChannelInv
<1>9. \A r, s \in hs : r.handle = s.handle => r = s
  BY <1>3, <1>4 DEF FilingChannelInv
<1>10. FilingChannelInv(n + 1, ps, listed, hs)
  BY <1>1, <1>5, <1>6, <1>7, <1>8, <1>9 DEF FilingChannelInv
<1> QED BY <1>10 DEF entry, ps

LEMMA FilingHandleClosed ==
    ASSUME NEW n, NEW paths, NEW listed, NEW mine,
           FilingChannelInv(n, paths, listed, mine),
           NEW r \in mine
    PROVE  FilingChannelInv(n, Filing!Without(paths, {r.handle}), listed \ {r.handle}, mine \ {r})
<1> DEFINE ps == Filing!Without(paths, {r.handle})
<1>1. /\ DOMAIN ps = DOMAIN paths \ {r.handle}
      /\ \A h \in DOMAIN ps : ps[h] = paths[h]
  BY DEF Filing!Without
<1> HIDE DEF ps
<1>2. \A s \in mine \ {r} : s.handle # r.handle
  BY DEF FilingChannelInv
<1>3. \A h : h \in listed \ {r.handle}
                <=> \E s \in mine \ {r} : s.handle = h /\ s.lists = 1
  BY <1>2 DEF FilingChannelInv
<1>4. FilingChannelInv(n, ps, listed \ {r.handle}, mine \ {r})
  BY <1>1, <1>2, <1>3 DEF FilingChannelInv
<1> QED BY <1>4 DEF ps

LEMMA FilingHandleListed ==
    ASSUME NEW n, NEW paths, NEW listed, NEW mine,
           FilingChannelInv(n, paths, listed, mine),
           NEW r \in mine, r.handle \notin listed
    PROVE  FilingChannelInv(n, paths, listed \cup {r.handle},
                      (mine \ {r}) \cup {[r EXCEPT !.lists = @ + 1]})
<1> DEFINE entry == [r EXCEPT !.lists = @ + 1]
           hs == (mine \ {r}) \cup {entry}
<1>1. r \in [handle : 1..n, path : Path \cup {Filing!Root}, lists : 0..1] /\ r.lists = 0
  BY DEF FilingChannelInv
<1>2. /\ entry.handle = r.handle /\ entry.path = r.path /\ entry.lists = 1
      /\ entry \in [handle : 1..n, path : Path \cup {Filing!Root}, lists : 0..1]
  BY <1>1
<1> HIDE DEF entry
<1>3. \A s \in mine \ {r} : s.handle # r.handle
  BY DEF FilingChannelInv
<1>4. \A s \in hs : s \in [handle : 1..n, path : Path \cup {Filing!Root}, lists : 0..1]
  BY <1>2 DEF FilingChannelInv
<1>5. \A s \in hs : s.handle \in DOMAIN paths /\ paths[s.handle] = s.path
  BY <1>2 DEF FilingChannelInv
<1>6. \A h : h \in listed \cup {r.handle} <=> \E s \in hs : s.handle = h /\ s.lists = 1
  BY <1>1, <1>2, <1>3 DEF FilingChannelInv
<1>7. \A s, t \in hs : s.handle = t.handle => s = t
  BY <1>2, <1>3 DEF FilingChannelInv
<1>8. FilingChannelInv(n, paths, listed \cup {r.handle}, hs)
  BY <1>4, <1>5, <1>6, <1>7 DEF FilingChannelInv
<1> QED BY <1>8 DEF entry

\* Only the tables of one channel change.
LEMMA FilingHandleStep ==
    ASSUME FilingHandleInv, NEW c \in Channel, NEW n \in 0..MaxOpens[c], NEW paths,
           NEW listed,
           NEW mine, FilingChannelInv(n, paths, listed, mine),
           next_handle' = [next_handle EXCEPT ![c] = n],
           handles' = [handles EXCEPT ![c] = paths],
           exhausted' = [exhausted EXCEPT ![c] = listed],
           opened' = [opened EXCEPT ![c] = mine]
    PROVE  FilingHandleInv'
<1>1. /\ next_handle' = [d \in Channel |-> next_handle'[d]]
      /\ handles' = [d \in Channel |-> handles'[d]]
      /\ exhausted' = [d \in Channel |-> exhausted'[d]]
      /\ opened' = [d \in Channel |-> opened'[d]]
  BY DEF FilingHandleInv
<1>2. next_handle'[c] = n /\ handles'[c] = paths /\ exhausted'[c] = listed
       /\ opened'[c] = mine
  BY DEF FilingHandleInv
<1>3. \A d \in Channel \ {c} :
         /\ next_handle'[d] = next_handle[d] /\ handles'[d] = handles[d]
         /\ exhausted'[d] = exhausted[d] /\ opened'[d] = opened[d]
  BY DEF FilingHandleInv
<1>4. ASSUME NEW d \in Channel
      PROVE  /\ next_handle'[d] \in 0..MaxOpens[d]
             /\ FilingChannelInv(next_handle'[d], handles'[d], exhausted'[d], opened'[d])
  <2>1. CASE d = c
    BY <1>2, <2>1
  <2>2. CASE d # c
    <3>1. d \in Channel \ {c}
      BY <2>2
    <3> QED BY <3>1, <1>3 DEF FilingHandleInv
  <2> QED BY <2>1, <2>2
<1>5. (\A d \in Channel : FilingChannelInv(next_handle[d], handles[d], exhausted[d], opened[d]))'
  BY <1>4 DEF FilingChannelInv
<1> QED BY <1>1, <1>4, <1>5 DEF FilingHandleInv

LEMMA FilingHandlesKept ==
    ASSUME FilingHandleInv, UNCHANGED <<handles, next_handle, exhausted, opened>>
    PROVE  FilingHandleInv'
BY DEF FilingHandleInv, FilingChannelInv

LEMMA FilingHandlesEnd ==
    ASSUME FilingHandleInv, Filing!Parameters, NEW cs \in SUBSET Channel, Filing!Ended(cs)
    PROVE  FilingHandleInv'
<1>1. /\ next_handle' = [d \in Channel |-> next_handle'[d]]
      /\ handles' = [d \in Channel |-> handles'[d]]
      /\ exhausted' = [d \in Channel |-> exhausted'[d]]
      /\ opened' = [d \in Channel |-> opened'[d]]
  BY DEF Filing!Ended
<1>2. ASSUME NEW d \in Channel
      PROVE  /\ next_handle'[d] \in 0..MaxOpens[d]
             /\ FilingChannelInv(next_handle'[d], handles'[d], exhausted'[d], opened'[d])
  <2>1. CASE d \in cs
    <3>1. /\ next_handle'[d] = 0 /\ handles'[d] = Filing!NoHandles
          /\ exhausted'[d] = {} /\ opened'[d] = {}
      BY <2>1 DEF Filing!Ended
    <3>2. MaxOpens[d] \in Nat
      BY DEF Filing!Parameters
    <3> QED BY <3>1, <3>2, FilingNewChannel
  <2>2. CASE d \notin cs
    <3>1. /\ next_handle'[d] = next_handle[d] /\ handles'[d] = handles[d]
          /\ exhausted'[d] = exhausted[d] /\ opened'[d] = opened[d]
      BY <2>2 DEF Filing!Ended
    <3> QED BY <3>1 DEF FilingHandleInv
  <2> QED BY <2>1, <2>2
<1>3. (\A d \in Channel : FilingChannelInv(next_handle[d], handles[d], exhausted[d], opened[d]))'
  BY <1>2 DEF FilingChannelInv
<1> QED BY <1>1, <1>2, <1>3 DEF FilingHandleInv

LEMMA FilingHandleNew ==
    ASSUME FilingHandleInv, Filing!Parameters, NEW c \in Channel,
           NEW p \in Path \cup {Filing!Root},
           Filing!NewHandle(c, p)
    PROVE  FilingHandleInv'
<1> DEFINE n == next_handle[c] + 1
<1>1. /\ n <= MaxOpens[c] /\ MaxOpens[c] \in Nat
      /\ next_handle' = [next_handle EXCEPT ![c] = n]
      /\ handles' = [handles EXCEPT ![c] = Filing!With(handles[c], n, p)]
      /\ exhausted' = [exhausted EXCEPT ![c] = exhausted[c]]
      /\ opened' = [opened EXCEPT ![c] =
                       opened[c] \cup {[handle |-> n, path |-> p, lists |-> 0]}]
  BY DEF FilingHandleInv, Filing!NewHandle, Filing!Parameters
<1>2. FilingChannelInv(next_handle[c], handles[c], exhausted[c], opened[c])
      /\ next_handle[c] \in 0..MaxOpens[c]
  BY DEF FilingHandleInv
<1>3. n \in 0..MaxOpens[c]
  BY <1>1, <1>2
<1>4. FilingChannelInv(n, Filing!With(handles[c], n, p), exhausted[c],
                 opened[c] \cup {[handle |-> n, path |-> p, lists |-> 0]})
  BY <1>2, FilingHandleGiven
<1> HIDE DEF n
<1> QED BY <1>1, <1>3, <1>4, FilingHandleStep

LEMMA FilingHandleClose ==
    ASSUME FilingHandleInv, NEW c \in Channel, Filing!Close(c)
    PROVE  FilingHandleInv'
<1>1. PICK r \in opened[c] :
         /\ handles' = [handles EXCEPT ![c] = Filing!Without(handles[c], {r.handle})]
         /\ exhausted' = [exhausted EXCEPT ![c] = exhausted[c] \ {r.handle}]
         /\ opened' = [opened EXCEPT ![c] = opened[c] \ {r}]
         /\ next_handle' = next_handle
  BY DEF Filing!Close
<1>2. FilingChannelInv(next_handle[c], handles[c], exhausted[c], opened[c])
      /\ next_handle[c] \in 0..MaxOpens[c]
      /\ next_handle' = [next_handle EXCEPT ![c] = next_handle[c]]
  BY <1>1 DEF FilingHandleInv
<1>3. FilingChannelInv(next_handle[c], Filing!Without(handles[c], {r.handle}),
                 exhausted[c] \ {r.handle}, opened[c] \ {r})
  BY <1>2, FilingHandleClosed
<1> QED BY <1>1, <1>2, <1>3, FilingHandleStep

LEMMA FilingHandleRead ==
    ASSUME FilingHandleInv, NEW c \in Channel, Filing!ReadDir(c)
    PROVE  FilingHandleInv'
<1>1. PICK r \in opened[c] :
         /\ r.handle \notin exhausted[c]
         /\ exhausted' = [exhausted EXCEPT ![c] = exhausted[c] \cup {r.handle}]
         /\ opened' = [opened EXCEPT ![c] =
                          (opened[c] \ {r}) \cup {[r EXCEPT !.lists = @ + 1]}]
         /\ handles' = handles /\ next_handle' = next_handle
  BY DEF Filing!ReadDir
<1>2. FilingChannelInv(next_handle[c], handles[c], exhausted[c], opened[c])
      /\ next_handle[c] \in 0..MaxOpens[c]
      /\ next_handle' = [next_handle EXCEPT ![c] = next_handle[c]]
      /\ handles' = [handles EXCEPT ![c] = handles[c]]
  BY <1>1 DEF FilingHandleInv
<1>3. FilingChannelInv(next_handle[c], handles[c], exhausted[c] \cup {r.handle},
                 (opened[c] \ {r}) \cup {[r EXCEPT !.lists = @ + 1]})
  BY <1>1, <1>2, FilingHandleListed
<1> DEFINE listed == exhausted[c] \cup {r.handle}
           mine == (opened[c] \ {r}) \cup {[r EXCEPT !.lists = @ + 1]}
<1>4. exhausted' = [exhausted EXCEPT ![c] = listed] /\ opened' = [opened EXCEPT ![c] = mine]
  BY <1>1
<1>5. FilingChannelInv(next_handle[c], handles[c], listed, mine)
  BY <1>3
<1> HIDE DEF listed, mine
<1> QED BY <1>2, <1>4, <1>5, FilingHandleStep

LEMMA FilingHandleInvStep ==
    ASSUME Filing!Parameters, FilingHandleInv, [Filing!Next]_(Filing!vars)
    PROVE  FilingHandleInv'
<1>1. CASE UNCHANGED Filing!vars
  BY <1>1, FilingHandlesKept DEF Filing!vars
<1>2. CASE Filing!Restart
  <2>1. Channel \in SUBSET Channel /\ Filing!Ended(Channel)
    BY <1>2 DEF Filing!Restart
  <2> QED BY <2>1, FilingHandlesEnd
<1>3. ASSUME NEW c \in Channel, Filing!OpenDir(c) PROVE FilingHandleInv'
  <2>1. PICK p \in Path \cup {Filing!Root} : Filing!NewHandle(c, p)
    BY <1>3 DEF Filing!OpenDir
  <2> QED BY <2>1, FilingHandleNew
<1>4. ASSUME NEW c \in Channel, Filing!Open(c) PROVE FilingHandleInv'
  <2>1. PICK p \in Path : Filing!NewHandle(c, p)
    BY <1>4 DEF Filing!Open
  <2>2. p \in Path \cup {Filing!Root}
    OBVIOUS
  <2> QED BY <2>1, <2>2, FilingHandleNew
<1>5. ASSUME NEW c \in Channel, Filing!ReadDir(c) PROVE FilingHandleInv'
  BY <1>5, FilingHandleRead
<1>6. ASSUME NEW c \in Channel, Filing!Close(c) PROVE FilingHandleInv'
  BY <1>6, FilingHandleClose
<1>7. ASSUME NEW c \in Channel,
             \/ Filing!WriteOpen(c) \/ Filing!WriteData(c) \/ Filing!SetLength(c)
             \/ Filing!RemoveFile(c) \/ Filing!MkDir(c)
              \/ Filing!RmDir(c) \/ Filing!RenameCheck(c) \/ Filing!RenameMove(c)
      PROVE  FilingHandleInv'
  <2>1. Filing!HandlesStay
    BY <1>7, Zenon DEF Filing!WriteOpen, Filing!WriteData, Filing!SetLength,
       Filing!RemoveFile, Filing!MkDir, Filing!RmDir, Filing!RenameCheck,
       Filing!RenameMove
  <2> QED BY <2>1, FilingHandlesKept, Zenon DEF Filing!HandlesStay
<1>8. ASSUME NEW c \in Channel, Filing!ChannelEnds(c) PROVE FilingHandleInv'
  <2>1. {c} \in SUBSET Channel /\ Filing!Ended({c})
    BY <1>8 DEF Filing!ChannelEnds
  <2> QED BY <2>1, FilingHandlesEnd
<1> QED BY <1>1, <1>2, <1>3, <1>4, <1>5, <1>6, <1>7, <1>8 DEF Filing!Next

LEMMA FilingHandleInvInit == ASSUME Filing!Parameters, Filing!Init PROVE FilingHandleInv
<1>1. \A c \in Channel : MaxOpens[c] \in Nat
  BY DEF Filing!Parameters
<1>2. ASSUME NEW c \in Channel
      PROVE  next_handle[c] = 0 /\ handles[c] = Filing!NoHandles /\ exhausted[c] = {}
              /\ opened[c] = {}
  BY DEF Filing!Init
<1>3. \A c \in Channel :
            FilingChannelInv(next_handle[c], handles[c], exhausted[c], opened[c])
  BY <1>2, FilingNewChannel
<1>4. \A c \in Channel : next_handle[c] \in 0..MaxOpens[c]
  BY <1>1, <1>2
<1>5. /\ next_handle = [c \in Channel |-> next_handle[c]]
      /\ handles = [c \in Channel |-> handles[c]]
      /\ exhausted = [c \in Channel |-> exhausted[c]]
      /\ opened = [c \in Channel |-> opened[c]]
  BY DEF Filing!Init
<1> QED BY <1>3, <1>4, <1>5 DEF FilingHandleInv

LEMMA FilingHandleInvShows ==
    FilingHandleInv
        => Filing!HandleKeepsPath /\ Filing!ListedOnce
<1> SUFFICES ASSUME FilingHandleInv PROVE Filing!HandleKeepsPath /\ Filing!ListedOnce
  OBVIOUS
<1>1. Filing!HandleKeepsPath
  BY DEF FilingHandleInv, FilingChannelInv, Filing!HandleKeepsPath
<1>2. ASSUME NEW c \in Channel
      PROVE  /\ exhausted[c] = {r.handle : r \in {s \in opened[c] : s.lists > 0}}
             /\ \A r \in opened[c] : r.lists <= 1
  <2>1. FilingChannelInv(next_handle[c], handles[c], exhausted[c], opened[c])
    BY DEF FilingHandleInv
  <2>2. \A r \in opened[c] : r.lists \in 0..1
    BY <2>1 DEF FilingChannelInv
  <2>3. \A h : h \in exhausted[c] <=> \E r \in opened[c] : r.handle = h /\ r.lists = 1
    BY <2>1 DEF FilingChannelInv
  <2>4. \A r \in opened[c] : r.lists = 1 <=> r.lists > 0
    BY <2>2
  <2>5. \A h : h \in exhausted[c]
           <=> h \in {r.handle : r \in {s \in opened[c] : s.lists > 0}}
    BY <2>3, <2>4
  <2> QED BY <2>2, <2>5
<1> QED BY <1>1, <1>2 DEF Filing!ListedOnce

-----------------------------------------------------------------------------
(* The tree.                                                               *)

\* Every path leads through directories, and a file has one name.
FilingTreeInv(t) ==
    /\ t = [x \in DOMAIN t |-> t[x]] /\ DOMAIN t \subseteq Path \cup {Filing!Root}
    /\ \A x \in DOMAIN t : t[x] \in 0..MaxFiles
    /\ \A x \in DOMAIN t : \A n \in 0..(Len(x) - 1) :
             FilingPart(x, n) \in DOMAIN t /\ t[FilingPart(x, n)] = 0
    /\ \A x, y \in DOMAIN t : t[x] = t[y] /\ t[x] # 0 => x = y

LEMMA FilingPathIs ==
    ASSUME Filing!Parameters
    PROVE  /\ \A x \in Path \cup {Filing!Root} : x \in Seq(Filing!Component) /\ Len(x) \in Nat
           /\ \A x \in Path : x # Filing!Root /\ Len(x) >= 1
                 /\ Filing!Front(x) = FilingPart(x, Len(x) - 1)
                 /\ Filing!Front(x) \in Path \cup {Filing!Root}
                 /\ Len(Filing!Front(x)) = Len(x) - 1
           /\ Len(Filing!Root) = 0
<1>1. Filing!Root \in Seq(Filing!Component) /\ Len(Filing!Root) = 0
  BY EmptySeq DEF Filing!Root
<1>2. \A x \in Path \cup {Filing!Root} : x \in Seq(Filing!Component) /\ Len(x) \in Nat
  BY <1>1, LenProperties DEF Filing!Parameters
<1>3. ASSUME NEW x \in Path
      PROVE  /\ x # Filing!Root /\ Len(x) >= 1
             /\ Filing!Front(x) = FilingPart(x, Len(x) - 1)
             /\ Filing!Front(x) \in Path \cup {Filing!Root}
             /\ Len(Filing!Front(x)) = Len(x) - 1
  <2>1. x # Filing!Root /\ Filing!Front(x) \in Path \cup {Filing!Root}
         /\ x \in Seq(Filing!Component)
    BY <1>2 DEF Filing!Parameters
  <2>2. Len(x) \in Nat /\ Len(x) # 0
    BY <2>1, LenProperties, EmptySeq DEF Filing!Root
  <2>3. Filing!Front(x) = FilingPart(x, Len(x) - 1)
    BY DEF Filing!Front, FilingPart
  <2>4. Len(x) - 1 \in 0..Len(x)
    BY <2>2
  <2>5. Len(FilingPart(x, Len(x) - 1)) = Len(x) - 1
    BY <2>1, <2>4, FilingPartIs
  <2> QED BY <2>1, <2>2, <2>3, <2>5
<1> QED BY <1>1, <1>2, <1>3

\* Nothing is below a path that is free or a file's.
LEMMA FilingNoneBelow ==
    ASSUME Filing!Parameters, FilingTreeInv(tree), NEW q \in Path \cup {Filing!Root},
           ~Filing!IsDir(q),
           NEW x \in DOMAIN tree, Filing!IsPrefix(q, x)
    PROVE  x = q
<1>1. q \in Seq(Filing!Component) /\ x \in Seq(Filing!Component) /\ Len(q) \in Nat
       /\ Len(x) \in Nat
  BY FilingPathIs DEF FilingTreeInv
<1>2. Len(q) <= Len(x) /\ q = FilingPart(x, Len(q))
  BY <1>1, FilingPrefixIs
<1>3. CASE Len(q) = Len(x)
  <2>1. FilingPart(x, Len(x)) = x
    BY <1>1, SubSeqFull DEF FilingPart
  <2> QED BY <1>2, <1>3, <2>1
<1>4. CASE Len(q) # Len(x)
  <2>1. Len(q) \in 0..(Len(x) - 1)
    BY <1>1, <1>2, <1>4
  <2> QED BY <2>1, <1>2 DEF FilingTreeInv, Filing!IsDir, Filing!Exists
<1> QED BY <1>3, <1>4

\* The root alone.
LEMMA FilingTopIs == ASSUME Filing!Parameters PROVE FilingTreeInv(Filing!Top)
<1>1. Len(Filing!Root) = 0
  BY FilingPathIs
<1>2. DOMAIN Filing!Top = {Filing!Root} /\ Filing!Top[Filing!Root] = 0
       /\ Filing!Top = [x \in DOMAIN Filing!Top |-> Filing!Top[x]]
  BY DEF Filing!Top
<1> QED BY <1>1, <1>2 DEF FilingTreeInv, Filing!Parameters

\* One more path, in a directory.
LEMMA FilingTreeGrows ==
    ASSUME Filing!Parameters, FilingTreeInv(tree), NEW p \in Path, ~Filing!Exists(p),
           Filing!IsDir(Filing!Front(p)),
           NEW f \in 0..MaxFiles, f \notin Filing!Held
    PROVE  /\ FilingTreeInv(Filing!With(tree, p, f))
           /\ \A g \in Filing!Held : \E x \in DOMAIN Filing!With(tree, p, f) : Filing!With(tree, p, f)[x] = g
<1> DEFINE t == Filing!With(tree, p, f)
<1>1. /\ DOMAIN t = DOMAIN tree \cup {p} /\ t[p] = f
      /\ \A x \in DOMAIN tree : x # p /\ t[x] = tree[x]
      /\ t = [x \in DOMAIN t |-> t[x]]
  BY DEF Filing!With, Filing!Exists
<1> HIDE DEF t
<1>2. DOMAIN t \subseteq Path \cup {Filing!Root} /\ \A x \in DOMAIN t : t[x] \in 0..MaxFiles
  BY <1>1 DEF FilingTreeInv
<1>3. ASSUME NEW x \in DOMAIN t, NEW n \in 0..(Len(x) - 1)
      PROVE  FilingPart(x, n) \in DOMAIN t /\ t[FilingPart(x, n)] = 0
  <2>1. CASE x # p
    BY <1>1, <2>1 DEF FilingTreeInv
  <2>2. CASE x = p
    <3>1. /\ p \in Seq(Filing!Component) /\ Len(p) \in Nat /\ Len(p) >= 1
          /\ Filing!Front(p) = FilingPart(p, Len(p) - 1)
          /\ Filing!Front(p) \in DOMAIN tree
          /\ tree[Filing!Front(p)] = 0 /\ Len(Filing!Front(p)) = Len(p) - 1
      BY FilingPathIs DEF Filing!IsDir, Filing!Exists
    <3>2. CASE n = Len(p) - 1
      BY <3>1, <3>2, <2>2, <1>1
    <3>3. CASE n # Len(p) - 1
      <4>1. n \in 0..(Len(Filing!Front(p)) - 1)
        BY <3>1, <3>3, <2>2
      <4>2. FilingPart(Filing!Front(p), n) \in DOMAIN tree
             /\ tree[FilingPart(Filing!Front(p), n)] = 0
        BY <3>1, <4>1 DEF FilingTreeInv
      <4>3. FilingPart(Filing!Front(p), n) = FilingPart(p, n)
        BY <3>1, <3>3, <2>2, FilingPartOfPart
      <4> QED BY <4>2, <4>3, <2>2, <1>1
    <3> QED BY <3>2, <3>3
  <2> QED BY <2>1, <2>2
<1>4. ASSUME NEW x \in DOMAIN t, NEW y \in DOMAIN t, t[x] = t[y], t[x] # 0 PROVE x = y
  <2>1. \A z \in DOMAIN tree : tree[z] # 0 => tree[z] # f
    BY DEF Filing!Held
  <2> QED BY <2>1, <1>1, <1>4 DEF FilingTreeInv
<1>5. \A g \in Filing!Held : \E x \in DOMAIN t : t[x] = g
  BY <1>1 DEF Filing!Held
<1> QED BY <1>1, <1>2, <1>3, <1>4, <1>5 DEF FilingTreeInv, t

\* One path less, with nothing below it.
LEMMA FilingTreeShrinks ==
    ASSUME Filing!Parameters, FilingTreeInv(tree), NEW p \in Path \cup {Filing!Root},
           Filing!IsFile(p) \/ Filing!Below(p) = {}
    PROVE  /\ FilingTreeInv(Filing!Without(tree, {p}))
           /\ \A x \in DOMAIN tree \ {p} :
                 x \in DOMAIN Filing!Without(tree, {p})
                  /\ Filing!Without(tree, {p})[x] = tree[x]
<1> DEFINE t == Filing!Without(tree, {p})
<1>1. /\ DOMAIN t = DOMAIN tree \ {p} /\ \A x \in DOMAIN t : t[x] = tree[x]
      /\ t = [x \in DOMAIN t |-> t[x]]
  BY DEF Filing!Without
<1> HIDE DEF t
<1>2. ASSUME NEW x \in DOMAIN t, NEW n \in 0..(Len(x) - 1)
      PROVE  FilingPart(x, n) \in DOMAIN t /\ t[FilingPart(x, n)] = 0
  <2>1. FilingPart(x, n) \in DOMAIN tree /\ tree[FilingPart(x, n)] = 0
    BY <1>1 DEF FilingTreeInv
  <2>2. x \in Seq(Filing!Component) /\ Len(x) \in Nat /\ p \in Seq(Filing!Component)
    BY <1>1, FilingPathIs DEF FilingTreeInv
  <2>3. FilingPart(x, n) # p
    <3> SUFFICES ASSUME FilingPart(x, n) = p PROVE FALSE
      OBVIOUS
    <3>1. Filing!Below(p) = {}
      BY <2>1 DEF Filing!IsFile
    <3>2. Len(p) = n /\ n <= Len(x)
      BY <2>2, FilingPartIs
    <3>3. Filing!IsPrefix(p, x)
      BY <2>2, <3>2, FilingPrefixIs
    <3> QED BY <3>1, <3>3, <1>1 DEF Filing!Below
  <2> QED BY <1>1, <2>1, <2>3
<1> QED BY <1>1, <1>2 DEF FilingTreeInv, t

\* A path and what is below it, under another name: it meets nothing that stays.
LEMMA FilingMovedIs ==
    ASSUME Filing!Parameters, FilingTreeInv(tree), NEW p \in Path, NEW q \in Path,
           Filing!Allowed(p, q)
    PROVE  /\ Filing!Moved(p, q) = [y \in DOMAIN Filing!Moved(p, q) |-> Filing!Moved(p,
                                    q)[y]]
           /\ \A y \in DOMAIN Filing!Moved(p, q) :
                 \/ y \in DOMAIN tree /\ y # q /\ ~Filing!IsPrefix(p, y) /\ ~Filing!IsPrefix(q, y)
                    /\ Filing!Moved(p, q)[y] = tree[y]
                 \/ \E x \in DOMAIN tree :
                       Filing!IsPrefix(p, x) /\ y = FilingUnder(p, q, x)
                        /\ Filing!Moved(p, q)[y] = tree[x]
           /\ \A x \in DOMAIN tree : ~Filing!IsPrefix(p, x) /\ x # q => x \in DOMAIN Filing!Moved(p, q)
           /\ \A x \in DOMAIN tree : Filing!IsPrefix(p, x) => FilingUnder(p, q, x) \in DOMAIN Filing!Moved(p, q)
           /\ p \in DOMAIN tree /\ Filing!IsPrefix(p, p)
           /\ \A x \in DOMAIN tree : Filing!IsPrefix(q, x) => x = q
<1> DEFINE A == {p} \cup Filing!Below(p)
           there == {FilingUnder(p, q, x) : x \in A}
           gone == {p, q} \cup Filing!Below(p)
           t == Filing!Moved(p, q)
<1>1. /\ p \in Seq(Filing!Component) /\ q \in Seq(Filing!Component)
      /\ \A x \in DOMAIN tree : x \in Seq(Filing!Component)
  BY FilingPathIs DEF FilingTreeInv
<1>2. p \in DOMAIN tree /\ Filing!IsPrefix(p, p) /\ ~Filing!IsPrefix(p, q)
  <2>1. Len(p) <= Len(p)
    BY <1>1, LenProperties
  <2> QED BY <2>1, <1>1, FilingPrefixIs DEF Filing!Allowed, Filing!Exists
<1>3. A = {x \in DOMAIN tree : Filing!IsPrefix(p, x)}
  BY <1>2 DEF Filing!Below
<1>4. ASSUME NEW x \in DOMAIN tree, Filing!IsPrefix(q, x) PROVE x = q
  <2>1. CASE Filing!IsDir(q)
    <3>1. Filing!Below(q) = {} \/ Filing!IsFile(p)
      BY <2>1 DEF Filing!Allowed, Filing!IsDir, Filing!IsFile
    <3>2. ~Filing!IsFile(p)
      BY <2>1 DEF Filing!Allowed, Filing!IsDir, Filing!IsFile
    <3> QED BY <3>1, <3>2, <1>4 DEF Filing!Below
  <2>2. CASE ~Filing!IsDir(q)
    BY <2>2, <1>4, FilingNoneBelow
  <2> QED BY <2>1, <2>2
<1>5. t = [y \in (DOMAIN tree \ gone) \cup there |->
              IF y \in there THEN tree[FilingUnder(q, p, y)] ELSE tree[y]]
  BY DEF Filing!Moved, FilingUnder
<1> HIDE DEF t
<1>6. \A x \in A :
            /\ Filing!IsPrefix(q, FilingUnder(p, q, x))
            /\ FilingUnder(q, p, FilingUnder(p, q, x)) = x
                   /\ FilingUnder(p, q, x) \in there
  BY <1>1, <1>3, FilingUnderBack
<1>7. \A y \in there : \E x \in A : y = FilingUnder(p, q, x)
  OBVIOUS
<1> HIDE DEF A, there
<1>8. DOMAIN t = (DOMAIN tree \ gone) \cup there /\ t = [y \in DOMAIN t |-> t[y]]
  BY <1>5
<1>9. ASSUME NEW y \in there
      PROVE  \E x \in DOMAIN tree :
                   Filing!IsPrefix(p, x) /\ y = FilingUnder(p, q, x) /\ t[y] = tree[x]
  <2>1. PICK x \in A : y = FilingUnder(p, q, x)
    BY <1>7
  <2>2. t[y] = tree[FilingUnder(q, p, y)]
    BY <1>5
  <2> QED BY <2>1, <2>2, <1>3, <1>6
<1>10. ASSUME NEW y \in DOMAIN tree \ gone
       PROVE  y # q /\ ~Filing!IsPrefix(p, y) /\ ~Filing!IsPrefix(q, y)
               /\ y \notin there /\ t[y] = tree[y]
  <2>1. y \in DOMAIN tree /\ y # q /\ y \notin A
    BY DEF A
  <2>2. ~Filing!IsPrefix(q, y)
    BY <2>1, <1>4
  <2>3. y \notin there
    BY <2>2, <1>6, <1>7
  <2> QED BY <2>1, <2>2, <2>3, <1>3, <1>5
<1>11. ASSUME NEW y \in DOMAIN t
       PROVE  \/ y \in DOMAIN tree /\ y # q /\ ~Filing!IsPrefix(p, y) /\ ~Filing!IsPrefix(q, y)
                 /\ t[y] = tree[y]
              \/ \E x \in DOMAIN tree :
                    Filing!IsPrefix(p, x) /\ y = FilingUnder(p, q, x) /\ t[y] = tree[x]
  BY <1>8, <1>9, <1>10
<1>12. \A x \in DOMAIN tree : ~Filing!IsPrefix(p, x) /\ x # q => x \in DOMAIN t
  BY <1>2, <1>8 DEF Filing!Below
<1>13. \A x \in DOMAIN tree : Filing!IsPrefix(p, x) => FilingUnder(p, q, x) \in DOMAIN t
  BY <1>3, <1>6, <1>8
<1> QED BY <1>2, <1>4, <1>8, <1>11, <1>12, <1>13 DEF t

LEMMA FilingTreeMoves ==
    ASSUME Filing!Parameters, FilingTreeInv(tree), NEW p \in Path, NEW q \in Path,
           Filing!Allowed(p, q)
    PROVE  /\ FilingTreeInv(Filing!Moved(p, q))
           /\ \A x \in DOMAIN tree \ {q} :
                 \E y \in DOMAIN Filing!Moved(p, q) : Filing!Moved(p, q)[y] = tree[x]
<1> DEFINE t == Filing!Moved(p, q)
<1>1. /\ t = [y \in DOMAIN t |-> t[y]]
      /\ \A y \in DOMAIN t :
            \/ y \in DOMAIN tree /\ y # q /\ ~Filing!IsPrefix(p, y) /\ ~Filing!IsPrefix(q, y)
               /\ t[y] = tree[y]
            \/ \E x \in DOMAIN tree :
                  Filing!IsPrefix(p, x) /\ y = FilingUnder(p, q, x) /\ t[y] = tree[x]
      /\ \A x \in DOMAIN tree : ~Filing!IsPrefix(p, x) /\ x # q => x \in DOMAIN t
      /\ \A x \in DOMAIN tree : Filing!IsPrefix(p, x) => FilingUnder(p, q, x) \in DOMAIN t
      /\ p \in DOMAIN tree /\ Filing!IsPrefix(p, p)
      /\ \A x \in DOMAIN tree : Filing!IsPrefix(q, x) => x = q
  BY FilingMovedIs
<1>2. DOMAIN t \subseteq Path \cup {Filing!Root} /\ ~Filing!IsPrefix(p, q)
       /\ Filing!IsDir(Filing!Front(q))
  BY DEF Filing!Allowed
<1> HIDE DEF t
<1>3. /\ p \in Seq(Filing!Component) /\ q \in Seq(Filing!Component)
      /\ \A x \in DOMAIN tree : x \in Seq(Filing!Component) /\ Len(x) \in Nat
      /\ Len(p) \in Nat /\ Len(q) \in Nat
  BY FilingPathIs DEF FilingTreeInv
<1>4. \A x \in DOMAIN tree : Filing!IsPrefix(p, x) =>
         Filing!IsPrefix(q, FilingUnder(p, q, x))
          /\ FilingUnder(q, p, FilingUnder(p, q, x)) = x
  BY <1>3, FilingUnderBack
<1>5. \A y \in DOMAIN t : t[y] \in 0..MaxFiles
  BY <1>1 DEF FilingTreeInv
<1>6. ASSUME NEW x \in DOMAIN t, NEW y \in DOMAIN t, t[x] = t[y], t[x] # 0 PROVE x = y
  BY <1>1, <1>4, <1>6 DEF FilingTreeInv
<1>7. \A x \in DOMAIN tree : ~Filing!IsPrefix(p, x) /\ x # q => t[x] = tree[x]
  <2> SUFFICES ASSUME NEW x \in DOMAIN tree, ~Filing!IsPrefix(p, x), x # q
               PROVE  t[x] = tree[x]
    OBVIOUS
  <2>1. x \in DOMAIN t /\ ~Filing!IsPrefix(q, x)
    BY <1>1
  <2> QED BY <2>1, <1>1, <1>4
<1>8. \A x \in DOMAIN tree : Filing!IsPrefix(p, x) => t[FilingUnder(p, q, x)] = tree[x]
  <2> SUFFICES ASSUME NEW x \in DOMAIN tree, Filing!IsPrefix(p, x)
               PROVE  t[FilingUnder(p, q, x)] = tree[x]
    OBVIOUS
  <2>1. FilingUnder(p, q, x) \in DOMAIN t /\ Filing!IsPrefix(q, FilingUnder(p, q, x))
    BY <1>1, <1>4
  <2>2. PICK z \in DOMAIN tree :
           Filing!IsPrefix(p, z) /\ FilingUnder(p, q, x) = FilingUnder(p, q, z)
            /\ t[FilingUnder(p, q, x)] = tree[z]
    BY <2>1, <1>1
  <2>3. z = x
    BY <2>2, <1>4
  <2> QED BY <2>2, <2>3
<1>9. ASSUME NEW y \in DOMAIN t, NEW n \in 0..(Len(y) - 1)
      PROVE  FilingPart(y, n) \in DOMAIN t /\ t[FilingPart(y, n)] = 0
  <2>1. CASE y \in DOMAIN tree /\ y # q /\ ~Filing!IsPrefix(p, y)
         /\ ~Filing!IsPrefix(q, y)
    <3>1. FilingPart(y, n) \in DOMAIN tree /\ tree[FilingPart(y, n)] = 0
      BY <2>1 DEF FilingTreeInv
    <3>2. Filing!IsPrefix(FilingPart(y, n), y)
      BY <2>1, <1>3, FilingPartPrefix
    <3>3. FilingPart(y, n) # q /\ ~Filing!IsPrefix(p, FilingPart(y, n))
      BY <3>1, <3>2, <2>1, <1>3, FilingPrefixOfPrefix
    <3> QED BY <3>1, <3>3, <1>1, <1>7
  <2>2. ASSUME NEW x \in DOMAIN tree, Filing!IsPrefix(p, x), y = FilingUnder(p, q, x)
        PROVE  FilingPart(y, n) \in DOMAIN t /\ t[FilingPart(y, n)] = 0
    <3>1. Len(p) <= Len(x) /\ Len(y) = Len(q) + (Len(x) - Len(p))
           /\ x \in Seq(Filing!Component)
      BY <2>2, <1>3, FilingPrefixIs, FilingUnderIs DEF FilingIsUnder
    <3>2. CASE n < Len(q)
      <4>1. /\ q # Filing!Root /\ Len(q) >= 1
            /\ Filing!Front(q) = FilingPart(q, Len(q) - 1)
            /\ Filing!Front(q) \in DOMAIN tree /\ tree[Filing!Front(q)] = 0
            /\ Len(Filing!Front(q)) = Len(q) - 1
            /\ Filing!Front(q) \in Seq(Filing!Component)
        BY <1>2, <1>3, FilingPathIs DEF Filing!IsDir, Filing!Exists
      <4>2. FilingPart(y, n) = FilingPart(q, n)
        BY <3>1, <3>2, <1>3, <2>2, FilingPartOfUnder
      <4>3. FilingPart(q, n) \in DOMAIN tree /\ tree[FilingPart(q, n)] = 0
        <5>1. CASE n = Len(q) - 1
          BY <5>1, <4>1
        <5>2. CASE n # Len(q) - 1
          <6>1. n \in 0..(Len(Filing!Front(q)) - 1) /\ Len(q) - 1 \in 0..Len(q)
                /\ n \in 0..(Len(q) - 1)
            BY <5>2, <4>1, <3>2, <1>3
          <6>2. FilingPart(Filing!Front(q), n) = FilingPart(q, n)
            BY <6>1, <4>1, <1>3, FilingPartOfPart
          <6> QED BY <6>1, <6>2, <4>1 DEF FilingTreeInv
        <5> QED BY <5>1, <5>2
      <4>4. FilingPart(q, n) # q /\ Filing!IsPrefix(FilingPart(q, n), q)
        <5>1. n \in 0..Len(q) /\ n # Len(q)
          BY <3>2, <1>3
        <5> QED BY <5>1, <1>3, FilingPartIs, FilingPartPrefix
      <4>5. ~Filing!IsPrefix(p, FilingPart(q, n))
        BY <4>3, <4>4, <1>2, <1>3, FilingPrefixOfPrefix
      <4> QED BY <4>2, <4>3, <4>4, <4>5, <1>1, <1>7
    <3>3. CASE n >= Len(q)
      <4>1. n \in Len(q) .. Len(q) + (Len(x) - Len(p))
        BY <3>1, <3>3, <1>3
      <4> DEFINE m == Len(p) + (n - Len(q))
      <4>2. m \in Len(p)..Len(x) /\ Filing!IsPrefix(p, FilingPart(x, m))
             /\ FilingPart(y, n) = FilingUnder(p, q, FilingPart(x, m))
        BY <4>1, <2>2, <1>3, FilingUnderPart
      <4>3. m \in 0..(Len(x) - 1)
        BY <3>1, <3>3, <1>3
      <4> HIDE DEF m
      <4>4. FilingPart(x, m) \in DOMAIN tree /\ tree[FilingPart(x, m)] = 0
        BY <4>3 DEF FilingTreeInv
      <4> QED BY <4>2, <4>4, <1>1, <1>8
    <3>4. n \in Nat
      OBVIOUS
    <3> QED BY <3>2, <3>3, <3>4, <1>3
  <2> QED BY <2>1, <2>2, <1>1
<1>10. \A x \in DOMAIN tree \ {q} : \E y \in DOMAIN t : t[y] = tree[x]
  BY <1>1, <1>7, <1>8
<1> QED BY <1>1, <1>2, <1>5, <1>6, <1>9, <1>10 DEF FilingTreeInv, t

-----------------------------------------------------------------------------
(* What was acknowledged.                                                  *)

\* A rename under way has found its new name free.
FilingDoingInv ==
    /\ doing = [c \in Channel |-> doing[c]]
    /\ \A c \in Channel : doing[c].op = "rename" =>
          doing[c].from \in Path /\ doing[c].to \in Path /\ doing[c].was = 0

FilingLengthInv ==
    length \in [Filing!File -> 0..MaxLen] /\ stored \in [Filing!File -> 0..MaxLen]
     /\ Filing!StoredStays

FilingSessionInv == FilingTreeInv(tree) /\ FilingDoingInv /\ FilingLengthInv

LEMMA FilingDoingOf ==
    ASSUME NEW v, v.op # "rename" \/ (v.from \in Path /\ v.to \in Path /\ v.was = 0),
           NEW c \in Channel, FilingDoingInv, doing' = [doing EXCEPT ![c] = v]
    PROVE  FilingDoingInv'
BY DEF FilingDoingInv

LEMMA FilingDoingStays == ASSUME FilingDoingInv, UNCHANGED doing PROVE FilingDoingInv'
BY DEF FilingDoingInv

LEMMA FilingDoingEnds ==
    ASSUME NEW c \in Channel, FilingDoingInv, Filing!Answered(c)
    PROVE  FilingDoingInv'
<1>1. Filing!Nothing.op # "rename"
  BY DEF Filing!Nothing
<1> QED BY <1>1, FilingDoingOf DEF Filing!Answered

LEMMA FilingLengthStays ==
    ASSUME FilingLengthInv, length' = length, stored' = stored,
           Filing!Held \subseteq Filing!Held'
    PROVE  FilingLengthInv'
BY DEF FilingLengthInv, Filing!StoredStays

LEMMA FilingTreeStays ==
    ASSUME FilingTreeInv(tree), tree' = tree
    PROVE  FilingTreeInv(tree') /\ Filing!Held' = Filing!Held
BY DEF Filing!Held

LEMMA FilingFilesKept ==
    ASSUME FilingTreeInv(tree), FilingLengthInv, Filing!FilesStay
    PROVE  FilingTreeInv(tree') /\ FilingLengthInv'
<1>1. tree' = tree /\ length' = length /\ stored' = stored
  BY DEF Filing!FilesStay
<1> QED BY <1>1, FilingTreeStays, FilingLengthStays

LEMMA FilingSessionWriteOpen ==
    ASSUME Filing!Parameters, FilingHandleInv, FilingSessionInv, NEW c \in Channel,
           Filing!WriteOpen(c)
    PROVE  FilingSessionInv'
<1>1. PICK r \in opened[c] :
         LET p == handles[c][r.handle]
         IN  /\ r.handle \in DOMAIN handles[c] /\ p # Filing!Root
             /\ \/ Filing!IsFile(p) /\ UNCHANGED <<tree, length, stored>>
                   /\ doing' = [doing EXCEPT ![c] = [Filing!Nothing EXCEPT !.op = "write",
                                                                   !.file = tree[p]]]
                \/ /\ ~Filing!Exists(p) /\ Filing!IsDir(Filing!Front(p))
                   /\ \E f \in Filing!File \ Filing!Made :
                        /\ tree' = Filing!With(tree, p, f)
                        /\ doing' = [doing EXCEPT ![c] = [Filing!Nothing EXCEPT !.op = "write",
                                                                        !.file = f]]
                   /\ UNCHANGED <<length, stored>>
  BY DEF Filing!WriteOpen
<1> DEFINE p == handles[c][r.handle]
<1>2. p \in Path
  BY <1>1 DEF FilingHandleInv, FilingChannelInv
<1>3. \A v : [Filing!Nothing EXCEPT !.op = "write", !.file = v].op # "rename"
  BY DEF Filing!Nothing
<1>4. FilingDoingInv'
  <2>1. \E v : doing' = [doing EXCEPT ![c] = [Filing!Nothing EXCEPT !.op = "write", !.file = v]]
    BY <1>1
  <2>2. PICK v : doing' = [doing EXCEPT ![c] = [Filing!Nothing EXCEPT !.op = "write", !.file = v]]
    BY <2>1
  <2> DEFINE d == [Filing!Nothing EXCEPT !.op = "write", !.file = v]
  <2>3. d.op # "rename" /\ doing' = [doing EXCEPT ![c] = d]
    BY <1>3, <2>2
  <2> HIDE DEF d
  <2> QED BY <2>3, FilingDoingOf DEF FilingSessionInv
<1>5. CASE UNCHANGED <<tree, length, stored>>
  BY <1>4, <1>5, FilingFilesKept DEF Filing!FilesStay, FilingSessionInv
<1>6. CASE /\ ~Filing!Exists(p) /\ Filing!IsDir(Filing!Front(p))
           /\ UNCHANGED <<length, stored>>
           /\ \E f \in Filing!File \ Filing!Made : tree' = Filing!With(tree, p, f)
  <2>1. PICK f \in Filing!File \ Filing!Made : tree' = Filing!With(tree, p, f)
    BY <1>6
  <2>2. f \in 0..MaxFiles /\ f \notin Filing!Held
    BY DEF Filing!File, Filing!Made, Filing!Parameters
  <2> HIDE DEF p
  <2>3. /\ FilingTreeInv(Filing!With(tree, p, f))
        /\ \A g \in Filing!Held : \E x \in DOMAIN Filing!With(tree, p, f) : Filing!With(tree, p, f)[x] = g
    BY <1>2, <1>6, <2>2, FilingTreeGrows DEF FilingSessionInv
  <2>4. Filing!Held \subseteq Filing!Held'
    BY <2>1, <2>3 DEF Filing!Held
  <2>5. FilingTreeInv(tree')
    BY <2>1, <2>3, Zenon
  <2>6. FilingLengthInv'
    BY <1>6, <2>4, FilingLengthStays DEF FilingSessionInv
  <2> QED BY <1>4, <2>5, <2>6 DEF FilingSessionInv
<1> QED BY <1>1, <1>5, <1>6

LEMMA FilingSessionWriteData ==
    ASSUME Filing!Parameters, FilingSessionInv, NEW c \in Channel, Filing!WriteData(c)
    PROVE  FilingSessionInv'
<1>1. PICK end \in 1..MaxLen, written \in BOOLEAN, good \in BOOLEAN :
         /\ good => written
         /\ length' = Filing!Longer(length, doing[c].file, end, written)
         /\ stored' = Filing!Longer(stored, doing[c].file, end, good)
         /\ Filing!Answered(c) /\ UNCHANGED tree
  BY DEF Filing!WriteData
<1> DEFINE f == doing[c].file
<1>2. FilingDoingInv'
  BY <1>1, FilingDoingEnds DEF FilingSessionInv
<1>3. FilingTreeInv(tree') /\ Filing!Held' = Filing!Held
  BY <1>1, FilingTreeStays DEF FilingSessionInv
<1>4. end \in 0..MaxLen /\ length \in [Filing!File -> 0..MaxLen]
       /\ stored \in [Filing!File -> 0..MaxLen]
  BY DEF FilingSessionInv, FilingLengthInv
<1> HIDE DEF f
<1>5. \A lens \in [Filing!File -> 0..MaxLen], done \in BOOLEAN :
         /\ Filing!Longer(lens, f, end, done) \in [Filing!File -> 0..MaxLen]
         /\ \A g \in Filing!File : g # f \/ ~done \/ f \notin Filing!Held =>
                Filing!Longer(lens, f, end, done)[g] = lens[g]
         /\ f \in Filing!File /\ f \in Filing!Held /\ done =>
                Filing!Longer(lens, f, end, done)[f] = IF lens[f] < end THEN end
                                                       ELSE lens[f]
  BY <1>4 DEF Filing!Longer
<1>6. length' \in [Filing!File -> 0..MaxLen] /\ stored' \in [Filing!File -> 0..MaxLen]
  BY <1>1, <1>4, <1>5 DEF f
<1>7. ASSUME NEW g \in Filing!File, stored'[g] > 0
      PROVE  g \in Filing!Held /\ length'[g] >= stored'[g]
  <2>1. /\ length[g] \in 0..MaxLen /\ stored[g] \in 0..MaxLen
        /\ stored[g] > 0 => g \in Filing!Held /\ length[g] >= stored[g]
    BY DEF FilingSessionInv, FilingLengthInv, Filing!StoredStays
  <2>2. length' = Filing!Longer(length, f, end, written)
         /\ stored' = Filing!Longer(stored, f, end, good)
        /\ (good => written)
    BY <1>1 DEF f
  <2>3. CASE g = f /\ good /\ f \in Filing!Held
    <3>1. /\ length'[g] = IF length[g] < end THEN end ELSE length[g]
          /\ stored'[g] = IF stored[g] < end THEN end ELSE stored[g]
      BY <2>2, <2>3, <1>4, <1>5
    <3> QED BY <2>1, <2>3, <3>1, <1>4
  <2>4. CASE ~(g = f /\ good /\ f \in Filing!Held)
    <3>1. stored'[g] = stored[g]
      BY <2>2, <2>4, <1>4, <1>5
    <3>2. length'[g] >= length[g]
      <4>1. \/ length'[g] = length[g]
            \/ length'[g] = IF length[g] < end THEN end ELSE length[g]
        BY <2>2, <1>4, <1>5
      <4> QED BY <4>1, <2>1, <1>4
    <3>3. length'[g] \in 0..MaxLen
      BY <1>6
    <3> QED BY <2>1, <3>1, <3>2, <3>3, <1>7
  <2> QED BY <2>3, <2>4
<1> QED BY <1>2, <1>3, <1>6, <1>7 DEF FilingSessionInv, FilingLengthInv,
           Filing!StoredStays

LEMMA FilingSessionSetLength ==
    ASSUME Filing!Parameters, FilingSessionInv, NEW c \in Channel, Filing!SetLength(c)
    PROVE  FilingSessionInv'
<1>1. PICK p \in Path, len \in 0..MaxLen :
         /\ Filing!Occupant(p) # 0
         /\ length' = [length EXCEPT ![Filing!Occupant(p)] = len]
         /\ stored' = [stored EXCEPT ![Filing!Occupant(p)] =
                           IF len < stored[Filing!Occupant(p)] THEN len
                           ELSE stored[Filing!Occupant(p)]]
         /\ UNCHANGED <<tree, doing>>
  BY DEF Filing!SetLength
<1> DEFINE f == Filing!Occupant(p)
<1>2. FilingDoingInv' /\ FilingTreeInv(tree') /\ Filing!Held' = Filing!Held
  BY <1>1, FilingDoingStays, FilingTreeStays DEF FilingSessionInv
<1>3. f \in Filing!File /\ f \in Filing!Held
  <2>1. p \in DOMAIN tree /\ f = tree[p] /\ f # 0
    BY <1>1 DEF Filing!Occupant, Filing!IsFile, Filing!Exists
  <2>2. f \in 0..MaxFiles
    BY <2>1 DEF FilingSessionInv, FilingTreeInv
  <2> QED BY <2>1, <2>2 DEF Filing!File, Filing!Held, Filing!Parameters
<1> HIDE DEF f
<1>4. /\ length' = [length EXCEPT ![f] = len]
      /\ stored' = [stored EXCEPT ![f] = IF len < stored[f] THEN len ELSE stored[f]]
  BY <1>1 DEF f
<1>5. length \in [Filing!File -> 0..MaxLen] /\ stored \in [Filing!File -> 0..MaxLen]
  BY DEF FilingSessionInv, FilingLengthInv
<1>6. length' \in [Filing!File -> 0..MaxLen] /\ stored' \in [Filing!File -> 0..MaxLen]
  BY <1>3, <1>4, <1>5
<1>7. ASSUME NEW g \in Filing!File, stored'[g] > 0
      PROVE  g \in Filing!Held /\ length'[g] >= stored'[g]
  <2>1. /\ length[g] \in 0..MaxLen /\ stored[g] \in 0..MaxLen
        /\ stored[g] > 0 => g \in Filing!Held /\ length[g] >= stored[g]
    BY DEF FilingSessionInv, FilingLengthInv, Filing!StoredStays
  <2>2. CASE g = f
    <3>1. length'[g] = len /\ stored'[g] = IF len < stored[g] THEN len ELSE stored[g]
      BY <2>2, <1>4, <1>5
    <3> QED BY <2>1, <2>2, <3>1, <1>3
  <2>3. CASE g # f
    <3>1. length'[g] = length[g] /\ stored'[g] = stored[g]
      BY <2>3, <1>4, <1>5
    <3> QED BY <2>1, <3>1, <1>7
  <2> QED BY <2>2, <2>3
<1> QED BY <1>2, <1>6, <1>7 DEF FilingSessionInv, FilingLengthInv, Filing!StoredStays

LEMMA FilingSessionRemove ==
    ASSUME Filing!Parameters, FilingSessionInv, NEW c \in Channel, Filing!RemoveFile(c)
    PROVE  FilingSessionInv'
<1>1. PICK p \in Path :
         /\ Filing!IsFile(p) /\ stored' = [stored EXCEPT ![tree[p]] = 0]
         /\ length' = [length EXCEPT ![tree[p]] = 0]
         /\ tree' = Filing!Without(tree, {p}) /\ UNCHANGED doing
  BY DEF Filing!RemoveFile
<1>2. FilingDoingInv'
  BY <1>1, FilingDoingStays DEF FilingSessionInv
<1>3. /\ FilingTreeInv(tree')
      /\ \A x \in DOMAIN tree \ {p} : x \in DOMAIN tree' /\ tree'[x] = tree[x]
  BY <1>1, FilingTreeShrinks DEF FilingSessionInv
<1>4. length \in [Filing!File -> 0..MaxLen] /\ stored \in [Filing!File -> 0..MaxLen]
       /\ 0 \in 0..MaxLen
  BY DEF FilingSessionInv, FilingLengthInv, Filing!Parameters
<1>5. length' \in [Filing!File -> 0..MaxLen] /\ stored' \in [Filing!File -> 0..MaxLen]
  BY <1>1, <1>4
<1>6. \A g \in Filing!Held : g # tree[p] => g \in Filing!Held'
  BY <1>3 DEF Filing!Held
<1>7. ASSUME NEW g \in Filing!File, stored'[g] > 0
      PROVE  g \in Filing!Held' /\ length'[g] >= stored'[g]
  <2>1. g # tree[p]
    BY <1>1, <1>4, <1>7
  <2>2. stored'[g] = stored[g] /\ length'[g] = length[g]
    BY <2>1, <1>1, <1>4
  <2> QED BY <2>1, <2>2, <1>6, <1>7 DEF FilingSessionInv, FilingLengthInv,
             Filing!StoredStays
<1> QED BY <1>2, <1>3, <1>5, <1>7 DEF FilingSessionInv, FilingLengthInv,
           Filing!StoredStays

LEMMA FilingSessionDirs ==
    ASSUME Filing!Parameters, FilingSessionInv, NEW c \in Channel,
           Filing!MkDir(c) \/ Filing!RmDir(c)
    PROVE  FilingSessionInv'
<1>1. UNCHANGED <<length, stored, doing>>
  BY DEF Filing!MkDir, Filing!RmDir
<1>2. FilingDoingInv'
  BY <1>1, FilingDoingStays DEF FilingSessionInv
<1>3. CASE Filing!MkDir(c)
  <2>1. PICK p \in Path : ~Filing!Exists(p) /\ Filing!IsDir(Filing!Front(p)) /\ tree' = Filing!With(tree, p, 0)
    BY <1>3 DEF Filing!MkDir
  <2>2. 0 \in 0..MaxFiles /\ 0 \notin Filing!Held
    BY DEF Filing!Held, Filing!Parameters
  <2>3. FilingTreeInv(tree') /\ \A g \in Filing!Held : \E x \in DOMAIN tree' : tree'[x] = g
    BY <2>1, <2>2, FilingTreeGrows DEF FilingSessionInv
  <2>4. Filing!Held \subseteq Filing!Held'
    BY <2>3 DEF Filing!Held
  <2> QED BY <2>3, <2>4, <1>1, <1>2, FilingLengthStays DEF FilingSessionInv
<1>4. CASE Filing!RmDir(c)
  <2>1. PICK p \in Path \cup {Filing!Root} :
           Filing!IsDir(p) /\ Filing!Below(p) = {} /\ tree' = Filing!Without(tree, {p})
    BY <1>4 DEF Filing!RmDir
  <2>2. /\ FilingTreeInv(tree')
        /\ \A x \in DOMAIN tree \ {p} : x \in DOMAIN tree' /\ tree'[x] = tree[x]
    BY <2>1, FilingTreeShrinks DEF FilingSessionInv
  <2>3. Filing!Held \subseteq Filing!Held'
    BY <2>1, <2>2 DEF Filing!Held, Filing!IsDir
  <2> QED BY <2>2, <2>3, <1>1, <1>2, FilingLengthStays DEF FilingSessionInv
<1> QED BY <1>3, <1>4

LEMMA FilingSessionCheck ==
    ASSUME Filing!Parameters, FilingSessionInv, NEW c \in Channel, Filing!RenameCheck(c)
    PROVE  FilingSessionInv'
<1>1. PICK p \in Path, q \in Path :
         /\ ~Filing!Exists(q) /\ Filing!FilesStay
         /\ doing' = [doing EXCEPT ![c] = [Filing!Nothing EXCEPT !.op = "rename", !.from = p,
                                                          !.to = q, !.was = Filing!Occupant(q)]]
  BY DEF Filing!RenameCheck
<1>2. Filing!Occupant(q) = 0
  BY <1>1 DEF Filing!Occupant, Filing!IsFile
<1> DEFINE d == [Filing!Nothing EXCEPT !.op = "rename", !.from = p, !.to = q,
                 !.was = Filing!Occupant(q)]
<1>3. d.from = p /\ d.to = q /\ d.was = 0
  BY <1>2 DEF Filing!Nothing
<1>4. doing' = [doing EXCEPT ![c] = d]
  BY <1>1
<1> HIDE DEF d
<1> QED BY <1>1, <1>3, <1>4, FilingDoingOf, FilingFilesKept DEF FilingSessionInv

LEMMA FilingSessionMove ==
    ASSUME Filing!Parameters, FilingSessionInv, NEW c \in Channel, Filing!RenameMove(c)
    PROVE  FilingSessionInv'
<1> DEFINE p == doing[c].from   q == doing[c].to   f == Filing!Occupant(q)
<1>1. p \in Path /\ q \in Path /\ doing[c].was = 0
  BY DEF Filing!RenameMove, FilingSessionInv, FilingDoingInv
<1>2. FilingDoingInv'
  BY FilingDoingEnds DEF Filing!RenameMove, FilingSessionInv
<1>3. CASE ~Filing!Allowed(p, q)
  <2>1. Filing!FilesStay
    BY <1>3 DEF Filing!RenameMove, Filing!FilesStay
  <2> QED BY <2>1, <1>2, FilingFilesKept DEF FilingSessionInv
<1>4. CASE Filing!Allowed(p, q)
  <2>1. /\ tree' = Filing!Moved(p, q)
        /\ stored' = IF f # 0 THEN [stored EXCEPT ![f] = 0] ELSE stored
        /\ length' = IF f # 0 THEN [length EXCEPT ![f] = 0] ELSE length
    BY <1>1, <1>4 DEF Filing!RenameMove
  <2> HIDE DEF p, q
  <2>2. /\ FilingTreeInv(tree')
        /\ \A x \in DOMAIN tree \ {q} : \E y \in DOMAIN tree' : tree'[y] = tree[x]
    BY <1>1, <1>4, <2>1, FilingTreeMoves DEF FilingSessionInv
  <2>3. length \in [Filing!File -> 0..MaxLen] /\ stored \in [Filing!File -> 0..MaxLen]
         /\ 0 \in 0..MaxLen
    BY DEF FilingSessionInv, FilingLengthInv, Filing!Parameters
  <2>4. \A g \in Filing!Held : g # f => g \in Filing!Held'
    <3> SUFFICES ASSUME NEW g \in Filing!Held, g # f PROVE g \in Filing!Held'
      OBVIOUS
    <3>1. PICK x \in DOMAIN tree : tree[x] = g /\ g # 0
      BY DEF Filing!Held
    <3>2. x # q
      BY <3>1 DEF Filing!Occupant, Filing!IsFile, Filing!Exists
    <3> QED BY <3>1, <3>2, <2>2 DEF Filing!Held
  <2> HIDE DEF f
  <2>5. length' \in [Filing!File -> 0..MaxLen] /\ stored' \in [Filing!File -> 0..MaxLen]
    BY <2>1, <2>3
  <2>6. ASSUME NEW g \in Filing!File, stored'[g] > 0
        PROVE  g \in Filing!Held' /\ length'[g] >= stored'[g]
    <3>1. CASE g = f
      <4>1. f # 0
        BY <3>1 DEF Filing!File
      <4>2. stored'[g] = 0
        BY <3>1, <4>1, <2>1, <2>3
      <4> QED BY <4>2, <2>6
    <3>2. CASE g # f
      <4>1. stored'[g] = stored[g] /\ length'[g] = length[g]
        BY <3>2, <2>1, <2>3
      <4> QED BY <3>2, <4>1, <2>4, <2>6 DEF FilingSessionInv, FilingLengthInv,
                 Filing!StoredStays
    <3> QED BY <3>1, <3>2
  <2> QED BY <1>2, <2>2, <2>5, <2>6 DEF FilingSessionInv, FilingLengthInv,
             Filing!StoredStays
<1> QED BY <1>3, <1>4

LEMMA FilingSessionRestart ==
    ASSUME Filing!Parameters, FilingSessionInv, Filing!Restart
    PROVE  FilingSessionInv'
<1>1. FilingDoingInv'
  BY DEF Filing!Restart, FilingDoingInv, Filing!Nothing
<1>2. length' = length /\ stored' = stored
  BY DEF Filing!Restart
<1>3. CASE Filing!Exists(Filing!Root)
  <2>1. tree' = tree
    BY <1>3 DEF Filing!Restart
  <2> QED BY <1>1, <1>2, <2>1, FilingTreeStays, FilingLengthStays DEF FilingSessionInv
<1>4. CASE ~Filing!Exists(Filing!Root)
  <2>1. tree' = Filing!Top
    BY <1>4 DEF Filing!Restart
  <2>2. DOMAIN tree = {}
    <3> SUFFICES ASSUME NEW x \in DOMAIN tree PROVE FALSE
      OBVIOUS
    <3>1. Filing!IsPrefix(Filing!Root, x)
      <4>1. x \in Seq(Filing!Component) /\ Filing!Root \in Seq(Filing!Component)
             /\ Len(Filing!Root) = 0 /\ Len(x) \in Nat
        BY FilingPathIs DEF FilingSessionInv, FilingTreeInv
      <4>2. Len(Filing!Root) <= Len(x) /\ \A i \in 1..Len(Filing!Root) : Filing!Root[i] = x[i]
        BY <4>1
      <4> HIDE DEF Filing!Root
      <4> QED BY <4>1, <4>2, FilingPrefixIs
    <3>2. x = Filing!Root
      BY <3>1, <1>4, FilingNoneBelow DEF FilingSessionInv, Filing!IsDir
    <3> QED BY <3>2, <1>4 DEF Filing!Exists
  <2>3. Filing!Held \subseteq Filing!Held'
    BY <2>2 DEF Filing!Held
  <2> QED BY <1>1, <1>2, <2>1, <2>3, FilingTopIs, FilingLengthStays DEF FilingSessionInv
<1> QED BY <1>3, <1>4

LEMMA FilingSessionInvStep ==
    ASSUME Filing!Parameters, FilingHandleInv, FilingSessionInv,
           [Filing!Next]_(Filing!vars)
    PROVE  FilingSessionInv'
<1>1. CASE UNCHANGED Filing!vars
  BY <1>1, FilingDoingStays, FilingFilesKept DEF Filing!vars, Filing!FilesStay,
     FilingSessionInv
<1>2. CASE Filing!Restart
  BY <1>2, FilingSessionRestart
<1>3. ASSUME NEW c \in Channel,
             \/ Filing!OpenDir(c) \/ Filing!Open(c) \/ Filing!ReadDir(c) \/ Filing!Close(c)
             \/ Filing!ChannelEnds(c)
      PROVE  FilingSessionInv'
  <2>1. Filing!FilesStay /\ UNCHANGED doing
    BY <1>3 DEF Filing!OpenDir, Filing!Open, Filing!ReadDir, Filing!Close,
       Filing!ChannelEnds, Filing!NewHandle
  <2> QED BY <2>1, FilingDoingStays, FilingFilesKept DEF FilingSessionInv
<1>4. ASSUME NEW c \in Channel,
             \/ Filing!WriteOpen(c) \/ Filing!WriteData(c) \/ Filing!SetLength(c)
             \/ Filing!RemoveFile(c) \/ Filing!MkDir(c)
              \/ Filing!RmDir(c) \/ Filing!RenameCheck(c) \/ Filing!RenameMove(c)
      PROVE  FilingSessionInv'
  BY <1>4, FilingSessionWriteOpen, FilingSessionWriteData, FilingSessionSetLength,
     FilingSessionRemove, FilingSessionDirs,
     FilingSessionCheck, FilingSessionMove
<1> QED BY <1>1, <1>2, <1>3, <1>4 DEF Filing!Next

LEMMA FilingSessionInvInit == ASSUME Filing!Parameters, Filing!Init PROVE FilingSessionInv
<1>1. FilingTreeInv(tree) /\ FilingDoingInv
  BY FilingTopIs DEF Filing!Init, FilingDoingInv, Filing!Nothing
<1>2. \A f \in Filing!File : length[f] = 0 /\ stored[f] = 0
  BY DEF Filing!Init
<1>3. length \in [Filing!File -> 0..MaxLen] /\ stored \in [Filing!File -> 0..MaxLen]
  BY DEF Filing!Init, Filing!Parameters
<1> QED BY <1>1, <1>2, <1>3 DEF FilingSessionInv, FilingLengthInv, Filing!StoredStays

LEMMA FilingSessionTypeOK ==
    ASSUME Filing!Parameters, FilingHandleInv, FilingSessionInv
    PROVE  Filing!TypeOK
<1>1. ASSUME NEW p \in DOMAIN tree \ {Filing!Root} PROVE Filing!IsDir(Filing!Front(p))
  <2>1. p \in Path /\ Len(p) >= 1 /\ Len(p) \in Nat
         /\ Filing!Front(p) = FilingPart(p, Len(p) - 1)
    BY FilingPathIs DEF FilingSessionInv, FilingTreeInv
  <2>2. Len(p) - 1 \in 0..(Len(p) - 1)
    BY <2>1
  <2> QED BY <2>1, <2>2 DEF FilingSessionInv, FilingTreeInv, Filing!IsDir, Filing!Exists
<1>2. ASSUME NEW c \in Channel
      PROVE  /\ next_handle[c] \in 0..MaxOpens[c]
             /\ DOMAIN handles[c] \subseteq 1..MaxOpens[c]
             /\ \A h \in DOMAIN handles[c] : handles[c][h] \in Path \cup {Filing!Root}
  <2>1. /\ next_handle[c] \in 0..MaxOpens[c]
        /\ DOMAIN handles[c] \subseteq 1..next_handle[c]
        /\ \A h \in DOMAIN handles[c] : handles[c][h] \in Path \cup {Filing!Root}
    BY DEF FilingHandleInv, FilingChannelInv
  <2>2. 1..next_handle[c] \subseteq 1..MaxOpens[c]
    BY <2>1 DEF Filing!Parameters
  <2> QED BY <2>1, <2>2
<1> QED BY <1>1, <1>2 DEF FilingSessionInv, FilingTreeInv, FilingLengthInv, Filing!TypeOK

\* A handle leads where it was opened, and is listed once.
LEMMA FilingHandlesLead ==
    ASSUME Filing!Parameters
    PROVE  Filing!Init /\ [][Filing!Next]_(Filing!vars)
              => [](Filing!HandleKeepsPath /\ Filing!ListedOnce)
<1>1. Filing!Init => FilingHandleInv
  BY FilingHandleInvInit
<1>2. FilingHandleInv /\ [Filing!Next]_(Filing!vars) => FilingHandleInv'
  BY FilingHandleInvStep
<1> QED BY <1>1, <1>2, FilingHandleInvShows, PTL

\* What was acknowledged stays.
LEMMA FilingWrittenStays ==
    ASSUME Filing!Parameters
    PROVE  Filing!Init /\ [][Filing!Next]_(Filing!vars)
              => [](Filing!TypeOK /\ Filing!StoredStays)
<1> DEFINE Inv == FilingHandleInv /\ FilingSessionInv
<1>1. Filing!Init => Inv
  BY FilingHandleInvInit, FilingSessionInvInit
<1>2. Inv /\ [Filing!Next]_(Filing!vars) => Inv'
  BY FilingHandleInvStep, FilingSessionInvStep
<1>3. Inv => Filing!TypeOK /\ Filing!StoredStays
  BY FilingSessionTypeOK DEF FilingSessionInv, FilingLengthInv
<1> HIDE DEF Inv
<1> QED BY <1>1, <1>2, <1>3, PTL

-----------------------------------------------------------------------------
(* The composition: a step of it is a step of one part and none of the others. *)

LEMMA UpdatingMoves == Spec => Updating!Init /\ [][Updating!Next]_(Updating!vars)
<1>1. Init => Updating!Init
  BY DEF Init
<1>2. [Next]_vars => [Updating!Next]_(Updating!vars)
  <2>1. UNCHANGED updateVars => UNCHANGED Updating!vars
    BY DEF updateVars, Updating!vars, Updating!attempt
  <2>2. Next => Updating!Next \/ UNCHANGED updateVars
    BY DEF Next
  <2>3. UNCHANGED vars => UNCHANGED updateVars
    BY DEF vars
  <2> QED BY <2>1, <2>2, <2>3
<1> QED BY <1>1, <1>2, PTL DEF Spec

LEMMA IssuingMoves == Spec => Issuing!Init /\ [][Issuing!Next]_(Issuing!vars)
<1>1. Init => Issuing!Init
  BY DEF Init
<1>2. [Next]_vars => [Issuing!Next]_(Issuing!vars)
  <2>1. UNCHANGED acmeVars => UNCHANGED Issuing!vars
    BY DEF acmeVars, Issuing!vars, Issuing!keyVars, Issuing!caVars
  <2>2. Next => Issuing!Next \/ UNCHANGED acmeVars
    BY DEF Next
  <2>3. UNCHANGED vars => UNCHANGED acmeVars
    BY DEF vars
  <2> QED BY <2>1, <2>2, <2>3
<1> QED BY <1>1, <1>2, PTL DEF Spec

LEMMA WatchingMoves == Spec => Watching!Init /\ [][Watching!Next]_(Watching!vars)
<1>1. Init => Watching!Init
  BY DEF Init
<1>2. [Next]_vars => [Watching!Next]_(Watching!vars)
  <2>1. UNCHANGED watchdogVars => UNCHANGED Watching!vars
    BY DEF watchdogVars, Watching!vars
  <2>2. Next => Watching!Next \/ UNCHANGED watchdogVars
    BY DEF Next
  <2>3. UNCHANGED vars => UNCHANGED watchdogVars
    BY DEF vars
  <2> QED BY <2>1, <2>2, <2>3
<1> QED BY <1>1, <1>2, PTL DEF Spec

LEMMA AnnouncingMoves == Spec => Announcing!Init /\ [][Announcing!Next]_(Announcing!vars)
<1>1. Init => Announcing!Init
  BY DEF Init
<1>2. [Next]_vars => [Announcing!Next]_(Announcing!vars)
  <2>1. UNCHANGED duckdnsVars => UNCHANGED Announcing!vars
    BY DEF duckdnsVars, Announcing!vars
  <2>2. Next => Announcing!Next \/ UNCHANGED duckdnsVars
    BY DEF Next
  <2>3. UNCHANGED vars => UNCHANGED duckdnsVars
    BY DEF vars
  <2> QED BY <2>1, <2>2, <2>3
<1> QED BY <1>1, <1>2, PTL DEF Spec

LEMMA ZoningMoves == Spec => Zoning!Init /\ [][Zoning!Next]_(Zoning!vars)
<1>1. Init => Zoning!Init
  BY DEF Init
<1>2. [Next]_vars => [Zoning!Next]_(Zoning!vars)
  <2>1. UNCHANGED zoneVars => UNCHANGED Zoning!vars
    BY DEF zoneVars, Zoning!vars
  <2>2. Next => Zoning!Next \/ UNCHANGED zoneVars
    BY DEF Next
  <2>3. UNCHANGED vars => UNCHANGED zoneVars
    BY DEF vars
  <2> QED BY <2>1, <2>2, <2>3
<1> QED BY <1>1, <1>2, PTL DEF Spec

LEMMA TellingMoves == Spec => Telling!Init /\ [][Telling!Next]_(Telling!vars)
<1>1. Init => Telling!Init
  BY DEF Init
<1>2. [Next]_vars => [Telling!Next]_(Telling!vars)
  <2>1. UNCHANGED ddnsVars => UNCHANGED Telling!vars
    BY DEF ddnsVars, Telling!vars
  <2>2. Next => Telling!Next \/ UNCHANGED ddnsVars
    BY DEF Next
  <2>3. UNCHANGED vars => UNCHANGED ddnsVars
    BY DEF vars
  <2> QED BY <2>1, <2>2, <2>3
<1> QED BY <1>1, <1>2, PTL DEF Spec

LEMMA StartingMoves == Spec => Starting!Init /\ [][Starting!Next]_(Starting!vars)
<1>1. Init => Starting!Init
  BY DEF Init
<1>2. [Next]_vars => [Starting!Next]_(Starting!vars)
  <2>1. UNCHANGED sftpVars => UNCHANGED Starting!vars
    BY DEF sftpVars, Starting!vars
  <2>2. Next => Starting!Next \/ UNCHANGED sftpVars
    BY DEF Next
  <2>3. UNCHANGED vars => UNCHANGED sftpVars
    BY DEF vars
  <2> QED BY <2>1, <2>2, <2>3
<1> QED BY <1>1, <1>2, PTL DEF Spec

LEMMA FilingMoves == Spec => Filing!Init /\ [][Filing!Next]_(Filing!vars)
<1>1. Init => Filing!Init
  BY DEF Init
<1>2. [Next]_vars => [Filing!Next]_(Filing!vars)
  <2>1. UNCHANGED filesVars => UNCHANGED Filing!vars
    BY DEF filesVars, Filing!vars
  <2>2. Next => Filing!Next \/ UNCHANGED filesVars
    BY DEF Next
  <2>3. UNCHANGED vars => UNCHANGED filesVars
    BY DEF vars
  <2> QED BY <2>1, <2>2, <2>3
<1> QED BY <1>1, <1>2, PTL DEF Spec

\* A handle leads to the path it was opened with and lists a directory once, what was
\* acknowledged as written stays until a client removes or cuts it. Through every restart
\* a client meets the host key that it keeps, unless the file was lost with the power;
\* only a key file that was cut short keeps the server from starting; whoever is logged
\* in has a listed key, or came with an allowed password.
THEOREM FilesAndLoginsAsTold == Spec => []FilesAsTold
<1>1. /\ Filing!HandleKeepsPath /\ Filing!ListedOnce /\ Filing!TypeOK
      /\ Filing!StoredStays
      /\ Starting!SameHostKey /\ Starting!UnreadableOnlyIfCut /\ Starting!LetInAsTold
      => FilesAsTold
  BY DEF FilesAsTold
<1> QED BY <1>1, Assumptions, FilingMoves, FilingHandlesLead, FilingWrittenStays,
           StartingMoves, StartingOneHostKey, StartingOnlyIfCut, StartingLetIn, PTL

\* A certificate is ordered again only after as many failed checks as the threshold
\* asks for, for a host that was registered, and a host without one is not passed over.
THEOREM RepairsWhenDue == Spec => []RepairsDue
<1>1. Watching!ReissueJustified /\ Watching!AsksForRegistered /\ Watching!NeverLeftWaiting
        => RepairsDue
  BY DEF RepairsDue
<1> QED BY <1>1, Assumptions, WatchingMoves, WatchingDue, WatchingServed, PTL

\* What the address loops count as told is in the provider's record and in the zone,
\* unless the provider refused it under a status of success or a request whose answer
\* was lost came later; a name that was removed has no status, a zone holds nothing but
\* addresses, and the loop of ddns.rs counts a new address as told in time and looks
\* alive as long as it is, but for the long nap.
THEOREM AddressesToldWell == Spec => []AddressesTold
<1>1. /\ Announcing!ToldIsThere /\ Announcing!GoneIsGone
      /\ Zoning!ToldInZone /\ Zoning!OnlyAddresses
      /\ Telling!ToldInTime /\ Telling!ToldIsTaken /\ Telling!AliveLooksAlive
      => AddressesTold
  BY DEF AddressesTold
<1> QED BY <1>1, Assumptions, AnnouncingMoves, AnnouncingTold, AnnouncingGone,
           ZoningMoves,
           ZoningInZone, ZoningAddressesOnly, TellingMoves, TellingInTime, TellingTaken,
           TellingLooksAlive, PTL

\* An update that comes to its end, or is rolled back, leaves a sound binary in place:
\* only one cut short by an error or a crash may not. A version that does not pass the
\* health check never serves.
THEOREM UpdatesDoNoHarm == Spec => []UpdateHarmless
<1>1. Updating!BinaryPutRight /\ Updating!NeverUnsound => UpdateHarmless
  BY DEF UpdateHarmless
<1> QED BY <1>1, Assumptions, UpdatingMoves, UpdatingPutRight, UpdatingHandsOver, PTL

\* While the CA may ask for the answer of a challenge it is served, a token is left
\* behind only by a call that ended early, and the account key in use is on disk.
THEOREM IssuedSoundly == Spec => []IssuanceSound
<1>1. Issuing!ChallengeServed /\ Issuing!TokensAccounted /\ Issuing!KeyOnDisk
        => IssuanceSound
  BY DEF IssuanceSound
<1> QED BY <1>1, Assumptions, IssuingMoves, IssuingAnswerThere, IssuingNoneForgotten,
           IssuingKeyStays, PTL
=============================================================================

-------------------------- MODULE ConnectionProofs --------------------------
(***************************************************************************)
(* Proofs about the connection: type correctness, that a configuration     *)
(* says why it has no token, and that the vault's envelope is written once *)
(* (Connection implements EnvelopeRegister).                               *)
(***************************************************************************)
EXTENDS Connection, TLAPS

USE ConnectionAssumption

\* What CredentialsAreExplained says of a stored configuration, when R are revoked.
Explained(c, R) ==
    c # NoConfig =>
        /\ c.token = 0 <=> c.reason # "none"
        /\ c.reason = "device_revoked" => c.device \in R

\* What a sync in flight relies on: its panel is open, it has a token, what it uploads is
\* an envelope, and the server told it the truth about its device.
SyncOK(d) ==
    /\ sync[d].step # "idle" => panel[d].open /\ sync[d].config.token # 0
    /\ sync[d].step \in {"put", "generate"} => sync[d].envelope \in Envelopes
    /\ sync[d].step = "end" /\ sync[d].outcome = "device_revoked" =>
           sync[d].config.device \in revoked

\* An old configuration may be saved at any time, so that all of them are explained.
DeviceOK(d) ==
    /\ panel[d].open => panel[d].password \in Passwords /\ panel[d].dek \in Keys
    /\ SyncOK(d)
    /\ Explained(stored[d].config, revoked)
    /\ Explained(panel[d].config, revoked)
    /\ Explained(sync[d].config, revoked)

\* What chrome.storage holds of a device.
Storage == [envelope : Envelopes \union {NoEnvelope}, config : Config]

Inv == TypeOK /\ \A d \in Devices : DeviceOK(d)

-----------------------------------------------------------------------------
(***************************************************************************)
(* Lemmas about the operators.                                             *)
(***************************************************************************)
\* What is fresh is one of the fresh ones.
LEMMA FreshIsOne == ASSUME NEW S, S # {} PROVE Fresh(S) \in S
BY DEF Fresh

\* The empty values are well formed.
LEMMA EmptyTypes ==
    /\ NoConfig \in Config /\ NoConfig.token = 0 /\ NoConfig.reason = "none"
    /\ ClosedPanel \in Panel /\ ClosedPanel.config = NoConfig /\ ~ClosedPanel.open
    /\ NoSync \in Sync /\ NoSync.config = NoConfig /\ NoSync.step = "idle"
    /\ NotTold \in Told
<1>1. NoConfig \in Config
  BY DEF NoConfig, Config
<1> QED BY <1>1 DEF NoConfig, ClosedPanel, Panel, NoSync, Sync, NoEnvelope, Outcomes, NotTold, Told

\* A configuration whose credentials expired is explained, if it is not said to be revoked
\* or is.
LEMMA ExpireExplains ==
    ASSUME NEW R, NEW c \in Config, NEW r \in {"expired", "device_revoked"},
           r = "device_revoked" => c.device \in R
    PROVE  /\ ExpireRemoteCredentials(c, r) \in Config
           /\ Explained(ExpireRemoteCredentials(c, r), R)
BY DEF ExpireRemoteCredentials, Config, Explained

\* A configuration whose status changes stays explained, if it has a token.
LEMMA StatusExplains ==
    ASSUME NEW R, NEW c \in Config, NEW s \in {"pending", "synced", "failed"},
           Explained(c, R), c.token # 0
    PROVE  [c EXCEPT !.status = s] \in Config /\ Explained([c EXCEPT !.status = s], R)
<1>1. c # NoConfig
  BY DEF NoConfig
<1> QED BY <1>1 DEF Config, Explained

\* Loading a configuration keeps it explained.
LEMMA LoadedExplains ==
    ASSUME NEW R, NEW c \in Config, Explained(c, R)
    PROVE  Loaded(c) \in Config /\ Explained(Loaded(c), R)
<1>1. CASE c.lost
  <2>1. [c EXCEPT !.lost = FALSE] \in Config
    BY DEF Config
  <2> QED BY <1>1, <2>1, ExpireExplains DEF Loaded
<1>2. CASE ~c.lost
  BY <1>2 DEF Loaded
<1> QED BY <1>1, <1>2

\* What is explained stays so when more devices are revoked.
LEMMA ExplainedMonotone ==
    ASSUME NEW R, NEW S, R \subseteq S, NEW c, Explained(c, R)
    PROVE  Explained(c, S)
BY DEF Explained

\* A step of one device that leaves the others alone, and makes no revoked device good.
LEMMA OthersKept ==
    ASSUME Inv, NEW d \in Devices, TypeOK', DeviceOK(d)', revoked \subseteq revoked',
           \A e \in Devices \ {d} : /\ stored'[e] = stored[e] /\ panel'[e] = panel[e]
                                    /\ sync'[e] = sync[e]
    PROVE  Inv'
<1>1. ASSUME NEW e \in Devices \ {d} PROVE DeviceOK(e)'
  <2>1. DeviceOK(e)
    BY DEF Inv
  <2>2. stored'[e] = stored[e] /\ panel'[e] = panel[e] /\ sync'[e] = sync[e]
    OBVIOUS
  <2> QED BY <2>1, <2>2 DEF DeviceOK, SyncOK, Explained
<1> QED BY <1>1 DEF Inv

\* A sync that begins has a token, in a panel that is open.
LEMMA BegunOK ==
    ASSUME TypeOK, NEW d \in Devices, NEW c \in Config, SyncOK(d),
           Explained(sync[d].config, revoked), Explained(c, revoked),
           revoked \subseteq revoked', sync' = Begun(d, c), panel'[d].open
    PROVE  /\ sync' \in [Devices -> Sync]
           /\ \A e \in Devices \ {d} : sync'[e] = sync[e]
           /\ SyncOK(d)' /\ Explained(sync'[d].config, revoked')
<1>1. CASE c.token # 0 /\ sync[d].step = "idle"
  <2> DEFINE new == [NoSync EXCEPT !.step = "vault", !.config = c]
  <2>1. sync' = [sync EXCEPT ![d] = new]
    BY <1>1 DEF Begun
  <2>2. new \in Sync /\ new.step = "vault" /\ new.config = c
    BY EmptyTypes DEF Sync
  <2> HIDE DEF new
  <2>3. sync' \in [Devices -> Sync] /\ sync'[d] = new /\ \A e \in Devices \ {d} : sync'[e] = sync[e]
    BY <2>1, <2>2 DEF TypeOK
  <2>4. Explained(sync'[d].config, revoked')
    BY <2>2, <2>3, ExplainedMonotone
  <2> QED BY <1>1, <2>2, <2>3, <2>4 DEF SyncOK
<1>2. CASE ~(c.token # 0 /\ sync[d].step = "idle")
  <2>1. sync' = sync
    BY <1>2 DEF Begun
  <2>2. Explained(sync'[d].config, revoked')
    BY <2>1, ExplainedMonotone
  <2> QED BY <2>1, <2>2 DEF SyncOK, TypeOK
<1> QED BY <1>1, <1>2

\* Storing a configuration changes that of the device, in chrome.storage and in its panel.
LEMMA SaveConfigOK ==
    ASSUME TypeOK, NEW d \in Devices, NEW c \in Config, SaveConfig(d, c)
    PROVE  /\ stored' \in [Devices -> Storage] /\ panel' \in [Devices -> Panel]
           /\ stored'[d].config = c /\ panel'[d].config = c
           /\ panel'[d].open = panel[d].open /\ panel'[d].password = panel[d].password
           /\ panel'[d].dek = panel[d].dek
           /\ \A e \in Devices \ {d} : stored'[e] = stored[e] /\ panel'[e] = panel[e]
<1>1. /\ stored' \in [Devices -> Storage] /\ stored'[d].config = c
      /\ \A e \in Devices \ {d} : stored'[e] = stored[e]
  BY DEF SaveConfig, TypeOK, Storage
<1>2. /\ panel' \in [Devices -> Panel] /\ panel'[d].config = c
      /\ panel'[d].open = panel[d].open /\ panel'[d].password = panel[d].password
      /\ panel'[d].dek = panel[d].dek
      /\ \A e \in Devices \ {d} : panel'[e] = panel[e]
  <2> DEFINE new == [panel[d] EXCEPT !.config = c, !.refused = FALSE]
  <2>1. panel' = [panel EXCEPT ![d] = new]
    BY DEF SaveConfig
  <2>2. /\ new \in Panel /\ new.config = c /\ new.open = panel[d].open
        /\ new.password = panel[d].password /\ new.dek = panel[d].dek
    BY DEF TypeOK, Panel
  <2> HIDE DEF new
  <2> QED BY <2>1, <2>2 DEF TypeOK
<1> QED BY <1>1, <1>2

\* A device whose panel is closed has no sync.
LEMMA ClosedOK ==
    ASSUME TypeOK, NEW d \in Devices, Closed(d)
    PROVE  /\ panel' \in [Devices -> Panel] /\ sync' \in [Devices -> Sync]
           /\ told' \in [Devices -> Told]
           /\ panel'[d] = ClosedPanel /\ sync'[d] = NoSync
           /\ \A e \in Devices \ {d} : panel'[e] = panel[e] /\ sync'[e] = sync[e]
BY EmptyTypes DEF Closed, Tell, TypeOK, Told

\* What the server tells a device is well formed.
LEMMA TellOK ==
    ASSUME TypeOK, NEW d \in Devices, NEW what \in {"nothing", "vault", "put", "conflict"},
           NEW e \in Envelopes \union {NoEnvelope}, Tell(d, what, e)
    PROVE  told' \in [Devices -> Told]
BY DEF Tell, TypeOK, Told

\* The end of a sync says what it judged.
LEMMA EndOK ==
    ASSUME TypeOK, NEW d \in Devices, NEW outcome \in Outcomes, End(d, outcome)
    PROVE  /\ sync' \in [Devices -> Sync]
           /\ sync'[d].step = "end" /\ sync'[d].outcome = outcome
           /\ sync'[d].config = sync[d].config
           /\ \A e \in Devices \ {d} : sync'[e] = sync[e]
BY DEF End, TypeOK, Sync

\* A sync that ends keeps its device in order, if it is not said to be revoked or is.
LEMMA EndKeeps ==
    ASSUME TypeOK, NEW d \in Devices, DeviceOK(d), NEW outcome \in Outcomes,
           sync[d].step # "idle", End(d, outcome), panel' = panel, revoked' = revoked,
           stored'[d].config = stored[d].config,
           outcome = "device_revoked" => sync[d].config.device \in revoked
    PROVE  DeviceOK(d)'
<1>1. /\ sync'[d].step = "end" /\ sync'[d].outcome = outcome
      /\ sync'[d].config = sync[d].config
  BY EndOK
<1> QED BY <1>1 DEF DeviceOK, SyncOK

\* A sync goes on to its next step.
LEMMA GoesOn ==
    ASSUME TypeOK, NEW d \in Devices, DeviceOK(d), NEW s \in Sync,
           sync' = [sync EXCEPT ![d] = s], sync[d].step # "idle",
           s.step \in {"put", "generate", "records"}, s.config = sync[d].config,
           s.step # "records" => s.envelope \in Envelopes,
           panel' = panel, revoked' = revoked, stored'[d].config = stored[d].config
    PROVE  /\ sync' \in [Devices -> Sync] /\ DeviceOK(d)'
           /\ \A x \in Devices \ {d} : sync'[x] = sync[x]
<1>1. /\ sync' \in [Devices -> Sync] /\ sync'[d] = s
      /\ \A x \in Devices \ {d} : sync'[x] = sync[x]
  BY DEF TypeOK
<1> QED BY <1>1 DEF DeviceOK, SyncOK

\* What goes wrong is counted.
LEMMA FaultOK ==
    ASSUME TypeOK, NEW d \in Devices, Fault(d)
    PROVE  faults' \in 0 .. MaxFaults /\ made' \in 0 .. MaxRecords
BY DEF Fault, TypeOK

-----------------------------------------------------------------------------
(***************************************************************************)
(* The users' steps keep the invariant.                                    *)
(***************************************************************************)
LEMMA SetupKeeps ==
    ASSUME Inv, NEW d \in Devices, NEW pw \in Choices[d], HandleSetupPassword(d, pw)
    PROVE  Inv'
<1> DEFINE key == Fresh(FreshKeys)
           e == [key |-> key, password |-> pw]
           c == Loaded(stored[d].config)
           new == [ClosedPanel EXCEPT !.open = TRUE, !.password = pw, !.dek = key, !.config = c]
<1>1. key \in Keys /\ pw \in Passwords
  BY FreshIsOne DEF FreshKeys, HandleSetupPassword
<1>2. c \in Config /\ Explained(c, revoked)
  BY LoadedExplains DEF Inv, TypeOK, DeviceOK
<1>3. /\ stored' = [stored EXCEPT ![d] = [envelope |-> e, config |-> c]]
      /\ panel' = [panel EXCEPT ![d] = new]
      /\ UNCHANGED <<serverVars, told, waiting, sync, made, faults>>
  BY DEF HandleSetupPassword
<1> HIDE DEF key, c
<1>4. e \in Envelopes
  BY <1>1 DEF Envelopes
<1>5. new \in Panel /\ new.open /\ new.password = pw /\ new.config = c
      /\ new.dek = key
  BY <1>1, <1>2, EmptyTypes DEF Panel
<1> HIDE DEF e, new
<1>6. /\ stored' \in [Devices -> Storage] /\ stored'[d].config = c
      /\ \A x \in Devices \ {d} : stored'[x] = stored[x]
  BY <1>2, <1>3, <1>4 DEF Inv, TypeOK, Storage
<1>7. /\ panel' \in [Devices -> Panel] /\ panel'[d] = new
      /\ \A x \in Devices \ {d} : panel'[x] = panel[x]
  BY <1>3, <1>5 DEF Inv, TypeOK
<1>8. TypeOK'
  BY <1>3, <1>6, <1>7 DEF Inv, TypeOK, serverVars, Storage
<1>9. DeviceOK(d)'
  BY <1>1, <1>2, <1>3, <1>5, <1>6, <1>7 DEF Inv, DeviceOK, SyncOK, serverVars
<1> QED BY <1>3, <1>6, <1>7, <1>8, <1>9, OthersKept DEF serverVars

LEMMA UnlockedKeeps ==
    ASSUME Inv, NEW d \in Devices, HandleUnlocked(d)
    PROVE  Inv'
<1> DEFINE e == stored[d].envelope
           c == Loaded(stored[d].config)
           new == [open |-> TRUE, password |-> e.password, dek |-> e.key, config |-> c,
                   refused |-> FALSE]
<1>1. e \in Envelopes
  BY DEF Inv, TypeOK, HandleUnlocked
<1>2. c \in Config /\ Explained(c, revoked)
  BY LoadedExplains DEF Inv, TypeOK, DeviceOK
<1>3. /\ stored' = [stored EXCEPT ![d].config = c]
      /\ panel' = [panel EXCEPT ![d] = new]
      /\ sync' = Begun(d, c)
      /\ UNCHANGED <<serverVars, told, waiting, made, faults>>
  BY DEF HandleUnlocked
<1> HIDE DEF e, c
<1>4. /\ new \in Panel /\ new.open /\ new.config = c
      /\ new.password \in Passwords /\ new.dek \in Keys
  BY <1>1, <1>2 DEF Panel, Envelopes
<1> HIDE DEF new
<1>5. /\ stored' \in [Devices -> Storage] /\ stored'[d].config = c
      /\ \A x \in Devices \ {d} : stored'[x] = stored[x]
  BY <1>2, <1>3 DEF Inv, TypeOK, Storage
<1>6. /\ panel' \in [Devices -> Panel] /\ panel'[d] = new
      /\ \A x \in Devices \ {d} : panel'[x] = panel[x]
  BY <1>3, <1>4 DEF Inv, TypeOK
<1>7. /\ sync' \in [Devices -> Sync] /\ SyncOK(d)' /\ Explained(sync'[d].config, revoked')
      /\ \A x \in Devices \ {d} : sync'[x] = sync[x]
  BY <1>2, <1>3, <1>4, <1>6, BegunOK DEF Inv, DeviceOK, serverVars
<1>8. TypeOK'
  BY <1>3, <1>5, <1>6, <1>7 DEF Inv, TypeOK, serverVars, Storage
<1>9. DeviceOK(d)'
  BY <1>2, <1>3, <1>4, <1>5, <1>6, <1>7 DEF DeviceOK, serverVars
<1> QED BY <1>3, <1>5, <1>6, <1>7, <1>8, <1>9, OthersKept DEF serverVars

\* A sync begins with the configuration of the panel.
LEMMA BeginKeeps ==
    ASSUME Inv, NEW d \in Devices, panel[d].open, sync' = Begun(d, panel[d].config),
           waiting' \in [Devices -> SUBSET Keys], made' \in 0 .. MaxRecords,
           UNCHANGED <<serverVars, told, stored, panel, faults>>
    PROVE  Inv'
<1>1. panel[d].config \in Config
  BY DEF Inv, TypeOK, Panel
<1>2. /\ sync' \in [Devices -> Sync] /\ SyncOK(d)' /\ Explained(sync'[d].config, revoked')
      /\ \A x \in Devices \ {d} : sync'[x] = sync[x]
  BY <1>1, BegunOK DEF Inv, DeviceOK, serverVars
<1>3. TypeOK'
  BY <1>2 DEF Inv, TypeOK, serverVars
<1>4. DeviceOK(d)'
  BY <1>2 DEF Inv, DeviceOK, serverVars
<1> QED BY <1>2, <1>3, <1>4, OthersKept DEF serverVars

LEMMA AddRecordKeeps ==
    ASSUME Inv, NEW d \in Devices, AddRecord(d)
    PROVE  Inv'
<1>1. waiting' \in [Devices -> SUBSET Keys]
  BY DEF AddRecord, Inv, TypeOK, DeviceOK
<1>2. made' \in 0 .. MaxRecords
  BY DEF AddRecord, Inv, TypeOK
<1> QED BY <1>1, <1>2, BeginKeeps DEF AddRecord

LEMMA TriggerSyncKeeps ==
    ASSUME Inv, NEW d \in Devices, HandleTriggerSync(d)
    PROVE  Inv'
BY BeginKeeps DEF HandleTriggerSync, Inv, TypeOK

\* A configuration is stored, and perhaps a sync begins with it.
LEMMA SaveKeeps ==
    ASSUME Inv, NEW d \in Devices, NEW c \in Config, Explained(c, revoked'),
           SaveConfig(d, c), panel[d].open, revoked \subseteq revoked',
           \/ sync' = sync
           \/ sync' = Begun(d, c) /\ Explained(c, revoked),
           live' \subseteq Ids, revoked' \subseteq Ids,
           faults' \in 0 .. MaxFaults, UNCHANGED <<envelope, records, told, waiting, made>>
    PROVE  Inv'
<1>1. /\ stored' \in [Devices -> Storage] /\ panel' \in [Devices -> Panel]
      /\ stored'[d].config = c /\ panel'[d].config = c
      /\ panel'[d].open = panel[d].open /\ panel'[d].password = panel[d].password
      /\ panel'[d].dek = panel[d].dek
      /\ \A e \in Devices \ {d} : stored'[e] = stored[e] /\ panel'[e] = panel[e]
  BY SaveConfigOK DEF Inv
<1>2. /\ sync' \in [Devices -> Sync] /\ SyncOK(d)' /\ Explained(sync'[d].config, revoked')
      /\ \A x \in Devices \ {d} : sync'[x] = sync[x]
  <2>1. CASE sync' = sync
    <3>1. Explained(sync'[d].config, revoked')
      BY <2>1, ExplainedMonotone DEF Inv, DeviceOK
    <3> QED BY <1>1, <2>1, <3>1 DEF Inv, TypeOK, DeviceOK, SyncOK
  <2>2. CASE sync' = Begun(d, c) /\ Explained(c, revoked)
    BY <1>1, <2>2, BegunOK DEF Inv, DeviceOK
  <2> QED BY <2>1, <2>2
<1>3. TypeOK'
  BY <1>1, <1>2 DEF Inv, TypeOK, Storage
<1>4. DeviceOK(d)'
  BY <1>1, <1>2 DEF Inv, DeviceOK
<1> QED BY <1>1, <1>2, <1>3, <1>4, OthersKept


LEMMA ConnectKeeps ==
    ASSUME Inv, NEW d \in Devices, HandleRemoteConnect(d)
    PROVE  Inv'
<1> DEFINE n == Fresh(FreshIds)
           c == [NoConfig EXCEPT !.token = n, !.device = n, !.status = "pending"]
<1>1. n \in FreshIds
  BY FreshIsOne DEF HandleRemoteConnect
<1>2. n \in Ids /\ n # 0 /\ \A x \in ConfigsInUse : n # x.device
  BY <1>1 DEF FreshIds, Ids
<1>3. /\ panel[d].open
      /\ live' = live \union {n} /\ revoked' = revoked \ {n}
      /\ SaveConfig(d, c) /\ sync' = Begun(d, c)
      /\ UNCHANGED <<envelope, records, told, waiting, made, faults>>
  BY DEF HandleRemoteConnect
<1> HIDE DEF n
<1>4. c \in Config /\ c.token = n /\ c.reason = "none"
  BY <1>2, EmptyTypes DEF Config
<1> HIDE DEF c
<1>5. Explained(c, revoked')
  BY <1>2, <1>4 DEF Explained
\* The invariant, had the new device not been made good: nothing refers to it.
<1>6. \A e \in Devices : /\ Explained(stored[e].config, revoked')
                         /\ Explained(panel[e].config, revoked')
                         /\ Explained(sync[e].config, revoked')
                         /\ sync[e].config.device \in revoked => sync[e].config.device \in revoked'
  <2> TAKE e \in Devices
  <2>1. stored[e].config \in ConfigsInUse /\ panel[e].config \in ConfigsInUse
        /\ sync[e].config \in ConfigsInUse
    BY DEF ConfigsInUse, ConfigsOf
  <2>2. DeviceOK(e)
    BY DEF Inv
  <2> QED BY <1>2, <1>3, <2>1, <2>2 DEF DeviceOK, Explained
<1>7. /\ stored' \in [Devices -> Storage] /\ panel' \in [Devices -> Panel]
      /\ stored'[d].config = c /\ panel'[d].config = c
      /\ panel'[d].open = panel[d].open /\ panel'[d].password = panel[d].password
      /\ panel'[d].dek = panel[d].dek
      /\ \A e \in Devices \ {d} : stored'[e] = stored[e] /\ panel'[e] = panel[e]
  BY <1>3, <1>4, SaveConfigOK DEF Inv
<1>8. /\ sync' \in [Devices -> Sync]
      /\ sync'[d] = sync[d] \/ sync'[d] = [NoSync EXCEPT !.step = "vault", !.config = c]
      /\ \A e \in Devices \ {d} : sync'[e] = sync[e]
  <2> DEFINE new == [NoSync EXCEPT !.step = "vault", !.config = c]
  <2>1. new \in Sync
    BY <1>4, EmptyTypes DEF Sync
  <2>2. sync' = sync \/ sync' = [sync EXCEPT ![d] = new]
    BY <1>3 DEF Begun
  <2> HIDE DEF new
  <2>3. /\ sync' \in [Devices -> Sync]
        /\ sync'[d] = sync[d] \/ sync'[d] = new
        /\ \A e \in Devices \ {d} : sync'[e] = sync[e]
    BY <2>1, <2>2 DEF Inv, TypeOK
  <2> QED BY <2>3 DEF new
<1>9. DeviceOK(d)'
  <2>1. DeviceOK(d)
    BY DEF Inv
  <2>2. CASE sync'[d] = sync[d]
    BY <1>3, <1>5, <1>6, <1>7, <2>1, <2>2 DEF DeviceOK, SyncOK
  <2>3. CASE sync'[d] = [NoSync EXCEPT !.step = "vault", !.config = c]
    <3>1. sync'[d].step = "vault" /\ sync'[d].config = c
      BY <2>3 DEF NoSync
    <3> QED BY <1>2, <1>3, <1>4, <1>5, <1>7, <2>1, <3>1 DEF DeviceOK, SyncOK
  <2> QED BY <1>8, <2>2, <2>3
<1>10. ASSUME NEW e \in Devices \ {d} PROVE DeviceOK(e)'
  <2>1. DeviceOK(e)
    BY DEF Inv
  <2>2. stored'[e] = stored[e] /\ panel'[e] = panel[e] /\ sync'[e] = sync[e]
    BY <1>7, <1>8
  <2> QED BY <1>6, <2>1, <2>2 DEF DeviceOK, SyncOK
<1>11. TypeOK'
  BY <1>2, <1>3, <1>7, <1>8 DEF Inv, TypeOK, Storage
<1> QED BY <1>9, <1>10, <1>11 DEF Inv

LEMMA ReLoginKeeps ==
    ASSUME Inv, NEW d \in Devices, HandleRemoteReLogin(d)
    PROVE  Inv'
<1> DEFINE c == panel[d].config
<1>1. c \in Config
  BY DEF Inv, TypeOK, Panel
<1>2. CASE c.device \in revoked
  <2>1. /\ panel' = [panel EXCEPT ![d].refused = TRUE]
        /\ UNCHANGED <<serverVars, told, stored, waiting, sync, made, faults>>
    BY <1>2 DEF HandleRemoteReLogin, serverVars
  <2>2. /\ panel' \in [Devices -> Panel]
        /\ panel'[d].open = panel[d].open /\ panel'[d].password = panel[d].password
        /\ panel'[d].dek = panel[d].dek /\ panel'[d].config = panel[d].config
        /\ \A e \in Devices \ {d} : panel'[e] = panel[e]
    BY <2>1 DEF Inv, TypeOK, Panel
  <2>3. TypeOK'
    BY <2>1, <2>2 DEF Inv, TypeOK, serverVars
  <2>4. DeviceOK(d)'
    BY <2>1, <2>2 DEF Inv, DeviceOK, SyncOK, serverVars
  <2> QED BY <2>1, <2>2, <2>3, <2>4, OthersKept DEF serverVars
<1>3. CASE c.device \notin revoked
  <2> DEFINE n == Fresh(FreshIds)
             new == [RestoreRemoteCredentials(c, n) EXCEPT !.status = "pending"]
  <2>1. n \in Ids /\ n # 0
    <3>1. n \in FreshIds
      BY <1>3, FreshIsOne DEF HandleRemoteReLogin
    <3> QED BY <3>1 DEF FreshIds, Ids
  <2>2. /\ panel[d].open
        /\ live' = live \union {n} /\ SaveConfig(d, new) /\ sync' = Begun(d, new)
        /\ UNCHANGED <<envelope, records, revoked, told, waiting, made, faults>>
    BY <1>3 DEF HandleRemoteReLogin
  <2> HIDE DEF n, c
  <2>3. new \in Config /\ new.token = n /\ new.reason = "none"
    BY <1>1, <2>1 DEF Config, RestoreRemoteCredentials
  <2> HIDE DEF new
  <2>4. Explained(new, revoked)
    BY <2>1, <2>3 DEF Explained
  <2> QED BY <2>1, <2>2, <2>3, <2>4, SaveKeeps DEF Inv, TypeOK
<1> QED BY <1>2, <1>3

\* The connection is removed, whoever asks for it.
LEMMA RemovedKeeps ==
    ASSUME Inv, NEW d \in Devices, panel[d].open, SaveConfig(d, NoConfig),
           faults' \in 0 .. MaxFaults, UNCHANGED <<serverVars, told, waiting, sync, made>>
    PROVE  Inv'
<1>1. NoConfig \in Config /\ Explained(NoConfig, revoked')
  BY EmptyTypes DEF Explained
<1> QED BY <1>1, SaveKeeps DEF serverVars, Inv, TypeOK

-----------------------------------------------------------------------------
(***************************************************************************)
(* The steps of runSync keep the invariant.                                *)
(***************************************************************************)
\* A sync ends, and what it stored is the envelope at most.
LEMMA EndsKeeps ==
    ASSUME Inv, NEW d \in Devices, NEW outcome \in Outcomes, End(d, outcome),
           sync[d].step # "idle",
           outcome = "device_revoked" => sync[d].config.device \in revoked,
           envelope' \in Envelopes \union {NoEnvelope}, records' \subseteq Keys,
           told' \in [Devices -> Told], waiting' \in [Devices -> SUBSET Keys],
           faults' \in 0 .. MaxFaults,
           UNCHANGED <<live, revoked, stored, panel, made>>
    PROVE  Inv'
<1>1. sync' \in [Devices -> Sync] /\ \A e \in Devices \ {d} : sync'[e] = sync[e]
  BY EndOK DEF Inv
<1>2. DeviceOK(d)'
  BY EndKeeps DEF Inv
<1>3. TypeOK'
  BY <1>1 DEF Inv, TypeOK
<1> QED BY <1>1, <1>2, <1>3, OthersKept

LEMMA RefusedKeeps ==
    ASSUME Inv, NEW d \in Devices, Refused(d)
    PROVE  Inv'
<1>1. /\ Judgement(d) \in Outcomes
      /\ Judgement(d) = "device_revoked" => sync[d].config.device \in revoked
  BY DEF Judgement, Outcomes
<1> QED BY <1>1, EndsKeeps DEF Refused, serverVars, Inv, TypeOK

LEMMA RequestFailsKeeps ==
    ASSUME Inv, NEW d \in Devices, RequestFails(d)
    PROVE  Inv'
<1>1. "error" \in Outcomes
  BY DEF Outcomes
<1>2. UNCHANGED made /\ faults' \in 0 .. MaxFaults
  BY FaultOK DEF RequestFails, Fault, Inv
<1> QED BY <1>1, <1>2, EndsKeeps DEF RequestFails, serverVars, Inv, TypeOK

LEMMA GetVaultKeeps ==
    ASSUME Inv, NEW d \in Devices, GetVault(d)
    PROVE  Inv'
<1> DEFINE mine == stored[d].envelope
           pw == panel[d].password
           upload(step, e) == [sync[d] EXCEPT !.step = step, !.envelope = e]
<1>1. /\ sync[d].step = "vault" /\ sync[d] \in Sync
      /\ mine \in Envelopes \union {NoEnvelope} /\ envelope \in Envelopes \union {NoEnvelope}
      /\ DeviceOK(d) /\ pw \in Passwords
      /\ UNCHANGED <<serverVars, waiting, panel, made, faults>>
  BY DEF GetVault, Inv, TypeOK, DeviceOK, SyncOK
<1>2. told' \in [Devices -> Told]
  BY <1>1, TellOK DEF GetVault, Inv
<1>3. ASSUME NEW s \in Sync, sync' = [sync EXCEPT ![d] = s],
             s.step \in {"put", "generate", "records"}, s.config = sync[d].config,
             s.step # "records" => s.envelope \in Envelopes,
             stored' \in [Devices -> Storage], stored'[d].config = stored[d].config,
             \A x \in Devices \ {d} : stored'[x] = stored[x]
      PROVE  Inv'
  <2>1. /\ sync' \in [Devices -> Sync] /\ DeviceOK(d)'
        /\ \A x \in Devices \ {d} : sync'[x] = sync[x]
    BY <1>1, <1>3, GoesOn DEF Inv, serverVars
  <2>2. TypeOK'
    BY <1>1, <1>2, <1>3, <2>1 DEF Inv, TypeOK, Storage, serverVars
  <2> QED BY <1>1, <1>3, <2>1, <2>2, OthersKept DEF serverVars
<1>4. CASE /\ envelope # NoEnvelope /\ envelope.password = pw
           /\ stored' = [stored EXCEPT ![d].envelope = envelope]
           /\ Step(d, "records")
  <2>1. /\ stored' \in [Devices -> Storage] /\ stored'[d].config = stored[d].config
        /\ \A x \in Devices \ {d} : stored'[x] = stored[x]
    BY <1>4 DEF Inv, TypeOK, Storage
  <2> DEFINE s == [sync[d] EXCEPT !.step = "records"]
  <2>2. s \in Sync /\ s.step = "records" /\ s.config = sync[d].config
    BY <1>1 DEF Sync
  <2>3. sync' = [sync EXCEPT ![d] = s]
    BY <1>4 DEF Step
  <2> HIDE DEF s
  <2> QED BY <1>3, <2>1, <2>2, <2>3
<1>5. ASSUME NEW step \in {"put", "generate"}, NEW e \in Envelopes,
             sync' = [sync EXCEPT ![d].step = step, ![d].envelope = e], UNCHANGED stored
      PROVE  Inv'
  <2>1. stored' \in [Devices -> Storage]
    BY <1>5 DEF Inv, TypeOK, Storage
  <2>2. upload(step, e) \in Sync /\ upload(step, e).step = step
        /\ upload(step, e).envelope = e /\ upload(step, e).config = sync[d].config
    BY <1>1 DEF Sync
  <2>3. sync' = [sync EXCEPT ![d] = upload(step, e)]
    BY <1>5
  <2> HIDE DEF upload
  <2> QED BY <1>3, <1>5, <2>1, <2>2, <2>3
<1>6. CASE /\ envelope = NoEnvelope /\ mine # NoEnvelope
           /\ sync' = [sync EXCEPT ![d].step = "put", ![d].envelope = mine]
           /\ UNCHANGED stored
  BY <1>1, <1>5, <1>6
<1>7. CASE /\ FreshKeys # {} /\ UNCHANGED stored
           /\ sync' = [sync EXCEPT ![d].step = "generate",
                           ![d].envelope = [key |-> Fresh(FreshKeys), password |-> pw]]
  <2>1. Fresh(FreshKeys) \in Keys
    BY <1>7, FreshIsOne DEF FreshKeys
  <2>2. [key |-> Fresh(FreshKeys), password |-> pw] \in Envelopes
    BY <1>1, <2>1 DEF Envelopes
  <2> QED BY <1>5, <1>7, <2>2
<1>8. CASE End(d, "error") /\ UNCHANGED stored
  <2>1. "error" \in Outcomes
    BY DEF Outcomes
  <2> QED BY <1>1, <1>2, <1>8, <2>1, EndsKeeps DEF serverVars, Inv, TypeOK
<1> QED BY <1>4, <1>6, <1>7, <1>8 DEF GetVault

LEMMA PutEnvelopeKeeps ==
    ASSUME Inv, NEW d \in Devices, NEW heard \in BOOLEAN, PutEnvelope(d, heard)
    PROVE  Inv'
<1> DEFINE empty == envelope = NoEnvelope
           e == sync[d].envelope
           generated == sync[d].step = "generate"
<1>1. /\ sync[d].step \in {"put", "generate"} /\ sync[d] \in Sync /\ e \in Envelopes
      /\ DeviceOK(d) /\ UNCHANGED <<records, live, revoked, waiting, panel>>
  BY DEF PutEnvelope, Inv, TypeOK, DeviceOK, SyncOK
<1>2. envelope' \in Envelopes \union {NoEnvelope}
  BY <1>1 DEF PutEnvelope, UpdateVaultEnvelope, Inv, TypeOK
<1>3. "error" \in Outcomes
  BY DEF Outcomes
<1>4. CASE heard
  <2>1. told' \in [Devices -> Told]
    BY <1>2, <1>4, TellOK DEF PutEnvelope, Inv
  <2>2. CASE generated /\ ~empty
    <3>1. End(d, "error") /\ UNCHANGED <<stored, made, faults>>
      BY <1>4, <2>2 DEF PutEnvelope
    <3> QED BY <1>1, <1>2, <1>3, <2>1, <3>1, EndsKeeps DEF Inv, TypeOK
  <2>3. CASE ~(generated /\ ~empty)
    <3> DEFINE s == [sync[d] EXCEPT !.step = "records", !.envelope = NoEnvelope]
    <3>1. /\ sync' = [sync EXCEPT ![d].step = "records", ![d].envelope = NoEnvelope]
          /\ stored' = IF generated /\ empty THEN [stored EXCEPT ![d].envelope = e] ELSE stored
          /\ UNCHANGED <<made, faults>>
      BY <1>4, <2>3 DEF PutEnvelope
    <3>2. sync' = [sync EXCEPT ![d] = s]
      BY <3>1
    <3>3. s \in Sync /\ s.step = "records" /\ s.config = sync[d].config
      BY <1>1 DEF Sync
    <3> HIDE DEF s
    <3>4. /\ stored' \in [Devices -> Storage] /\ stored'[d].config = stored[d].config
          /\ \A x \in Devices \ {d} : stored'[x] = stored[x]
      <4>1. CASE generated /\ empty
        BY <1>1, <3>1, <4>1 DEF Inv, TypeOK, Storage
      <4>2. CASE ~(generated /\ empty)
        BY <3>1, <4>2 DEF Inv, TypeOK, Storage
      <4> QED BY <4>1, <4>2
    <3>5. /\ sync' \in [Devices -> Sync] /\ DeviceOK(d)'
          /\ \A x \in Devices \ {d} : sync'[x] = sync[x]
      BY <1>1, <3>2, <3>3, <3>4, GoesOn DEF Inv
    <3>6. TypeOK'
      BY <1>1, <1>2, <2>1, <3>1, <3>4, <3>5 DEF Inv, TypeOK, Storage
    <3> QED BY <1>1, <3>4, <3>5, <3>6, OthersKept
  <2> QED BY <2>2, <2>3
<1>5. CASE ~heard
  <2>1. told' \in [Devices -> Told]
    BY <1>5, TellOK DEF PutEnvelope, Inv
  <2>2. End(d, "error") /\ UNCHANGED <<stored, made>> /\ faults' \in 0 .. MaxFaults
    BY <1>5, FaultOK DEF PutEnvelope, Fault, Inv
  <2> QED BY <1>1, <1>2, <1>3, <2>1, <2>2, EndsKeeps DEF Inv, TypeOK
<1> QED BY <1>4, <1>5

LEMMA PushRecordsKeeps ==
    ASSUME Inv, NEW d \in Devices, NEW heard \in BOOLEAN, PushRecords(d, heard)
    PROVE  Inv'
<1>1. /\ sync[d].step = "records" /\ records' \subseteq Keys
      /\ waiting' \in [Devices -> SUBSET Keys]
      /\ UNCHANGED <<envelope, live, revoked, told, stored, panel>>
  BY DEF PushRecords, Inv, TypeOK
<1>2. UNCHANGED made /\ faults' \in 0 .. MaxFaults
  BY FaultOK DEF PushRecords, Fault, Inv, TypeOK
<1>3. PICK outcome \in {"success", "error"} : End(d, outcome)
  BY DEF PushRecords
<1> QED BY <1>1, <1>2, <1>3, EndsKeeps DEF Inv, TypeOK, Outcomes

LEMMA EndSyncKeeps ==
    ASSUME Inv, NEW d \in Devices, EndSync(d)
    PROVE  Inv'
<1> DEFINE c == sync[d].config
           e == stored[d].envelope
           o == sync[d].outcome
<1>1. /\ sync[d] \in Sync /\ c \in Config /\ o \in Outcomes
      /\ e \in Envelopes \union {NoEnvelope} /\ DeviceOK(d)
  BY DEF Inv, TypeOK, Sync
<1>2. /\ sync[d].step = "end" /\ panel[d].open /\ c.token # 0
      /\ panel[d].password \in Passwords /\ Explained(c, revoked)
      /\ o = "device_revoked" => c.device \in revoked
  BY <1>1 DEF EndSync, DeviceOK, SyncOK
<1>3. /\ sync' = [sync EXCEPT ![d] = NoSync]
      /\ UNCHANGED <<serverVars, waiting, made, faults>>
  BY DEF EndSync
<1>4. told' \in [Devices -> Told]
  BY TellOK DEF EndSync, Inv
<1>5. /\ sync' \in [Devices -> Sync] /\ sync'[d] = NoSync
      /\ \A x \in Devices \ {d} : sync'[x] = sync[x]
  BY <1>3, EmptyTypes DEF Inv, TypeOK
\* What is saved, and where.
<1>6. ASSUME NEW new \in Config, Explained(new, revoked),
             stored' \in [Devices -> Storage], panel' \in [Devices -> Panel],
             stored'[d].config \in {stored[d].config, new},
             panel'[d].config \in {panel[d].config, new},
             panel'[d].open, panel'[d].password \in Passwords, panel'[d].dek \in Keys,
             \A x \in Devices \ {d} : stored'[x] = stored[x] /\ panel'[x] = panel[x]
      PROVE  Inv'
  <2>1. TypeOK'
    BY <1>3, <1>4, <1>5, <1>6 DEF Inv, TypeOK, Storage, serverVars
  <2>2. DeviceOK(d)'
    BY <1>1, <1>3, <1>5, <1>6, EmptyTypes DEF DeviceOK, SyncOK, Explained, serverVars
  <2> QED BY <1>3, <1>5, <1>6, <2>1, <2>2, OthersKept DEF serverVars
<1>7. ASSUME NEW new \in Config, Explained(new, revoked), SaveConfig(d, new)
      PROVE  Inv'
  BY <1>1, <1>2, <1>6, <1>7, SaveConfigOK DEF Inv, DeviceOK
<1>8. CASE o = "success"
  <2> DEFINE new == [c EXCEPT !.status = "synced"]
  <2>1. new \in Config /\ Explained(new, revoked)
    BY <1>1, <1>2, StatusExplains
  <2>2. CASE e.password # panel[d].password
    <3>1. UNCHANGED <<stored, panel>>
      BY <1>8, <2>2 DEF EndSync
    <3> QED BY <1>1, <1>2, <1>6, <2>1, <3>1 DEF Inv, TypeOK, Storage, DeviceOK
  <2>3. CASE e.password = panel[d].password
    <3>1. e \in Envelopes
      BY <1>1, <1>2, <2>3 DEF NoEnvelope
    <3>2. e.key \in Keys
      BY <3>1 DEF Envelopes
    <3>3. /\ stored' = [stored EXCEPT ![d].config = new]
          /\ panel' = [panel EXCEPT ![d].dek = e.key, ![d].config = new, ![d].refused = FALSE]
      BY <1>8, <2>3 DEF EndSync
    <3> HIDE DEF new
    <3>4. /\ stored' \in [Devices -> Storage] /\ stored'[d].config = new
          /\ \A x \in Devices \ {d} : stored'[x] = stored[x]
      BY <2>1, <3>3 DEF Inv, TypeOK, Storage
    <3> DEFINE p == [panel[d] EXCEPT !.dek = e.key, !.config = new, !.refused = FALSE]
    <3>5. panel' = [panel EXCEPT ![d] = p]
      BY <3>3
    <3>6. /\ p \in Panel /\ p.config = new /\ p.dek = e.key
          /\ p.open = panel[d].open /\ p.password = panel[d].password
      <4> HIDE DEF e
      <4>1. panel[d] \in Panel
        BY DEF Inv, TypeOK
      <4> QED BY <2>1, <3>2, <4>1 DEF Panel
    <3> HIDE DEF p
    <3>7. /\ panel' \in [Devices -> Panel] /\ panel'[d] = p
          /\ \A x \in Devices \ {d} : panel'[x] = panel[x]
      BY <3>5, <3>6 DEF Inv, TypeOK
    <3> QED BY <1>2, <1>6, <2>1, <3>2, <3>4, <3>6, <3>7
  <2> QED BY <2>2, <2>3
<1>9. CASE o = "error"
  <2>1. SaveConfig(d, [c EXCEPT !.status = "failed"])
    BY <1>9 DEF EndSync
  <2> QED BY <1>1, <1>2, <1>7, <2>1, StatusExplains
<1>10. CASE o = "auth_expired"
  <2>1. SaveConfig(d, ExpireRemoteCredentials(c, "expired"))
    BY <1>10 DEF EndSync
  <2> QED BY <1>1, <1>7, <2>1, ExpireExplains
<1>11. CASE o = "device_revoked"
  <2>1. SaveConfig(d, ExpireRemoteCredentials(c, "device_revoked"))
    BY <1>11 DEF EndSync
  <2> QED BY <1>1, <1>2, <1>7, <1>11, <2>1, ExpireExplains
<1> QED BY <1>1, <1>8, <1>9, <1>10, <1>11 DEF Outcomes

-----------------------------------------------------------------------------
(***************************************************************************)
(* What goes wrong keeps the invariant.                                    *)
(***************************************************************************)
LEMMA EndSessionKeeps ==
    ASSUME Inv, NEW n \in Ids, EndSession(n)
    PROVE  Inv'
<1>1. TypeOK'
  BY FaultOK DEF EndSession, Inv, TypeOK
<1> QED BY <1>1 DEF EndSession, Inv, DeviceOK, SyncOK

LEMMA RevokeDeviceKeeps ==
    ASSUME Inv, NEW n \in Ids, RevokeDevice(n)
    PROVE  Inv'
<1>1. TypeOK'
  BY FaultOK DEF RevokeDevice, Inv, TypeOK
<1>2. revoked \subseteq revoked' /\ UNCHANGED <<stored, panel, sync>>
  BY DEF RevokeDevice
<1>3. ASSUME NEW d \in Devices PROVE DeviceOK(d)'
  <2>1. DeviceOK(d)
    BY DEF Inv
  <2> QED BY <1>2, <2>1, ExplainedMonotone DEF DeviceOK, SyncOK
<1> QED BY <1>1, <1>3 DEF Inv

LEMMA ClosePanelKeeps ==
    ASSUME Inv, NEW d \in Devices, ClosePanel(d)
    PROVE  Inv'
<1>1. /\ panel' \in [Devices -> Panel] /\ sync' \in [Devices -> Sync]
      /\ told' \in [Devices -> Told]
      /\ panel'[d] = ClosedPanel /\ sync'[d] = NoSync
      /\ \A e \in Devices \ {d} : panel'[e] = panel[e] /\ sync'[e] = sync[e]
  BY ClosedOK DEF ClosePanel, Inv
<1>2. TypeOK'
  BY <1>1, FaultOK DEF ClosePanel, Inv, TypeOK, serverVars
<1>3. DeviceOK(d)'
  BY <1>1, EmptyTypes DEF ClosePanel, serverVars, Inv, DeviceOK, SyncOK, Explained
<1> QED BY <1>1, <1>2, <1>3, OthersKept DEF ClosePanel, serverVars

LEMMA WipeKeeps ==
    ASSUME Inv, NEW d \in Devices, NEW how \in {"this", "other", "half"},
           HandleWipeLocal(d, how)
    PROVE  Inv'
<1>1. /\ UNCHANGED serverVars /\ waiting' \in [Devices -> SUBSET Keys]
      /\ faults' \in 0 .. MaxFaults /\ made' \in 0 .. MaxRecords
  BY FaultOK DEF HandleWipeLocal, Inv, TypeOK
<1>2. /\ stored' \in [Devices -> Storage] /\ Explained(stored'[d].config, revoked)
      /\ \A e \in Devices \ {d} : stored'[e] = stored[e]
  <2>1. CASE how = "half"
    <3> DEFINE c == [stored[d].config EXCEPT !.lost = TRUE]
               new == [stored[d] EXCEPT !.config.lost = TRUE]
    <3>1. stored[d] \in Storage /\ stored[d].config \in Config /\ stored[d].config.token # 0
          /\ Explained(stored[d].config, revoked)
      BY <2>1 DEF HandleWipeLocal, Inv, TypeOK, Storage, DeviceOK
    <3>2. c \in Config /\ Explained(c, revoked)
      BY <3>1, EmptyTypes DEF Config, Explained
    <3>3. new = [stored[d] EXCEPT !.config = c]
      OBVIOUS
    <3>4. stored' = [stored EXCEPT ![d] = new]
      BY <2>1 DEF HandleWipeLocal
    <3> HIDE DEF c, new
    <3>5. new \in Storage /\ new.config = c
      BY <3>1, <3>2, <3>3 DEF Storage
    <3> QED BY <3>2, <3>4, <3>5 DEF Inv, TypeOK, Storage
  <2>2. CASE how # "half"
    <3> DEFINE new == [envelope |-> NoEnvelope, config |-> NoConfig]
    <3>1. stored' = [stored EXCEPT ![d] = new]
      BY <2>2 DEF HandleWipeLocal
    <3>2. new \in Storage /\ new.config = NoConfig
      BY EmptyTypes DEF Storage
    <3> HIDE DEF new
    <3> QED BY <3>1, <3>2 DEF Inv, TypeOK, Storage, Explained
  <2> QED BY <2>1, <2>2
<1>3. CASE how = "other"
  <2>1. UNCHANGED <<panel, sync, told>>
    BY <1>3 DEF HandleWipeLocal
  <2>2. TypeOK'
    BY <1>1, <1>2, <2>1 DEF Inv, TypeOK, Storage, serverVars
  <2>3. DeviceOK(d)'
    BY <1>1, <1>2, <2>1 DEF Inv, DeviceOK, SyncOK, serverVars
  <2> QED BY <1>1, <1>2, <2>1, <2>2, <2>3, OthersKept DEF serverVars
<1>4. CASE how # "other"
  <2>1. /\ panel' \in [Devices -> Panel] /\ sync' \in [Devices -> Sync]
        /\ told' \in [Devices -> Told]
        /\ panel'[d] = ClosedPanel /\ sync'[d] = NoSync
        /\ \A e \in Devices \ {d} : panel'[e] = panel[e] /\ sync'[e] = sync[e]
    BY <1>4, ClosedOK DEF HandleWipeLocal, Inv
  <2>2. TypeOK'
    BY <1>1, <1>2, <2>1 DEF Inv, TypeOK, Storage, serverVars
  <2>3. DeviceOK(d)'
    BY <1>1, <1>2, <2>1, EmptyTypes DEF DeviceOK, SyncOK, Explained, serverVars
  <2> QED BY <1>1, <1>2, <2>1, <2>2, <2>3, OthersKept DEF serverVars
<1> QED BY <1>3, <1>4

-----------------------------------------------------------------------------
(***************************************************************************)
(* The theorems.                                                           *)
(***************************************************************************)
LEMMA InitInv == Init => Inv
<1> SUFFICES ASSUME Init PROVE Inv
  OBVIOUS
<1> USE DEF Init
<1>1. TypeOK
  <2>1. 0 \in 0 .. MaxRecords /\ 0 \in 0 .. MaxFaults
    OBVIOUS
  <2>2. stored \in [Devices -> Storage]
    BY EmptyTypes DEF Storage
  <2> QED BY <2>1, <2>2, EmptyTypes DEF TypeOK, Storage
<1>2. ASSUME NEW d \in Devices PROVE DeviceOK(d)
  BY EmptyTypes DEF DeviceOK, SyncOK, Explained
<1> QED BY <1>1, <1>2 DEF Inv

LEMMA NextInv == Inv /\ [Next]_vars => Inv'
<1> SUFFICES ASSUME Inv, [Next]_vars PROVE Inv'
  OBVIOUS
<1>1. ASSUME NEW d \in Devices, UserActs(d) PROVE Inv'
  <2>1. ASSUME NEW pw \in Choices[d], HandleSetupPassword(d, pw) PROVE Inv'
    BY <2>1, SetupKeeps
  <2>2. CASE HandleUnlocked(d)
    BY <2>2, UnlockedKeeps
  <2>3. CASE HandleRemoteConnect(d)
    BY <2>3, ConnectKeeps
  <2>4. CASE HandleRemoteReLogin(d)
    BY <2>4, ReLoginKeeps
  <2>5. CASE HandleDeviceReconnect(d)
    BY <2>5, RemovedKeeps DEF HandleDeviceReconnect, Inv, TypeOK
  <2>6. CASE DisconnectRefused(d)
    BY <2>6, RemovedKeeps DEF DisconnectRefused, Inv, TypeOK
  <2>7. CASE HandleTriggerSync(d)
    BY <2>7, TriggerSyncKeeps
  <2> QED BY <1>1, <2>1, <2>2, <2>3, <2>4, <2>5, <2>6, <2>7 DEF UserActs
<1>2. ASSUME NEW d \in Devices, Syncs(d) PROVE Inv'
  BY <1>2, RefusedKeeps, GetVaultKeeps, PutEnvelopeKeeps, PushRecordsKeeps, EndSyncKeeps DEF Syncs
<1>3. ASSUME NEW d \in Devices, GoesWrong(d) PROVE Inv'
  <2>1. CASE RequestFails(d)
    BY <2>1, RequestFailsKeeps
  <2>2. CASE PutEnvelope(d, FALSE)
    BY <2>2, PutEnvelopeKeeps
  <2>3. CASE PushRecords(d, FALSE)
    BY <2>3, PushRecordsKeeps
  <2>4. CASE ClosePanel(d)
    BY <2>4, ClosePanelKeeps
  <2>5. CASE HandleDisconnect(d)
    BY <2>5, RemovedKeeps, FaultOK DEF HandleDisconnect, Fault, Inv
  <2>6. ASSUME NEW how \in {"this", "other", "half"}, HandleWipeLocal(d, how) PROVE Inv'
    BY <2>6, WipeKeeps
  <2> QED BY <1>3, <2>1, <2>2, <2>3, <2>4, <2>5, <2>6 DEF GoesWrong
<1>4. ASSUME NEW d \in Devices, AddRecord(d) PROVE Inv'
  BY <1>4, AddRecordKeeps
<1>5. ASSUME NEW n \in Ids, EndSession(n) \/ RevokeDevice(n) PROVE Inv'
  BY <1>5, EndSessionKeeps, RevokeDeviceKeeps
<1>6. CASE UNCHANGED vars
  BY <1>6 DEF vars, serverVars, Inv, TypeOK, DeviceOK, SyncOK
<1> QED BY <1>1, <1>2, <1>3, <1>4, <1>5, <1>6 DEF Next

\* Every reachable state satisfies the invariant.
LEMMA InvAlways == Spec => []Inv
BY InitInv, NextInv, PTL DEF Spec

\* Every value the server, the devices and their syncs keep has its type: no sync uploads,
\* and no device stores, an envelope without a key.
THEOREM ConnectionTypes == Spec => []TypeOK
<1>1. Inv => TypeOK
  BY DEF Inv
<1> QED BY InvAlways, <1>1, PTL

\* A stored configuration has a token or says why it has none, and says "revoked" only of a
\* device that is, although a sync saves the configuration it began with over whatever the
\* user did meanwhile.
THEOREM CredentialsAreExplainedAlways == Spec => []CredentialsAreExplained
<1>1. Inv => CredentialsAreExplained
  BY DEF Inv, DeviceOK, Explained, CredentialsAreExplained
<1> QED BY InvAlways, <1>1, PTL

\* A step of Connection is a step of the register, or leaves it alone.
LEMMA RegisterStep ==
    ASSUME Inv, [Next]_vars
    PROVE  [Register!Next]_(Register!vars)
<1> USE DEF Register!vars
<1>1. ASSUME NEW d \in Devices, Tell(d, "nothing", NoEnvelope), UNCHANGED envelope
      PROVE  Register!Next
  BY <1>1 DEF Tell, Register!Next, Register!Forget, Register!Silent, Register!Tell
<1>2. ASSUME NEW d \in Devices, GetVault(d) PROVE Register!Next
  BY <1>2 DEF GetVault, Tell, serverVars, Register!Next, Register!Get, Register!Tell
<1>3. ASSUME NEW d \in Devices, NEW heard \in BOOLEAN, PutEnvelope(d, heard)
      PROVE  Register!Next
  <2> DEFINE e == sync[d].envelope
  <2>1. e \in Envelopes
    BY <1>3 DEF PutEnvelope, Inv, DeviceOK, SyncOK
  <2>2. envelope' = IF envelope = NoEnvelope THEN e ELSE envelope
    BY <1>3 DEF PutEnvelope, UpdateVaultEnvelope
  <2>3. IF heard THEN Tell(d, IF envelope = NoEnvelope THEN "put" ELSE "conflict", envelope')
                 ELSE Tell(d, "nothing", NoEnvelope)
    BY <1>3 DEF PutEnvelope
  <2> HIDE DEF e
  <2>4. Register!Put(d, e, heard)
    BY <2>2, <2>3 DEF Tell, Register!Put, Register!Silent, Register!Tell
  <2> QED BY <2>1, <2>4 DEF Register!Next
<1>4. ASSUME NEW d \in Devices, UserActs(d) PROVE UNCHANGED <<envelope, told>>
  BY <1>4 DEF UserActs, HandleSetupPassword, HandleUnlocked, HandleRemoteConnect,
     HandleRemoteReLogin, HandleDeviceReconnect, DisconnectRefused, HandleTriggerSync, serverVars
<1>5. ASSUME NEW d \in Devices, Syncs(d) PROVE [Register!Next]_(Register!vars)
  <2>1. CASE Refused(d)
    BY <2>1 DEF Refused, serverVars
  <2>2. CASE GetVault(d)
    BY <2>2, <1>2
  <2>3. CASE PutEnvelope(d, TRUE)
    BY <2>3, <1>3
  <2>4. CASE PushRecords(d, TRUE)
    BY <2>4 DEF PushRecords
  <2>5. CASE EndSync(d)
    BY <2>5, <1>1 DEF EndSync, serverVars
  <2> QED BY <1>5, <2>1, <2>2, <2>3, <2>4, <2>5 DEF Syncs
<1>6. ASSUME NEW d \in Devices, GoesWrong(d) PROVE [Register!Next]_(Register!vars)
  <2>1. CASE RequestFails(d)
    BY <2>1 DEF RequestFails, serverVars
  <2>2. CASE PutEnvelope(d, FALSE)
    BY <2>2, <1>3
  <2>3. CASE PushRecords(d, FALSE)
    BY <2>3 DEF PushRecords
  <2>4. CASE ClosePanel(d)
    BY <2>4, <1>1 DEF ClosePanel, Closed, serverVars
  <2>5. CASE HandleDisconnect(d)
    BY <2>5 DEF HandleDisconnect, serverVars
  <2>6. ASSUME NEW how \in {"this", "other", "half"}, HandleWipeLocal(d, how)
        PROVE  [Register!Next]_(Register!vars)
    BY <2>6, <1>1 DEF HandleWipeLocal, Closed, serverVars
  <2> QED BY <1>6, <2>1, <2>2, <2>3, <2>4, <2>5, <2>6 DEF GoesWrong
<1>7. ASSUME NEW d \in Devices, AddRecord(d) PROVE UNCHANGED <<envelope, told>>
  BY <1>7 DEF AddRecord, serverVars
<1>8. ASSUME NEW n \in Ids, EndSession(n) \/ RevokeDevice(n) PROVE UNCHANGED <<envelope, told>>
  BY <1>8 DEF EndSession, RevokeDevice
<1>9. CASE UNCHANGED vars
  BY <1>9 DEF vars, serverVars
<1> QED BY <1>4, <1>5, <1>6, <1>7, <1>8, <1>9 DEF Next

\* The envelope of a vault is written once: Connection implements EnvelopeRegister, however
\* many devices find no envelope and upload one, and whichever answers are lost.
THEOREM EnvelopeIsWrittenOnceAlways == Spec => EnvelopeIsWrittenOnce
<1>1. Init => Register!Init
  BY DEF Init, Register!Init, NotTold
<1>2. Inv /\ [Next]_vars => [Register!Next]_(Register!vars)
  BY RegisterStep
<1> QED BY InvAlways, <1>1, <1>2, PTL DEF Spec, EnvelopeIsWrittenOnce, Register!Spec

=============================================================================

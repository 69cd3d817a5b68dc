----------------------------- MODULE Connection -----------------------------
(***************************************************************************)
(* The connection of a user's devices to the server: connecting, logging   *)
(* in again, reconnecting and disconnecting, what a sync that ends does to *)
(* the stored configuration, and how the devices come to one data key      *)
(* (the envelope).                                                         *)
(*                                                                         *)
(* A sync takes the configuration it was started with and saves it, with   *)
(* its outcome, when it ends; the user goes on meanwhile.  Sessions        *)
(* expire, devices are revoked, answers are lost, panels are closed, and a *)
(* second panel of a device may reset it.                                  *)
(*                                                                         *)
(* A record is represented by the data key it is encrypted under.  Pulling *)
(* and pushing are one step (module DeviceSync), and so are a login and    *)
(* the registration of a device (module Sessions).  A session that ended   *)
(* and a user who is disabled look alike to a device that logs in again.   *)
(***************************************************************************)
EXTENDS Naturals, FiniteSets

CONSTANTS
    Devices,
    Passwords,      \* sync passwords
    Choices,        \* which of them the user of a device may choose
    NoPassword,
    Keys,           \* data keys
    NoKey,
    MaxSessions,    \* bound: sessions and device ids in use at a time
    MaxRecords,     \* bound: records the users make
    Troubled,       \* bound: the devices to which things happen,
    MaxFaults       \* and how many: sessions ended, devices revoked, answers lost, ...

ASSUME ConnectionAssumption ==
    /\ Choices \in [Devices -> SUBSET Passwords]
    /\ NoPassword \notin Passwords /\ NoKey \notin Keys
    /\ Troubled \subseteq Devices
    /\ MaxSessions \in Nat \ {0} /\ MaxRecords \in Nat /\ MaxFaults \in Nat

VARIABLES
    envelope,       \* the server: the vault's envelope,
    records,        \* the keys of the records it has,
    live, revoked,  \* the sessions that work and the device ids that do not
    told,           \* what it told the sync of a device about the envelope, last
    stored,         \* chrome.storage of a device: its envelope and its configuration
    waiting,        \* the keys of its records that are to be pushed
    panel,          \* the memory of its panel
    sync,           \* its runSync
    made, faults    \* how many records were made and how much went wrong

serverVars == <<envelope, records, live, revoked>>
vars == <<serverVars, told, stored, waiting, panel, sync, made, faults>>

Envelopes == [key : Keys, password : Passwords]

NoEnvelope == [key |-> NoKey, password |-> NoPassword]

Ids == 1 .. MaxSessions

\* token = 0: the empty string.  lost: encrypted under a wrapping key that is gone.
Config == [token : {0} \union Ids, lost : BOOLEAN, device : {0} \union Ids,
           reason : {"none", "expired", "device_revoked"},
           status : {"none", "pending", "synced", "failed"}]

NoConfig == [token |-> 0, lost |-> FALSE, device |-> 0, reason |-> "none", status |-> "none"]

Panel == [open : BOOLEAN, password : Passwords \union {NoPassword},
          dek : Keys \union {NoKey}, config : Config, refused : BOOLEAN]

ClosedPanel == [open |-> FALSE, password |-> NoPassword, dek |-> NoKey,
                config |-> NoConfig, refused |-> FALSE]

Outcomes == {"success", "auth_expired", "device_revoked", "error"}

Sync == [step : {"idle", "vault", "put", "generate", "records", "end"},
         config : Config, envelope : Envelopes \union {NoEnvelope}, outcome : Outcomes]

NoSync == [step |-> "idle", config |-> NoConfig, envelope |-> NoEnvelope, outcome |-> "error"]

Told == [what : {"nothing", "vault", "put", "conflict"}, envelope : Envelopes \union {NoEnvelope}]

NotTold == [what |-> "nothing", envelope |-> NoEnvelope]

TypeOK ==
    /\ envelope \in Envelopes \union {NoEnvelope} /\ records \subseteq Keys
    /\ live \subseteq Ids /\ revoked \subseteq Ids
    /\ told \in [Devices -> Told]
    /\ stored \in [Devices -> [envelope : Envelopes \union {NoEnvelope}, config : Config]]
    /\ waiting \in [Devices -> SUBSET Keys]
    /\ panel \in [Devices -> Panel] /\ sync \in [Devices -> Sync]
    /\ made \in 0 .. MaxRecords /\ faults \in 0 .. MaxFaults

Init ==
    /\ envelope = NoEnvelope /\ records = {} /\ live = {} /\ revoked = {}
    /\ told = [d \in Devices |-> NotTold]
    /\ stored = [d \in Devices |-> [envelope |-> NoEnvelope, config |-> NoConfig]]
    /\ waiting = [d \in Devices |-> {}]
    /\ panel = [d \in Devices |-> ClosedPanel]
    /\ sync = [d \in Devices |-> NoSync]
    /\ made = 0 /\ faults = 0

\* Tokens, device ids and data keys are random: one in use is not made again, and one
\* nothing refers to any more is as good as new.
ConfigsOf(d) == {stored[d].config, panel[d].config, sync[d].config}

ConfigsInUse == UNION {ConfigsOf(d) : d \in Devices}

FreshIds == {n \in Ids : \A c \in ConfigsInUse : n \notin {c.token, c.device}}

FreshKeys ==
    {k \in Keys : /\ k # envelope.key /\ k \notin records
                  /\ \A d \in Devices : /\ k \notin waiting[d] \union {panel[d].dek}
                                        /\ k # stored[d].envelope.key /\ k # sync[d].envelope.key}

Fresh(S) == CHOOSE x \in S : TRUE

Fault(d) ==
    /\ d \in Troubled /\ faults < MaxFaults
    /\ faults' = faults + 1
    /\ UNCHANGED made

-----------------------------------------------------------------------------
(***************************************************************************)
(* The configuration of the connection.                                    *)
(***************************************************************************)

\* Mutant: the token that does not work any more is kept.
ExpireRemoteCredentialsKeepsToken(c, reason) == [c EXCEPT !.reason = reason, !.status = "failed"]

\* Mutant: reason and status are mixed up.
ExpireRemoteCredentialsSwapped(c, reason) ==
    [c EXCEPT !.token = 0, !.reason = "failed", !.status = reason]

ExpireRemoteCredentials(c, reason) ==
    [c EXCEPT !.token = 0, !.reason = reason, !.status = "failed"]

\* Mutant: the reason of the last failure is kept.
RestoreRemoteCredentialsKeepsReason(c, token) == [c EXCEPT !.token = token]

RestoreRemoteCredentials(c, token) == [c EXCEPT !.token = token, !.reason = "none"]

\* loadRemoteConfig.  A token that cannot be decrypted counts as expired, and that is saved.
Loaded(c) == IF c.lost THEN ExpireRemoteCredentials([c EXCEPT !.lost = FALSE], "expired") ELSE c

\* saveRemoteConfig and setRemoteConfig.
SaveConfig(d, c) ==
    /\ stored' = [stored EXCEPT ![d].config = c]
    /\ panel' = [panel EXCEPT ![d].config = c, ![d].refused = FALSE]

\* syncVault, as far as the first request; a sync that is in flight is left alone.
Begun(d, c) ==
    IF c.token # 0 /\ sync[d].step = "idle"
    THEN [sync EXCEPT ![d] = [NoSync EXCEPT !.step = "vault", !.config = c]]
    ELSE sync

-----------------------------------------------------------------------------
(***************************************************************************)
(* The users.                                                              *)
(***************************************************************************)

\* The first use of a device, or the first after a reset: its own data key.
HandleSetupPassword(d, pw) ==
    /\ ~panel[d].open /\ stored[d].envelope = NoEnvelope
    /\ FreshKeys # {}
    /\ LET e == [key |-> Fresh(FreshKeys), password |-> pw]
           c == Loaded(stored[d].config) IN
       /\ stored' = [stored EXCEPT ![d] = [envelope |-> e, config |-> c]]
       /\ panel' = [panel EXCEPT ![d] = [ClosedPanel EXCEPT
                        !.open = TRUE, !.password = pw, !.dek = e.key, !.config = c]]
    /\ UNCHANGED <<serverVars, told, waiting, sync, made, faults>>

\* handleUnlocked: the panel loads the configuration and synchronises.
HandleUnlocked(d) ==
    /\ ~panel[d].open /\ stored[d].envelope # NoEnvelope
    /\ LET e == stored[d].envelope
           c == Loaded(stored[d].config) IN
       /\ stored' = [stored EXCEPT ![d].config = c]
       /\ panel' = [panel EXCEPT ![d] = [open |-> TRUE, password |-> e.password,
                        dek |-> e.key, config |-> c, refused |-> FALSE]]
       /\ sync' = Begun(d, c)
    /\ UNCHANGED <<serverVars, told, waiting, made, faults>>

\* A new record, under the data key the panel has; then syncAfterLocalChange.
AddRecord(d) ==
    /\ panel[d].open
    /\ made < MaxRecords
    /\ made' = made + 1
    /\ waiting' = [waiting EXCEPT ![d] = @ \union {panel[d].dek}]
    /\ sync' = Begun(d, panel[d].config)
    /\ UNCHANGED <<serverVars, told, stored, panel, faults>>

HandleRemoteConnect(d) ==
    /\ panel[d].open /\ panel[d].config = NoConfig
    /\ FreshIds # {}
    /\ LET n == Fresh(FreshIds)
           c == [NoConfig EXCEPT !.token = n, !.device = n, !.status = "pending"] IN
       /\ live' = live \union {n} /\ revoked' = revoked \ {n}
       /\ SaveConfig(d, c)
       /\ sync' = Begun(d, c)
    /\ UNCHANGED <<envelope, records, told, waiting, made, faults>>

\* The server refuses a revoked device as it refuses a wrong password.
HandleRemoteReLogin(d) ==
    LET c == panel[d].config IN
    /\ panel[d].open /\ c # NoConfig /\ c.token = 0 /\ c.reason # "device_revoked"
    /\ IF c.device \in revoked
       THEN /\ panel' = [panel EXCEPT ![d].refused = TRUE]
            /\ UNCHANGED <<live, stored, sync>>
       ELSE /\ FreshIds # {}
            /\ LET n == Fresh(FreshIds)
                   new == [RestoreRemoteCredentials(c, n) EXCEPT !.status = "pending"] IN
               /\ live' = live \union {n}
               /\ SaveConfig(d, new)
               /\ sync' = Begun(d, new)
    /\ UNCHANGED <<envelope, records, revoked, told, waiting, made, faults>>

HandleDeviceReconnect(d) ==
    /\ panel[d].open /\ panel[d].config.token = 0 /\ panel[d].config.reason = "device_revoked"
    /\ SaveConfig(d, NoConfig)
    /\ UNCHANGED <<serverVars, told, waiting, sync, made, faults>>

HandleTriggerSync(d) ==
    /\ panel[d].open /\ panel[d].config.token # 0 /\ sync[d].step = "idle"
    /\ sync' = Begun(d, panel[d].config)
    /\ UNCHANGED <<serverVars, told, stored, waiting, panel, made, faults>>

\* What is left to a user whose password the server calls wrong.
DisconnectRefused(d) ==
    /\ panel[d].open /\ panel[d].refused
    /\ SaveConfig(d, NoConfig)
    /\ UNCHANGED <<serverVars, told, waiting, sync, made, faults>>

HandleDisconnect(d) ==
    /\ panel[d].open /\ panel[d].config # NoConfig
    /\ Fault(d)
    /\ SaveConfig(d, NoConfig)
    /\ UNCHANGED <<serverVars, told, waiting, sync>>

-----------------------------------------------------------------------------
(***************************************************************************)
(* runSync, and the server's part of it.                                   *)
(***************************************************************************)
Step(d, step) == sync' = [sync EXCEPT ![d].step = step]

End(d, outcome) == sync' = [sync EXCEPT ![d].step = "end", ![d].outcome = outcome]

\* requireAuth, and what classifySyncError makes of its errors.
Judgement(d) ==
    LET c == sync[d].config IN
    IF c.token \notin live THEN "auth_expired"
    ELSE IF c.device \in revoked THEN "device_revoked" ELSE "success"

Tell(d, what, e) == told' = [told EXCEPT ![d] = [what |-> what, envelope |-> e]]

\* Any request may be refused.
Refused(d) ==
    /\ sync[d].step \in {"vault", "put", "generate", "records"}
    /\ Judgement(d) # "success"
    /\ End(d, Judgement(d))
    /\ UNCHANGED <<serverVars, told, stored, waiting, panel, made, faults>>

\* Any request, or the answer to one that changed nothing, may be lost, or the server fail.
RequestFails(d) ==
    /\ sync[d].step \in {"vault", "put", "generate", "records"}
    /\ Fault(d)
    /\ End(d, "error")
    /\ UNCHANGED <<serverVars, told, stored, waiting, panel>>

\* The vault has an envelope: take it, if the sync password opens it.  It has none: upload
\* the one stored, or make one.
GetVault(d) ==
    LET mine == stored[d].envelope
        pw == panel[d].password
        Upload(step, e) ==
            /\ sync' = [sync EXCEPT ![d].step = step, ![d].envelope = e]
            /\ UNCHANGED stored
    IN
    /\ sync[d].step = "vault" /\ Judgement(d) = "success"
    /\ Tell(d, "vault", envelope)
    /\ \/ /\ envelope # NoEnvelope /\ envelope.password = pw
          /\ stored' = [stored EXCEPT ![d].envelope = envelope]
          /\ Step(d, "records")
       \/ /\ envelope = NoEnvelope /\ mine # NoEnvelope /\ mine.password = pw
          /\ Upload("put", mine)
       \/ /\ envelope = NoEnvelope /\ mine = NoEnvelope
          /\ FreshKeys # {}
          /\ Upload("generate", [key |-> Fresh(FreshKeys), password |-> pw])
       \/ /\ IF envelope # NoEnvelope THEN envelope.password # pw
             ELSE mine # NoEnvelope /\ mine.password # pw
          /\ End(d, "error")
          /\ UNCHANGED stored
    /\ UNCHANGED <<serverVars, waiting, panel, made, faults>>

\* Mutant: the envelope is replaced.
UpdateVaultEnvelopeAlways(e) == envelope' = e

\* expected_rev null: only if there is none.
UpdateVaultEnvelope(e) == envelope' = IF envelope = NoEnvelope THEN e ELSE envelope

\* putEnvelope.  A device that uploads the envelope it had goes on after a conflict, with
\* its own key; one that made a new one stores it, or gives up.
PutEnvelope(d, heard) ==
    LET empty == envelope = NoEnvelope
        e == sync[d].envelope
        generated == sync[d].step = "generate"
    IN
    /\ sync[d].step \in {"put", "generate"} /\ Judgement(d) = "success"
    /\ UpdateVaultEnvelope(e)
    /\ IF heard
       THEN /\ Tell(d, IF empty THEN "put" ELSE "conflict", envelope')
            /\ stored' = IF generated /\ empty THEN [stored EXCEPT ![d].envelope = e] ELSE stored
            /\ IF generated /\ ~empty THEN End(d, "error")
               ELSE sync' = [sync EXCEPT ![d].step = "records", ![d].envelope = NoEnvelope]
            /\ UNCHANGED <<made, faults>>
       ELSE /\ Tell(d, "nothing", NoEnvelope)
            /\ End(d, "error")
            /\ Fault(d)
            /\ UNCHANGED stored
    /\ UNCHANGED <<records, live, revoked, waiting, panel>>

\* Records are pushed as they are encrypted, whichever key that was.
PushRecords(d, heard) ==
    /\ sync[d].step = "records" /\ Judgement(d) = "success"
    /\ records' = records \union waiting[d]
    /\ IF heard
       THEN /\ waiting' = [waiting EXCEPT ![d] = {}]
            /\ End(d, "success")
            /\ UNCHANGED <<made, faults>>
       ELSE /\ End(d, "error")
            /\ Fault(d)
            /\ UNCHANGED waiting
    /\ UNCHANGED <<envelope, live, revoked, told, stored, panel>>

\* The end of syncVault: the configuration it began with is saved with the outcome,
\* whatever has become of it.  Nothing is saved when the stored envelope is gone, or is
\* not for the panel's password: reloadDekFromStoredEnvelope throws.
EndSync(d) ==
    LET c == sync[d].config
        e == stored[d].envelope
        new == CASE sync[d].outcome = "success" -> [c EXCEPT !.status = "synced"]
                 [] sync[d].outcome = "error" -> [c EXCEPT !.status = "failed"]
                 [] sync[d].outcome = "auth_expired" -> ExpireRemoteCredentials(c, "expired")
                 [] sync[d].outcome = "device_revoked" -> ExpireRemoteCredentials(c, "device_revoked")
    IN
    /\ sync[d].step = "end"
    /\ sync' = [sync EXCEPT ![d] = NoSync]
    /\ Tell(d, "nothing", NoEnvelope)
    /\ IF sync[d].outcome # "success" THEN SaveConfig(d, new)
       ELSE IF e.password # panel[d].password THEN UNCHANGED <<stored, panel>>
       ELSE /\ stored' = [stored EXCEPT ![d].config = new]
            /\ panel' = [panel EXCEPT ![d].dek = e.key, ![d].config = new, ![d].refused = FALSE]
    /\ UNCHANGED <<serverVars, waiting, made, faults>>

-----------------------------------------------------------------------------
(***************************************************************************)
(* What goes wrong.                                                        *)
(***************************************************************************)
EndSession(n) ==
    /\ n \in live
    /\ \E d \in Devices : Fault(d) /\ n \in {c.token : c \in ConfigsOf(d)}
    /\ live' = live \ {n}
    /\ UNCHANGED <<envelope, records, revoked, told, stored, waiting, panel, sync>>

RevokeDevice(n) ==
    /\ n \notin revoked
    /\ \E d \in Devices : Fault(d) /\ n \in {c.device : c \in ConfigsOf(d)}
    /\ revoked' = revoked \union {n}
    /\ UNCHANGED <<envelope, records, live, told, stored, waiting, panel, sync>>

\* Closing a panel ends its sync wherever it is.
Closed(d) ==
    /\ panel' = [panel EXCEPT ![d] = ClosedPanel]
    /\ sync' = [sync EXCEPT ![d] = NoSync]
    /\ Tell(d, "nothing", NoEnvelope)

ClosePanel(d) ==
    /\ panel[d].open
    /\ Fault(d)
    /\ Closed(d)
    /\ UNCHANGED <<serverVars, stored, waiting>>

\* handleWipeLocal in this panel, which reloads, or in another panel of the device; or
\* only clearVault, when the panel is closed before localStore.clear: the records are
\* gone and so is the key the token is encrypted under.
HandleWipeLocal(d, how) ==
    /\ stored[d].envelope # NoEnvelope
    /\ how = "half" => stored[d].config.token # 0
    /\ Fault(d)
    /\ waiting' = [waiting EXCEPT ![d] = {}]
    /\ stored' = [stored EXCEPT ![d] =
                    IF how = "half" THEN [@ EXCEPT !.config.lost = TRUE]
                    ELSE [envelope |-> NoEnvelope, config |-> NoConfig]]
    /\ IF how = "other" THEN UNCHANGED <<panel, sync, told>> ELSE Closed(d)
    /\ UNCHANGED serverVars

UserActs(d) ==
    \/ \E pw \in Choices[d] : HandleSetupPassword(d, pw)
    \/ HandleUnlocked(d) \/ HandleRemoteConnect(d) \/ HandleRemoteReLogin(d)
    \/ HandleDeviceReconnect(d) \/ DisconnectRefused(d) \/ HandleTriggerSync(d)

Syncs(d) ==
    \/ Refused(d) \/ GetVault(d) \/ PutEnvelope(d, TRUE)
    \/ PushRecords(d, TRUE) \/ EndSync(d)

GoesWrong(d) ==
    \/ RequestFails(d) \/ PutEnvelope(d, FALSE) \/ PushRecords(d, FALSE)
    \/ ClosePanel(d) \/ HandleDisconnect(d)
    \/ \E how \in {"this", "other", "half"} : HandleWipeLocal(d, how)

Next ==
    \/ \E d \in Devices : UserActs(d) \/ AddRecord(d) \/ Syncs(d) \/ GoesWrong(d)
    \/ \E n \in Ids : EndSession(n) \/ RevokeDevice(n)

Spec == Init /\ [][Next]_vars

\* A sync that has begun goes on, and users who want their devices synchronised take the
\* step the panel offers them.
FairSpec ==
    /\ Spec
    /\ \A d \in Devices : WF_vars(Syncs(d)) /\ WF_vars(UserActs(d))

-----------------------------------------------------------------------------
(***************************************************************************)
(* Properties.                                                             *)
(***************************************************************************)

Register == INSTANCE EnvelopeRegister

\* The envelope of a vault is written once, however many devices find none and upload
\* one, and the answers say what was written: with envelope and told, Connection
\* implements EnvelopeRegister.
EnvelopeIsWrittenOnce == Register!Spec

\* A stored configuration has a token, or says why it has none, so that the panel can
\* offer the way back; and it says "revoked" only of a device that is.
CredentialsAreExplained ==
    \A d \in Devices :
        LET c == stored[d].config IN
        c # NoConfig =>
            /\ c.token = 0 <=> c.reason # "none"
            /\ c.reason = "device_revoked" => c.device \in revoked

\* Whatever went wrong, once nothing more does, every device whose password opens the
\* vault's envelope has that envelope and a working connection, and stays so.
Recovers ==
    \A d \in Devices :
        <>[](\/ panel[d].password # envelope.password
             \/ /\ stored[d].envelope = envelope
                /\ stored[d].config.status = "synced"
                /\ stored[d].config.token \in live)

\* docs/security.md:75: the data key is made by the first device and every other device
\* takes it; every record is encrypted under it.
RecordsUseVaultKey == records \subseteq {envelope.key}
=============================================================================

---------------------------- MODULE AcmeManager ----------------------------
(***************************************************************************)
(* The certificate of the encrypted listeners: internal/acme's Manager     *)
(* loop, the bootstrap and start-up of internal/cli that share its files,  *)
(* and the settings saves and engine reloads that read them.               *)
(*                                                                         *)
(* The Manager runs beside the GUI and takes no lock the GUI takes, so its *)
(* steps are the single file operations.  The process may stop at any of   *)
(* them (SIGTERM does not wait for the Manager) and is started again by    *)
(* its supervisor.  A file write, a settings load and an engine reload may *)
(* each fail.                                                              *)
(***************************************************************************)
EXTENDS Integers

CONSTANTS
    Domain,       \* certificate domains
    CA,           \* resolved ACME directory URLs (caDirURL)
    Configs,      \* the settings an operator may save
    Lifetime,     \* validity of an issued certificate
    BootLifetime, \* validity of the self-signed bootstrap certificate
    RenewBefore,  \* renewBefore()
    MaxClock,     \* bound on the clock
    MaxEdits,     \* bound on settings saves
    MaxFaults,    \* bound on failing file, settings and reload operations
    MaxCrashes    \* bound on process stops

NoFile == [none |-> "file"]
Garbage == [none |-> "bytes"]     \* a file truncated by an interrupted writePEM
NoPair == [none |-> "pair"]
SelfSigned == [none |-> "ca"]

\* What the certificate code reads of settings.yaml.
Settings == [enabled : BOOLEAN, supported : BOOLEAN, fallback : BOOLEAN,
             encrypted : BOOLEAN, domain : Domain, ca : CA]

\* configgen.Validate: an encrypted listener needs a certificate source.
Valid(s) == s.encrypted => s.enabled \/ s.fallback

ASSUME AcmeAssumption ==
    /\ Configs \subseteq {s \in Settings : Valid(s)}
    /\ SelfSigned \notin CA
    /\ RenewBefore \in Nat /\ BootLifetime \in Nat
    /\ Lifetime \in Nat /\ Lifetime >= RenewBefore
    /\ MaxClock \in Nat /\ MaxEdits \in Nat /\ MaxFaults \in Nat /\ MaxCrashes \in Nat

\* A certificate and the private key it was made with share a serial.
Cert == [serial : Nat, domain : Domain, ca : CA \cup {SelfSigned}, until : Int]
Key == [serial : Nat]
KeyOf(c) == [serial |-> c.serial]
Pair == [cert : Cert, key : Key, cached : BOOLEAN]

VARIABLES
    settings,    \* settings.yaml
    cert, key,   \* certs/cert.pem, certs/key.pem
    marker,      \* certs/issuer_ca.txt
    cacheCert, cacheKey,   \* certs/cache/<slug>.{cert,key}.pem, per CA
    phase,       \* the process: down, the steps of run(), up
    served,      \* certificate of the running encrypted listeners, or NoFile
    cfg,         \* Manager.cfg
    pc,          \* where the Manager's loop is
    held,        \* the pair it is installing
    rendered,    \* the encrypted switch of the Corefile it is about to load
    latest,      \* the last certificate each CA issued (the CA's books)
    hurt,        \* an installation was cut short or lost a write
    serial, clock, edits, faults, crashes

active   == <<cert, key, marker>>
cache    == <<cacheCert, cacheKey>>
process  == <<phase, served>>
manager  == <<cfg, pc, held, rendered>>
ghosts   == <<latest, hurt>>
counters == <<edits, faults, crashes>>
vars == <<settings, active, cache, process, manager, ghosts, serial, clock, counters>>

Fault == faults < MaxFaults /\ faults' = faults + 1
-----------------------------------------------------------------------------
(* Decisions                                                               *)

DueBy(c, now) == c.until - now < RenewBefore

\* (Mutant: the CA environment is not compared.)
NeedsIssueAnyCA(s) ==
    ~(/\ cert \in Cert
      /\ cert.ca # SelfSigned
      /\ cert.domain = s.domain
      /\ ~DueBy(cert, clock))

\* needsIssue: anything but a parseable, CA-signed certificate for the domain,
\* recorded as issued by the configured CA and outside its renewal window.
NeedsIssue(s) ==
    ~(/\ cert \in Cert
      /\ cert.ca # SelfSigned
      /\ cert.domain = s.domain
      /\ marker = s.ca
      /\ ~DueBy(cert, clock))

\* promoteFromCache's test.  The key file only has to be there.
Promotable(s) ==
    /\ cacheCert[s.ca] \in Cert
    /\ cacheKey[s.ca] # NoFile
    /\ cacheCert[s.ca].domain = s.domain
    /\ ~DueBy(cacheCert[s.ca], clock)

\* The tls directive loads the pair on every (re)load that renders one.
PairLoads == cert \in Cert /\ key = KeyOf(cert)
Loads(encrypted) == encrypted => PairLoads
ServedBy(encrypted) == IF encrypted THEN cert ELSE NoFile
-----------------------------------------------------------------------------
(* internal/cli: run() and ensureSelfSignedCert                            *)

Init ==
    /\ settings \in Configs
    /\ cert = NoFile /\ key = NoFile /\ marker = NoFile
    /\ cacheCert = [a \in CA |-> NoFile] /\ cacheKey = [a \in CA |-> NoFile]
    /\ phase = "down" /\ served = NoFile
    /\ cfg = settings /\ pc = "off" /\ held = NoPair /\ rendered = FALSE
    /\ latest = [a \in CA |-> NoFile] /\ hurt = FALSE
    /\ serial = 0 /\ clock = 0 /\ edits = 0 /\ faults = 0 /\ crashes = 0

\* run() reads the settings and decides whether a bootstrap pair is needed.
Boot ==
    /\ phase = "down"
    /\ phase' = IF (settings.enabled \/ settings.fallback) /\ (cert = NoFile \/ key = NoFile)
                THEN "bootCert" ELSE "start"
    /\ UNCHANGED <<settings, active, cache, served, manager, ghosts, serial, clock, counters>>

\* ensureSelfSignedCert writes the certificate, then the key.
BootCert ==
    /\ phase = "bootCert"
    /\ phase' = "bootKey"
    /\ cert' = [serial |-> serial, domain |-> settings.domain, ca |-> SelfSigned,
                until |-> clock + BootLifetime]
    /\ UNCHANGED <<settings, key, marker, cache, served, manager, ghosts, serial, clock, counters>>

BootKey ==
    /\ phase = "bootKey"
    /\ phase' = "start"
    /\ key' = [serial |-> serial]
    /\ serial' = serial + 1
    /\ UNCHANGED <<settings, cert, marker, cache, served, manager, ghosts, clock, counters>>

\* engine.New; run() returns its error and the process ends.  NewManager then
\* loads the settings once more, and no Manager runs if that fails.
StartEngine ==
    /\ phase = "start"
    /\ IF Loads(settings.encrypted)
       THEN /\ phase' = "up"
            /\ served' = ServedBy(settings.encrypted)
            /\ cfg' = settings
            /\ \/ pc' = "sleep" /\ UNCHANGED faults
               \/ pc' = "off" /\ Fault
       ELSE phase' = "down" /\ UNCHANGED <<served, cfg, pc, faults>>
    /\ UNCHANGED <<settings, active, cache, held, rendered, ghosts, serial, clock, edits, crashes>>

Writing == pc \in {"writeKey", "writeCert", "writeMarker", "cacheKey", "cacheCert"}

\* The process stops anywhere; an interrupted writePEM leaves a truncated file.
Stop ==
    /\ phase # "down"
    /\ crashes < MaxCrashes
    /\ crashes' = crashes + 1
    /\ phase' = "down"
    /\ cert' \in IF phase = "bootCert" THEN {cert, Garbage} ELSE {cert}
    /\ key' \in IF phase = "bootKey" THEN {key, Garbage} ELSE {key}
    /\ hurt' = (hurt \/ Writing \/ phase \in {"bootCert", "bootKey"})
    /\ served' = NoFile
    /\ pc' = "off" /\ held' = NoPair /\ rendered' = FALSE
    /\ UNCHANGED <<settings, marker, cache, cfg, latest, serial, clock, edits, faults>>

\* Service.SaveSettings: the settings are saved, then the engine reloads.  A
\* failing reload leaves the previous configuration serving.
SaveSettings(s) ==
    /\ phase = "up"
    /\ edits < MaxEdits
    /\ edits' = edits + 1
    /\ settings' = s
    /\ \/ /\ Loads(s.encrypted)
          /\ served' = ServedBy(s.encrypted)
          /\ UNCHANGED faults
       \/ /\ ~Loads(s.encrypted)
          /\ UNCHANGED <<served, faults>>
       \/ Fault /\ UNCHANGED served
    /\ UNCHANGED <<active, cache, phase, manager, ghosts, serial, clock, crashes>>

Tick ==
    /\ clock < MaxClock
    /\ clock' = clock + 1
    /\ UNCHANGED <<settings, active, cache, process, manager, ghosts, serial, counters>>
-----------------------------------------------------------------------------
(* internal/acme: Manager.Run and reconcile                                *)

\* A check wakes up: at once after a start, after retryInterval or
\* checkInterval otherwise.  A failing loadCfg keeps the last configuration.
Reconcile ==
    /\ pc = "sleep"
    /\ \/ cfg' = settings /\ UNCHANGED faults
       \/ cfg' = cfg /\ Fault
    /\ pc' = IF cfg'.enabled /\ cfg'.supported /\ NeedsIssue(cfg') THEN "promote" ELSE "sleep"
    /\ UNCHANGED <<settings, active, cache, process, held, rendered, ghosts, serial, clock,
                   edits, crashes>>

PromoteFromCache ==
    /\ pc = "promote"
    /\ IF Promotable(cfg)
       THEN /\ held' = [cert |-> cacheCert[cfg.ca], key |-> cacheKey[cfg.ca], cached |-> TRUE]
            /\ pc' = "writeKey"
       ELSE held' = NoPair /\ pc' = "obtain"
    /\ UNCHANGED <<settings, active, cache, process, cfg, rendered, ghosts, serial, clock, counters>>

ObtainSucceeds ==
    LET c == [serial |-> serial, domain |-> cfg.domain, ca |-> cfg.ca,
              until |-> clock + Lifetime]
    IN  /\ pc = "obtain"
        /\ held' = [cert |-> c, key |-> KeyOf(c), cached |-> FALSE]
        /\ latest' = [latest EXCEPT ![cfg.ca] = c]
        /\ serial' = serial + 1
        /\ pc' = "writeKey"
        /\ UNCHANGED <<settings, active, cache, process, cfg, rendered, hurt, clock, counters>>

ObtainFails ==
    /\ pc = "obtain"
    /\ pc' = "sleep"
    /\ UNCHANGED <<settings, active, cache, process, cfg, held, rendered, ghosts, serial, clock,
                   counters>>

\* A step that ends the installation drops the pair: it was a local variable.
Continue(next) == pc' = next /\ held' = held
Abandon(next) == pc' = next /\ held' = NoPair

\* writeCertKey: key, certificate and marker, each renamed into place.  When one
\* write fails, an issued pair is given up until the retry, and promoteFromCache
\* reports that nothing was promoted.
WriteFails ==
    /\ pc \in {"writeKey", "writeCert", "writeMarker"}
    /\ Fault
    /\ Abandon(IF held.cached THEN "obtain" ELSE "sleep")
    /\ hurt' = TRUE
    /\ UNCHANGED <<settings, active, cache, process, cfg, rendered, latest, serial, clock,
                   edits, crashes>>

WriteKey ==
    /\ pc = "writeKey"
    /\ key' = held.key
    /\ Continue("writeCert")
    /\ UNCHANGED <<settings, cert, marker, cache, process, cfg, rendered, ghosts, serial, clock,
                   counters>>

WriteCert ==
    /\ pc = "writeCert"
    /\ cert' = held.cert
    /\ Continue("writeMarker")
    /\ UNCHANGED <<settings, key, marker, cache, process, cfg, rendered, ghosts, serial, clock,
                   counters>>

\* (Mutant: an issued pair is dropped before it is cached.)
AfterMarkerDropped == IF held.cached THEN Abandon("reload") ELSE Abandon("cacheKey")
AfterMarker == IF held.cached THEN Abandon("reload") ELSE Continue("cacheKey")

\* (Mutant: the marker names the CA of the settings of this moment.)
WriteMarkerLive ==
    /\ pc = "writeMarker"
    /\ marker' = settings.ca
    /\ AfterMarker
    /\ UNCHANGED <<settings, cert, key, cache, process, cfg, rendered, ghosts, serial, clock,
                   counters>>

WriteMarker ==
    /\ pc = "writeMarker"
    /\ marker' = cfg.ca
    /\ AfterMarker
    /\ UNCHANGED <<settings, cert, key, cache, process, cfg, rendered, ghosts, serial, clock,
                   counters>>

\* cacheCurrent: key, then certificate.  Its failure is not fatal.
CacheKey ==
    /\ pc = "cacheKey"
    /\ cacheKey' = [cacheKey EXCEPT ![cfg.ca] = held.key]
    /\ Continue("cacheCert")
    /\ UNCHANGED <<settings, active, cacheCert, process, cfg, rendered, ghosts, serial, clock,
                   counters>>

\* (Mutant: the certificate is not cached.)
CacheCertNot ==
    /\ pc = "cacheCert"
    /\ Abandon("reload")
    /\ UNCHANGED <<settings, active, cache, process, cfg, rendered, ghosts, serial,
                   clock, counters>>

\* (Mutant: the cache slot is that of the settings of this moment.)
CacheCertLive ==
    /\ pc = "cacheCert"
    /\ cacheCert' = [cacheCert EXCEPT ![settings.ca] = held.cert]
    /\ Abandon("reload")
    /\ UNCHANGED <<settings, active, cacheKey, process, cfg, rendered, ghosts, serial, clock,
                   counters>>

CacheCert ==
    /\ pc = "cacheCert"
    /\ cacheCert' = [cacheCert EXCEPT ![cfg.ca] = held.cert]
    /\ Abandon("reload")
    /\ UNCHANGED <<settings, active, cacheKey, process, cfg, rendered, ghosts, serial, clock,
                   counters>>

CacheFails ==
    /\ pc \in {"cacheKey", "cacheCert"}
    /\ Fault
    /\ Abandon("reload")
    /\ hurt' = TRUE
    /\ UNCHANGED <<settings, active, cache, process, cfg, rendered, latest, serial, clock,
                   edits, crashes>>

\* reloadFn renders from the settings of this moment ...
RenderReload ==
    /\ pc = "reload"
    /\ pc' = "swap"
    /\ rendered' = settings.encrypted
    /\ UNCHANGED <<settings, active, cache, process, cfg, held, ghosts, serial, clock, counters>>

\* ... and swaps that Corefile in, whatever was saved and loaded in between.
SwapEngine ==
    /\ pc = "swap"
    /\ Loads(rendered)
    /\ served' = ServedBy(rendered)
    /\ pc' = "sleep"
    /\ UNCHANGED <<settings, active, cache, phase, cfg, held, rendered, ghosts, serial, clock,
                   counters>>

\* A settings load, a data file write or the engine itself fails, or the pair
\* does not load: the check ends and the next one decides afresh.
ReloadFails ==
    /\ pc \in {"reload", "swap"}
    /\ IF pc = "swap" /\ ~Loads(rendered) THEN UNCHANGED faults ELSE Fault
    /\ pc' = "sleep"
    /\ UNCHANGED <<settings, active, cache, process, cfg, held, rendered, ghosts, serial, clock,
                   edits, crashes>>

ManagerStep ==
    \/ Reconcile \/ PromoteFromCache \/ ObtainSucceeds \/ ObtainFails
    \/ WriteKey \/ WriteCert \/ WriteMarker \/ WriteFails
    \/ CacheKey \/ CacheCert \/ CacheFails
    \/ RenderReload \/ SwapEngine \/ ReloadFails

ProcessStep == Boot \/ BootCert \/ BootKey \/ StartEngine

Next ==
    \/ ProcessStep
    \/ ManagerStep
    \/ Stop
    \/ \E s \in Configs : SaveSettings(s)
    \/ Tick

\* The supervisor restarts the process, the Manager's timer fires and its steps
\* return.  The CA issues once it is asked often enough.
Fairness ==
    /\ WF_vars(ProcessStep)
    /\ WF_vars(ManagerStep)
    /\ SF_vars(ObtainSucceeds)

Spec == Init /\ [][Next]_vars
FairSpec == Spec /\ Fairness
-----------------------------------------------------------------------------
(* Properties                                                              *)

\* Every variable has its type, and a step of writeCertKey or cacheCurrent has a
\* pair to write.
TypeOK ==
    /\ settings \in Configs
    /\ cert \in Cert \cup {NoFile, Garbage}
    /\ key \in Key \cup {NoFile, Garbage}
    /\ marker \in CA \cup {NoFile}
    /\ cacheCert \in [CA -> Cert \cup {NoFile}]
    /\ cacheKey \in [CA -> Key \cup {NoFile}]
    /\ phase \in {"down", "bootCert", "bootKey", "start", "up"}
    /\ served \in Cert \cup {NoFile}
    /\ cfg \in Configs
    /\ pc \in {"off", "sleep", "promote", "obtain", "writeKey", "writeCert", "writeMarker",
               "cacheKey", "cacheCert", "reload", "swap"}
    /\ held \in Pair \cup {NoPair}
    /\ Writing => held \in Pair
    /\ rendered \in BOOLEAN
    /\ latest \in [CA -> Cert \cup {NoFile}]
    /\ hurt \in BOOLEAN
    /\ serial \in Nat /\ clock \in Nat /\ edits \in Nat /\ faults \in Nat /\ crashes \in Nat

\* The per-environment cache never mixes environments, whatever is saved while
\* an issuance is under way and wherever the process stops: a cached certificate
\* was issued by the CA it is filed under, and what is being installed was
\* issued by the CA the marker will name (cacheCurrent, promoteFromCache).
CacheTruth ==
    /\ \A a \in CA : cacheCert[a] # NoFile => cacheCert[a].ca = a
    /\ Writing => held.cert.ca = cfg.ca

\* Toggling environments does not burn rate limits (cacheDir): unless a write was
\* lost, the CA is asked again only for another domain than it issued last, or
\* when that certificate is due for renewal.
NotReissuedEarly ==
    pc = "obtain" /\ ~hurt =>
        \/ latest[cfg.ca] = NoFile
        \/ latest[cfg.ca].domain # cfg.domain
        \/ DueBy(latest[cfg.ca], clock)

\* Between installations that were not cut short the files agree: certificate
\* and key match, in certs/ and in every cache slot, and issuer_ca.txt names the
\* issuer of the certificate beside it (caFile).
FilesAgree ==
    ~hurt /\ phase = "up" /\ ~Writing =>
        /\ (cert = NoFile /\ key = NoFile) \/ PairLoads
        /\ cert # NoFile /\ cert.ca # SelfSigned => marker = cert.ca
        /\ \A a \in CA : cacheCert[a] # NoFile => cacheKey[a] = KeyOf(cacheCert[a])

\* The inductive strengthening of the three.  The Manager only runs in a process
\* that is up, so its configuration is stable from promote to swap ...
ManagerUp == phase # "up" => pc = "off"

\* ... as long as nothing was cut short, each file is the held pair's from the
\* step that writes it on, and agrees with its neighbours before that step ...
HeldMatches ==
    /\ Writing => held.key = KeyOf(held.cert)
    /\ pc \in {"cacheKey", "cacheCert"} => ~held.cached
ActiveAgrees ==
    /\ phase = "bootCert" => cert = NoFile /\ key = NoFile
    /\ phase = "bootKey" => cert \in Cert /\ cert.ca = SelfSigned /\ cert.serial = serial
    /\ pc = "writeCert" => key = held.key
    /\ phase \notin {"bootCert", "bootKey"} /\ pc # "writeCert" =>
          (cert = NoFile /\ key = NoFile) \/ PairLoads
MarkerAgrees ==
    IF pc = "writeMarker" THEN cert = held.cert
    ELSE cert # NoFile /\ cert.ca # SelfSigned => marker = cert.ca
SlotsAgree ==
    \A a \in CA :
        IF pc = "cacheCert" /\ a = cfg.ca THEN cacheKey[a] = held.key
        ELSE cacheCert[a] # NoFile => cacheKey[a] = KeyOf(cacheCert[a])

\* ... and the CA's last certificate is cached or on its way there.
LatestKept ==
    \A a \in CA : latest[a] # NoFile =>
        IF Writing /\ ~held.cached /\ a = cfg.ca
        THEN held.cert = latest[a]
        ELSE cacheCert[a] = latest[a]

Agreement ==
    ~hurt => HeldMatches /\ ActiveAgrees /\ MarkerAgrees /\ SlotsAgree /\ LatestKept
AcmeInv ==
    /\ TypeOK
    /\ ManagerUp
    /\ CacheTruth
    /\ Agreement
    /\ NotReissuedEarly

\* The certificate on disk is the one the settings ask for, by what it is and
\* not by what the marker says.
Wanted ==
    /\ cert \in Cert
    /\ cert.domain = settings.domain
    /\ cert.ca = settings.ca
    /\ ~DueBy(cert, clock)

\* A change of domain, CA or enablement takes effect without a restart and
\* issuance problems are retried until they pass (Run, Manager): once ACME stays
\* on and the Manager keeps running it settles, on the wanted certificate unless
\* an installation was cut short.
Asked == settings.enabled /\ settings.supported /\ phase = "up" /\ pc # "off"
Converges == <>[]Asked => <>[](~NeedsIssue(settings) /\ (~hurt => Wanted))
=============================================================================

------------------------- MODULE AcmeManagerProofs -------------------------
(***************************************************************************)
(* What AcmeManager promises for every set of domains, CAs and settings,   *)
(* every lifetime and any number of saves, faults and process stops.       *)
(***************************************************************************)
EXTENDS AcmeManager, TLAPS

\* A missing file is neither a certificate nor a key (the file is absent, and
\* os.ReadFile says so).
LEMMA NoFileIsNone ==
    /\ NoFile \notin Cert /\ NoFile \notin Key
    /\ Garbage \notin Cert /\ Garbage \notin Key
    /\ NoFile # Garbage
<1>1. /\ NoFile.none = "file" /\ Garbage.none = "bytes"
      /\ DOMAIN NoFile = {"none"} /\ DOMAIN Garbage = {"none"}
  BY DEF NoFile, Garbage
<1>2. \A c \in Cert : "serial" \in DOMAIN c
  BY DEF Cert
<1>3. \A k \in Key : "serial" \in DOMAIN k
  BY DEF Key
<1> QED
  BY <1>1, <1>2, <1>3

USE AcmeAssumption

\* The start: empty directories, no process.
LEMMA InitTyped == Init => TypeOK
<1> SUFFICES ASSUME Init PROVE TypeOK
  OBVIOUS
<1>1. hurt \in BOOLEAN /\ rendered \in BOOLEAN
  BY Zenon DEF Init
<1> QED
  BY <1>1 DEF Init, TypeOK, Writing

\* Every step of the process, the Manager, the operator and the clock keeps the
\* types, the pair that is being installed included.
LEMMA StepTyped ==
    ASSUME TypeOK, [Next]_vars
    PROVE  TypeOK'
<1> USE DEF TypeOK, Writing, active, cache, process, manager, ghosts, counters
<1>1. CASE Boot
  BY <1>1 DEF Boot
<1>2. CASE BootCert
  <2>1. settings.domain \in Domain
    BY DEF Settings
  <2>2. cert' \in Cert
    BY <1>2, <2>1 DEF BootCert, Cert
  <2> QED
    BY <1>2, <2>2 DEF BootCert
<1>3. CASE BootKey
  BY <1>3 DEF BootKey, Key
<1>4. CASE StartEngine
  <2>1. ServedBy(settings.encrypted) \in Cert \cup {NoFile} \/ ~Loads(settings.encrypted)
    BY DEF ServedBy, Loads, PairLoads
  <2> QED
    BY <1>4, <2>1 DEF StartEngine, Fault
<1>5. CASE Stop
  <2>1. hurt' \in BOOLEAN /\ rendered' \in BOOLEAN
    BY <1>5, Zenon DEF Stop
  <2>2. cert' \in Cert \cup {NoFile, Garbage} /\ key' \in Key \cup {NoFile, Garbage}
    BY <1>5 DEF Stop
  <2> QED
    BY <1>5, <2>1, <2>2 DEF Stop
<1>6. ASSUME NEW s \in Configs, SaveSettings(s)
      PROVE  TypeOK'
  <2>1. ServedBy(s.encrypted) \in Cert \cup {NoFile} \/ ~Loads(s.encrypted)
    BY DEF ServedBy, Loads, PairLoads
  <2> QED
    BY <1>6, <2>1 DEF SaveSettings, Fault
<1>7. CASE Tick
  BY <1>7 DEF Tick
<1>8. CASE Reconcile
  BY <1>8 DEF Reconcile, Fault
<1>9. CASE PromoteFromCache
  <2>1. cfg.ca \in CA
    BY DEF Settings
  <2>2. cacheCert[cfg.ca] \in Cert \cup {NoFile} /\ cacheKey[cfg.ca] \in Key \cup {NoFile}
    BY <2>1
  <2>3. Promotable(cfg) =>
          [cert |-> cacheCert[cfg.ca], key |-> cacheKey[cfg.ca], cached |-> TRUE] \in Pair
    BY <2>2 DEF Promotable, Pair
  <2> QED
    BY <1>9, <2>3, ZenonT(60) DEF PromoteFromCache
<1>10. CASE ObtainSucceeds
  <2> DEFINE c == [serial |-> serial, domain |-> cfg.domain, ca |-> cfg.ca,
                   until |-> clock + Lifetime]
  <2>1. c \in Cert
    BY DEF Settings, Cert
  <2>2. [cert |-> c, key |-> KeyOf(c), cached |-> FALSE] \in Pair
    BY <2>1 DEF KeyOf, Key, Pair, Cert
  <2>3. held' \in Pair /\ latest' \in [CA -> Cert \cup {NoFile}]
    BY <1>10, <2>1, <2>2 DEF ObtainSucceeds
  <2> QED
    BY <1>10, <2>3 DEF ObtainSucceeds
<1>11. CASE ObtainFails
  BY <1>11 DEF ObtainFails
<1>12. CASE WriteFails
  BY <1>12 DEF WriteFails, Fault, Abandon
<1>13. CASE WriteKey
  BY <1>13 DEF WriteKey, Continue, Pair
<1>14. CASE WriteCert
  BY <1>14 DEF WriteCert, Continue, Pair
<1>15. CASE WriteMarker
  BY <1>15 DEF WriteMarker, AfterMarker, Continue, Abandon, Settings
<1>16. CASE CacheKey
  BY <1>16 DEF CacheKey, Continue, Pair, Settings
<1>17. CASE CacheCert
  BY <1>17 DEF CacheCert, Abandon, Pair, Settings
<1>18. CASE CacheFails
  BY <1>18 DEF CacheFails, Fault, Abandon
<1>19. CASE RenderReload
  BY <1>19 DEF RenderReload, Settings
<1>20. CASE SwapEngine
  <2>1. ServedBy(rendered) \in Cert \cup {NoFile} \/ ~Loads(rendered)
    BY DEF ServedBy, Loads, PairLoads
  <2> QED
    BY <1>20, <2>1 DEF SwapEngine
<1>21. CASE ReloadFails
  BY <1>21 DEF ReloadFails, Fault
<1>22. CASE UNCHANGED vars
  BY <1>22 DEF vars
<1> QED
  BY <1>1, <1>2, <1>3, <1>4, <1>5, <1>6, <1>7, <1>8, <1>9, <1>10, <1>11, <1>12, <1>13,
     <1>14, <1>15, <1>16, <1>17, <1>18, <1>19, <1>20, <1>21, <1>22
     DEF Next, ProcessStep, ManagerStep

\* The Manager is started by a process that is up and ends with it.
LEMMA UpStep ==
    ASSUME ManagerUp, [Next]_vars
    PROVE  ManagerUp'
<1> USE DEF ManagerUp, active, cache, process, manager, ghosts, counters
<1>1. CASE Boot
  BY <1>1 DEF Boot
<1>2. CASE BootCert
  BY <1>2 DEF BootCert
<1>3. CASE BootKey
  BY <1>3 DEF BootKey
<1>4. CASE StartEngine
  BY <1>4 DEF StartEngine
<1>5. CASE Stop
  BY <1>5 DEF Stop
<1>6. ASSUME NEW s \in Configs, SaveSettings(s)
      PROVE  ManagerUp'
  BY <1>6 DEF SaveSettings
<1>7. CASE Tick
  BY <1>7 DEF Tick
<1>8. CASE Reconcile
  BY <1>8 DEF Reconcile
<1>9. CASE PromoteFromCache
  BY <1>9 DEF PromoteFromCache
<1>10. CASE ObtainSucceeds
  BY <1>10 DEF ObtainSucceeds
<1>11. CASE ObtainFails
  BY <1>11 DEF ObtainFails
<1>12. CASE WriteFails
  BY <1>12 DEF WriteFails, Abandon
<1>13. CASE WriteKey
  BY <1>13 DEF WriteKey, Continue
<1>14. CASE WriteCert
  BY <1>14 DEF WriteCert, Continue
<1>15. CASE WriteMarker
  BY <1>15 DEF WriteMarker, AfterMarker, Continue, Abandon
<1>16. CASE CacheKey
  BY <1>16 DEF CacheKey, Continue
<1>17. CASE CacheCert
  BY <1>17 DEF CacheCert, Abandon
<1>18. CASE CacheFails
  BY <1>18 DEF CacheFails, Abandon
<1>19. CASE RenderReload
  BY <1>19 DEF RenderReload
<1>20. CASE SwapEngine
  BY <1>20 DEF SwapEngine
<1>21. CASE ReloadFails
  BY <1>21 DEF ReloadFails
<1>22. CASE UNCHANGED vars
  BY <1>22 DEF vars
<1> QED
  BY <1>1, <1>2, <1>3, <1>4, <1>5, <1>6, <1>7, <1>8, <1>9, <1>10, <1>11, <1>12, <1>13,
     <1>14, <1>15, <1>16, <1>17, <1>18, <1>19, <1>20, <1>21, <1>22
     DEF Next, ProcessStep, ManagerStep

\* The configuration is fixed while a pair is installed, so the pair goes to the
\* slot of the CA that issued it.
LEMMA TruthStep ==
    ASSUME TypeOK, ManagerUp, CacheTruth, [Next]_vars
    PROVE  CacheTruth'
<1> USE DEF TypeOK, ManagerUp, CacheTruth, Writing, active, cache, process, manager, ghosts,
            counters
<1>1. CASE Boot
  BY <1>1 DEF Boot
<1>2. CASE BootCert
  BY <1>2 DEF BootCert
<1>3. CASE BootKey
  BY <1>3 DEF BootKey
<1>4. CASE StartEngine
  BY <1>4 DEF StartEngine
<1>5. CASE Stop
  BY <1>5 DEF Stop
<1>6. ASSUME NEW s \in Configs, SaveSettings(s)
      PROVE  CacheTruth'
  BY <1>6 DEF SaveSettings
<1>7. CASE Tick
  BY <1>7 DEF Tick
<1>8. CASE Reconcile
  BY <1>8 DEF Reconcile
<1>9. CASE PromoteFromCache
  BY <1>9, NoFileIsNone DEF PromoteFromCache, Promotable, Settings
<1>10. CASE ObtainSucceeds
  BY <1>10 DEF ObtainSucceeds, Settings
<1>11. CASE ObtainFails
  BY <1>11 DEF ObtainFails
<1>12. CASE WriteFails
  BY <1>12 DEF WriteFails, Abandon
<1>13. CASE WriteKey
  BY <1>13 DEF WriteKey, Continue
<1>14. CASE WriteCert
  BY <1>14 DEF WriteCert, Continue
<1>15. CASE WriteMarker
  BY <1>15 DEF WriteMarker, AfterMarker, Continue, Abandon
<1>16. CASE CacheKey
  BY <1>16 DEF CacheKey, Continue
<1>17. CASE CacheCert
  BY <1>17 DEF CacheCert, Abandon, Settings
<1>18. CASE CacheFails
  BY <1>18 DEF CacheFails, Abandon
<1>19. CASE RenderReload
  BY <1>19 DEF RenderReload
<1>20. CASE SwapEngine
  BY <1>20 DEF SwapEngine
<1>21. CASE ReloadFails
  BY <1>21 DEF ReloadFails
<1>22. CASE UNCHANGED vars
  BY <1>22 DEF vars
<1> QED
  BY <1>1, <1>2, <1>3, <1>4, <1>5, <1>6, <1>7, <1>8, <1>9, <1>10, <1>11, <1>12, <1>13,
     <1>14, <1>15, <1>16, <1>17, <1>18, <1>19, <1>20, <1>21, <1>22
     DEF Next, ProcessStep, ManagerStep

\* A step keeps "hurt" or sets it, so what it must preserve held before.
LEMMA HurtStays ==
    ASSUME [Next]_vars, ~hurt'
    PROVE  ~hurt
<1> USE DEF active, cache, process, manager, ghosts, counters
<1>1. CASE Boot
  BY <1>1 DEF Boot
<1>2. CASE BootCert
  BY <1>2 DEF BootCert
<1>3. CASE BootKey
  BY <1>3 DEF BootKey
<1>4. CASE StartEngine
  BY <1>4 DEF StartEngine
<1>5. CASE Stop
  BY <1>5 DEF Stop
<1>6. ASSUME NEW s \in Configs, SaveSettings(s)
      PROVE  ~hurt
  BY <1>6 DEF SaveSettings
<1>7. CASE Tick
  BY <1>7 DEF Tick
<1>8. CASE Reconcile
  BY <1>8 DEF Reconcile
<1>9. CASE PromoteFromCache
  BY <1>9 DEF PromoteFromCache
<1>10. CASE ObtainSucceeds
  BY <1>10 DEF ObtainSucceeds
<1>11. CASE ObtainFails
  BY <1>11 DEF ObtainFails
<1>12. CASE WriteFails
  BY <1>12 DEF WriteFails, Abandon
<1>13. CASE WriteKey
  BY <1>13 DEF WriteKey, Continue
<1>14. CASE WriteCert
  BY <1>14 DEF WriteCert, Continue
<1>15. CASE WriteMarker
  BY <1>15 DEF WriteMarker, AfterMarker, Continue, Abandon
<1>16. CASE CacheKey
  BY <1>16 DEF CacheKey, Continue
<1>17. CASE CacheCert
  BY <1>17 DEF CacheCert, Abandon
<1>18. CASE CacheFails
  BY <1>18 DEF CacheFails, Abandon
<1>19. CASE RenderReload
  BY <1>19 DEF RenderReload
<1>20. CASE SwapEngine
  BY <1>20 DEF SwapEngine
<1>21. CASE ReloadFails
  BY <1>21 DEF ReloadFails
<1>22. CASE UNCHANGED vars
  BY <1>22 DEF vars
<1> QED
  BY <1>1, <1>2, <1>3, <1>4, <1>5, <1>6, <1>7, <1>8, <1>9, <1>10, <1>11, <1>12, <1>13,
     <1>14, <1>15, <1>16, <1>17, <1>18, <1>19, <1>20, <1>21, <1>22
     DEF Next, ProcessStep, ManagerStep

\* Issued and promoted pairs match.
LEMMA HeldStep ==
    ASSUME TypeOK, ManagerUp, ~hurt, HeldMatches, SlotsAgree, [Next]_vars
    PROVE  HeldMatches'
<1> USE DEF TypeOK, ManagerUp, Writing, active, cache, process, manager, ghosts,
            counters, HeldMatches
<1>1. CASE Boot
  BY <1>1 DEF Boot
<1>2. CASE BootCert
  BY <1>2 DEF BootCert
<1>3. CASE BootKey
  BY <1>3 DEF BootKey
<1>4. CASE StartEngine
  BY <1>4 DEF StartEngine
<1>5. CASE Stop
  BY <1>5 DEF Stop
<1>6. ASSUME NEW s \in Configs, SaveSettings(s)
      PROVE  HeldMatches'
  BY <1>6 DEF SaveSettings
<1>7. CASE Tick
  BY <1>7 DEF Tick
<1>8. CASE Reconcile
  BY <1>8 DEF Reconcile
<1>9. CASE PromoteFromCache
  BY <1>9, NoFileIsNone DEF PromoteFromCache, Promotable, Settings, SlotsAgree
<1>10. CASE ObtainSucceeds
  BY <1>10 DEF ObtainSucceeds, KeyOf, Pair
<1>11. CASE ObtainFails
  BY <1>11 DEF ObtainFails
<1>12. CASE WriteFails
  BY <1>12 DEF WriteFails, Abandon
<1>13. CASE WriteKey
  BY <1>13 DEF WriteKey, Continue
<1>14. CASE WriteCert
  BY <1>14 DEF WriteCert, Continue
<1>15. CASE WriteMarker
  BY <1>15 DEF WriteMarker, AfterMarker, Continue, Abandon
<1>16. CASE CacheKey
  BY <1>16 DEF CacheKey, Continue
<1>17. CASE CacheCert
  BY <1>17 DEF CacheCert, Abandon
<1>18. CASE CacheFails
  BY <1>18 DEF CacheFails, Abandon
<1>19. CASE RenderReload
  BY <1>19 DEF RenderReload
<1>20. CASE SwapEngine
  BY <1>20 DEF SwapEngine
<1>21. CASE ReloadFails
  BY <1>21 DEF ReloadFails
<1>22. CASE UNCHANGED vars
  BY <1>22 DEF vars
<1> QED
  BY <1>1, <1>2, <1>3, <1>4, <1>5, <1>6, <1>7, <1>8, <1>9, <1>10, <1>11, <1>12, <1>13,
     <1>14, <1>15, <1>16, <1>17, <1>18, <1>19, <1>20, <1>21, <1>22
     DEF Next, ProcessStep, ManagerStep

\* The active pair agrees outside the one window between key and certificate.
LEMMA ActiveStep ==
    ASSUME TypeOK, ManagerUp, HeldMatches, ActiveAgrees, [Next]_vars, ~hurt'
    PROVE  ActiveAgrees'
<1> USE DEF TypeOK, ManagerUp, Writing, active, cache, process, manager, ghosts,
            counters, ActiveAgrees, PairLoads
<1>1. CASE Boot
  <2>1. PairLoads => key \in Key
    BY DEF KeyOf, Key, Cert
  <2> QED
    BY <1>1, <2>1, NoFileIsNone DEF Boot
<1>2. CASE BootCert
  BY <1>2 DEF BootCert, Cert, Settings
<1>3. CASE BootKey
  BY <1>3 DEF BootKey, KeyOf
<1>4. CASE StartEngine
  BY <1>4 DEF StartEngine
<1>5. CASE Stop
  BY <1>5 DEF Stop
<1>6. ASSUME NEW s \in Configs, SaveSettings(s)
      PROVE  ActiveAgrees'
  BY <1>6 DEF SaveSettings
<1>7. CASE Tick
  BY <1>7 DEF Tick
<1>8. CASE Reconcile
  BY <1>8 DEF Reconcile
<1>9. CASE PromoteFromCache
  BY <1>9 DEF PromoteFromCache
<1>10. CASE ObtainSucceeds
  BY <1>10 DEF ObtainSucceeds
<1>11. CASE ObtainFails
  BY <1>11 DEF ObtainFails
<1>12. CASE WriteFails
  BY <1>12 DEF WriteFails, Abandon
<1>13. CASE WriteKey
  BY <1>13 DEF WriteKey, Continue, HeldMatches
<1>14. CASE WriteCert
  BY <1>14 DEF WriteCert, Continue, HeldMatches, Pair
<1>15. CASE WriteMarker
  BY <1>15 DEF WriteMarker, AfterMarker, Continue, Abandon
<1>16. CASE CacheKey
  BY <1>16 DEF CacheKey, Continue
<1>17. CASE CacheCert
  BY <1>17 DEF CacheCert, Abandon
<1>18. CASE CacheFails
  BY <1>18 DEF CacheFails, Abandon
<1>19. CASE RenderReload
  BY <1>19 DEF RenderReload
<1>20. CASE SwapEngine
  BY <1>20 DEF SwapEngine
<1>21. CASE ReloadFails
  BY <1>21 DEF ReloadFails
<1>22. CASE UNCHANGED vars
  BY <1>22 DEF vars
<1> QED
  BY <1>1, <1>2, <1>3, <1>4, <1>5, <1>6, <1>7, <1>8, <1>9, <1>10, <1>11, <1>12, <1>13,
     <1>14, <1>15, <1>16, <1>17, <1>18, <1>19, <1>20, <1>21, <1>22
     DEF Next, ProcessStep, ManagerStep

\* The marker names the issuer outside the one window between certificate and
\* marker.
LEMMA MarkerStep ==
    ASSUME TypeOK, ManagerUp, CacheTruth, ActiveAgrees, MarkerAgrees, [Next]_vars, ~hurt'
    PROVE  MarkerAgrees'
<1> USE DEF TypeOK, ManagerUp, Writing, active, cache, process, manager, ghosts,
            counters, MarkerAgrees
<1>1. CASE Boot
  BY <1>1 DEF Boot
<1>2. CASE BootCert
  BY <1>2 DEF BootCert, Cert
<1>3. CASE BootKey
  BY <1>3 DEF BootKey, ActiveAgrees
<1>4. CASE StartEngine
  BY <1>4 DEF StartEngine
<1>5. CASE Stop
  BY <1>5 DEF Stop
<1>6. ASSUME NEW s \in Configs, SaveSettings(s)
      PROVE  MarkerAgrees'
  BY <1>6 DEF SaveSettings
<1>7. CASE Tick
  BY <1>7 DEF Tick
<1>8. CASE Reconcile
  BY <1>8 DEF Reconcile
<1>9. CASE PromoteFromCache
  BY <1>9 DEF PromoteFromCache
<1>10. CASE ObtainSucceeds
  BY <1>10 DEF ObtainSucceeds
<1>11. CASE ObtainFails
  BY <1>11 DEF ObtainFails
<1>12. CASE WriteFails
  BY <1>12 DEF WriteFails, Abandon
<1>13. CASE WriteKey
  BY <1>13 DEF WriteKey, Continue
<1>14. CASE WriteCert
  BY <1>14 DEF WriteCert, Continue
<1>15. CASE WriteMarker
  BY <1>15 DEF WriteMarker, AfterMarker, Continue, Abandon, CacheTruth
<1>16. CASE CacheKey
  BY <1>16 DEF CacheKey, Continue
<1>17. CASE CacheCert
  BY <1>17 DEF CacheCert, Abandon
<1>18. CASE CacheFails
  BY <1>18 DEF CacheFails, Abandon
<1>19. CASE RenderReload
  BY <1>19 DEF RenderReload
<1>20. CASE SwapEngine
  BY <1>20 DEF SwapEngine
<1>21. CASE ReloadFails
  BY <1>21 DEF ReloadFails
<1>22. CASE UNCHANGED vars
  BY <1>22 DEF vars
<1> QED
  BY <1>1, <1>2, <1>3, <1>4, <1>5, <1>6, <1>7, <1>8, <1>9, <1>10, <1>11, <1>12, <1>13,
     <1>14, <1>15, <1>16, <1>17, <1>18, <1>19, <1>20, <1>21, <1>22
     DEF Next, ProcessStep, ManagerStep

\* A cache slot agrees outside the window between its key and its certificate.
LEMMA SlotsStep ==
    ASSUME TypeOK, ManagerUp, HeldMatches, SlotsAgree, [Next]_vars, ~hurt'
    PROVE  SlotsAgree'
<1> USE DEF TypeOK, ManagerUp, Writing, active, cache, process, manager, ghosts,
            counters, SlotsAgree
<1>1. CASE Boot
  BY <1>1 DEF Boot
<1>2. CASE BootCert
  BY <1>2 DEF BootCert
<1>3. CASE BootKey
  BY <1>3 DEF BootKey
<1>4. CASE StartEngine
  BY <1>4 DEF StartEngine
<1>5. CASE Stop
  BY <1>5 DEF Stop
<1>6. ASSUME NEW s \in Configs, SaveSettings(s)
      PROVE  SlotsAgree'
  BY <1>6 DEF SaveSettings
<1>7. CASE Tick
  BY <1>7 DEF Tick
<1>8. CASE Reconcile
  BY <1>8 DEF Reconcile
<1>9. CASE PromoteFromCache
  BY <1>9 DEF PromoteFromCache
<1>10. CASE ObtainSucceeds
  BY <1>10 DEF ObtainSucceeds
<1>11. CASE ObtainFails
  BY <1>11 DEF ObtainFails
<1>12. CASE WriteFails
  BY <1>12 DEF WriteFails, Abandon
<1>13. CASE WriteKey
  BY <1>13 DEF WriteKey, Continue
<1>14. CASE WriteCert
  BY <1>14 DEF WriteCert, Continue
<1>15. CASE WriteMarker
  BY <1>15 DEF WriteMarker, AfterMarker, Continue, Abandon
<1>16. CASE CacheKey
  BY <1>16 DEF CacheKey, Continue, Settings
<1>17. CASE CacheCert
  BY <1>17 DEF CacheCert, Abandon, HeldMatches, Settings
<1>18. CASE CacheFails
  BY <1>18 DEF CacheFails, Abandon
<1>19. CASE RenderReload
  BY <1>19 DEF RenderReload
<1>20. CASE SwapEngine
  BY <1>20 DEF SwapEngine
<1>21. CASE ReloadFails
  BY <1>21 DEF ReloadFails
<1>22. CASE UNCHANGED vars
  BY <1>22 DEF vars
<1> QED
  BY <1>1, <1>2, <1>3, <1>4, <1>5, <1>6, <1>7, <1>8, <1>9, <1>10, <1>11, <1>12, <1>13,
     <1>14, <1>15, <1>16, <1>17, <1>18, <1>19, <1>20, <1>21, <1>22
     DEF Next, ProcessStep, ManagerStep

\* What a CA issued last is in its slot or about to be written there.
LEMMA LatestStep ==
    ASSUME TypeOK, ManagerUp, HeldMatches, LatestKept, [Next]_vars, ~hurt'
    PROVE  LatestKept'
<1> USE DEF TypeOK, ManagerUp, Writing, active, cache, process, manager, ghosts,
            counters, LatestKept
<1>1. CASE Boot
  BY <1>1 DEF Boot
<1>2. CASE BootCert
  BY <1>2 DEF BootCert
<1>3. CASE BootKey
  BY <1>3 DEF BootKey
<1>4. CASE StartEngine
  BY <1>4 DEF StartEngine
<1>5. CASE Stop
  BY <1>5 DEF Stop
<1>6. ASSUME NEW s \in Configs, SaveSettings(s)
      PROVE  LatestKept'
  BY <1>6 DEF SaveSettings
<1>7. CASE Tick
  BY <1>7 DEF Tick
<1>8. CASE Reconcile
  BY <1>8 DEF Reconcile
<1>9. CASE PromoteFromCache
  BY <1>9 DEF PromoteFromCache
<1>10. CASE ObtainSucceeds
  BY <1>10 DEF ObtainSucceeds, Settings
<1>11. CASE ObtainFails
  BY <1>11 DEF ObtainFails
<1>12. CASE WriteFails
  BY <1>12 DEF WriteFails, Abandon
<1>13. CASE WriteKey
  BY <1>13 DEF WriteKey, Continue
<1>14. CASE WriteCert
  BY <1>14 DEF WriteCert, Continue
<1>15. CASE WriteMarker
  BY <1>15 DEF WriteMarker, AfterMarker, Continue, Abandon
<1>16. CASE CacheKey
  BY <1>16 DEF CacheKey, Continue
<1>17. CASE CacheCert
  BY <1>17 DEF CacheCert, Abandon, Settings, HeldMatches
<1>18. CASE CacheFails
  BY <1>18 DEF CacheFails, Abandon
<1>19. CASE RenderReload
  BY <1>19 DEF RenderReload
<1>20. CASE SwapEngine
  BY <1>20 DEF SwapEngine
<1>21. CASE ReloadFails
  BY <1>21 DEF ReloadFails
<1>22. CASE UNCHANGED vars
  BY <1>22 DEF vars
<1> QED
  BY <1>1, <1>2, <1>3, <1>4, <1>5, <1>6, <1>7, <1>8, <1>9, <1>10, <1>11, <1>12, <1>13,
     <1>14, <1>15, <1>16, <1>17, <1>18, <1>19, <1>20, <1>21, <1>22
     DEF Next, ProcessStep, ManagerStep

\* The CA is asked after promoteFromCache found nothing usable, and a certificate
\* that was due stays due as time passes.
LEMMA ReissueStep ==
    ASSUME TypeOK, ManagerUp, SlotsAgree, LatestKept, NotReissuedEarly, [Next]_vars, ~hurt, ~hurt'
    PROVE  NotReissuedEarly'
<1> SUFFICES ASSUME pc' = "obtain" PROVE NotReissuedEarly'
  BY DEF NotReissuedEarly
<1> USE DEF TypeOK, active, cache, process, manager, ghosts, counters
<1>1. CASE PromoteFromCache
  <2>1. cfg.ca \in CA /\ latest[cfg.ca] \in Cert \cup {NoFile}
    BY DEF Settings
  <2>2. ~Promotable(cfg)
    BY <1>1 DEF PromoteFromCache
  <2>3. CASE latest[cfg.ca] = NoFile
    BY <1>1, <2>3 DEF PromoteFromCache, NotReissuedEarly
  <2>4. CASE latest[cfg.ca] # NoFile
    <3>1. cacheCert[cfg.ca] = latest[cfg.ca] /\ latest[cfg.ca] \in Cert
      BY <1>1, <2>1, <2>4 DEF PromoteFromCache, LatestKept, Writing
    <3>2. cacheKey[cfg.ca] = KeyOf(cacheCert[cfg.ca])
      BY <1>1, <2>1, <2>4, <3>1 DEF PromoteFromCache, SlotsAgree
    <3>3. cacheKey[cfg.ca] \in Key
      BY <3>1, <3>2 DEF KeyOf, Key, Cert
    <3>4. latest[cfg.ca].domain # cfg.domain \/ DueBy(latest[cfg.ca], clock)
      BY <2>2, <3>1, <3>3, NoFileIsNone DEF Promotable
    <3> QED
      BY <1>1, <3>4 DEF PromoteFromCache, NotReissuedEarly, DueBy
  <2> QED
    BY <2>3, <2>4
<1>2. CASE Tick
  <2>1. cfg.ca \in CA /\ latest[cfg.ca] \in Cert \cup {NoFile}
    BY DEF Settings
  <2>2. latest[cfg.ca] # NoFile => latest[cfg.ca].until \in Int
    BY <2>1 DEF Cert
  <2> QED
    BY <1>2, <2>2 DEF Tick, NotReissuedEarly, DueBy
<1>3. CASE UNCHANGED <<pc, cfg, latest, clock, hurt>>
  BY <1>3 DEF NotReissuedEarly, DueBy
<1>4. PromoteFromCache \/ Tick \/ UNCHANGED <<pc, cfg, latest, clock, hurt>>
  BY DEF Next, ProcessStep, ManagerStep, vars, ManagerUp, Boot, BootCert, BootKey, StartEngine,
         Stop, SaveSettings, Reconcile, ObtainSucceeds, ObtainFails, WriteFails, WriteKey,
         WriteCert, WriteMarker, AfterMarker, CacheKey, CacheCert, CacheFails, Continue, Abandon,
         RenderReload, SwapEngine, ReloadFails
<1> QED
  BY <1>1, <1>2, <1>3, <1>4

\* The inductive invariant is kept by every step.
LEMMA AcmeInvStep ==
    ASSUME AcmeInv, [Next]_vars
    PROVE  AcmeInv'
<1>1. TypeOK' /\ ManagerUp' /\ CacheTruth'
  BY StepTyped, UpStep, TruthStep DEF AcmeInv
<1>2. CASE hurt'
  BY <1>1, <1>2 DEF AcmeInv, Agreement, NotReissuedEarly
<1>3. CASE ~hurt'
  <2>1. ~hurt
    BY <1>3, HurtStays
  <2>2. HeldMatches /\ ActiveAgrees /\ MarkerAgrees /\ SlotsAgree /\ LatestKept
    BY <2>1 DEF AcmeInv, Agreement
  <2>3. HeldMatches' /\ ActiveAgrees' /\ MarkerAgrees' /\ SlotsAgree' /\ LatestKept'
    BY <1>3, <2>1, <2>2, HeldStep, ActiveStep, MarkerStep, SlotsStep, LatestStep DEF AcmeInv
  <2>4. NotReissuedEarly'
    BY <1>3, <2>1, <2>2, ReissueStep DEF AcmeInv
  <2> QED
    BY <1>1, <2>3, <2>4 DEF AcmeInv, Agreement
<1> QED
  BY <1>2, <1>3

\* It holds of the empty directory a fresh install starts from.
LEMMA AcmeInvInit == Init => AcmeInv
<1> SUFFICES ASSUME Init PROVE AcmeInv
  OBVIOUS
<1>1. TypeOK
  BY InitTyped
<1>2. ManagerUp /\ CacheTruth /\ NotReissuedEarly
  BY DEF Init, ManagerUp, CacheTruth, NotReissuedEarly, Writing
<1>3. HeldMatches /\ ActiveAgrees /\ MarkerAgrees /\ SlotsAgree /\ LatestKept
  BY DEF Init, HeldMatches, ActiveAgrees, MarkerAgrees, SlotsAgree, LatestKept, Writing
<1> QED
  BY <1>1, <1>2, <1>3 DEF AcmeInv, Agreement

\* Spec keeps the inductive invariant.
THEOREM AcmeInductive == Spec => []AcmeInv
  BY AcmeInvInit, AcmeInvStep, PTL DEF Spec

\* Files, configuration and the pair under installation keep their types:
\* nothing is written from a pair that does not exist.
THEOREM AcmeTyped == Spec => []TypeOK
<1>1. AcmeInv => TypeOK
  BY DEF AcmeInv
<1> QED
  BY <1>1, AcmeInductive, PTL

\* A cache slot only ever holds certificates of its own CA, across any settings
\* changes, faults and process stops (cacheCurrent, promoteFromCache).
THEOREM CacheIsTrue == Spec => []CacheTruth
<1>1. AcmeInv => CacheTruth
  BY DEF AcmeInv
<1> QED
  BY <1>1, AcmeInductive, PTL

\* Unless a write was lost, a CA is not asked again for a domain it issued a
\* still valid certificate for (reconcile, promoteFromCache).
THEOREM NoEarlyReissue == Spec => []NotReissuedEarly
<1>1. AcmeInv => NotReissuedEarly
  BY DEF AcmeInv
<1> QED
  BY <1>1, AcmeInductive, PTL

\* Unless an installation was cut short, certificate, key, marker and cache
\* agree whenever none is under way (writeCertKey, cacheCurrent).
THEOREM FilesStayInAgreement == Spec => []FilesAgree
<1>1. AcmeInv => FilesAgree
  BY DEF AcmeInv, Agreement, FilesAgree, ActiveAgrees, MarkerAgrees, SlotsAgree, Writing
<1> QED
  BY <1>1, AcmeInductive, PTL
=============================================================================

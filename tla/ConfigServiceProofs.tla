------------------------ MODULE ConfigServiceProofs ------------------------
(***************************************************************************)
(* For every set of VLANs, hosts, features and requests, and whatever the  *)
(* bounds: the three configuration files render together at every moment,  *)
(* and what lives beside the engine follows them once a request is         *)
(* answered.  Both rest on ServiceInv, which says how far the request that *)
(* holds Service.mu has come.  Types come next, and then that the engine a *)
(* reload leaves is the one the files describe (AppliedInv: what a reload  *)
(* under way that nobody disturbs has captured, and the engine since).     *)
(***************************************************************************)
EXTENDS ConfigService, TLAPS

Beside == <<disk, table, browse, advert, clients>>

Under == {"zone", "hosts", "setup", "swap"}

\* A client-name table that is off is told apart from every configuration of
\* one (StopClientNames sets the field to nil).
LEMMA NoClientsDiffers ==
    ASSUME NEW h, NEW t PROVE [hosts |-> h, table |-> t] # NoClients
<1> DEFINE r == [hosts |-> h, table |-> t]
<1>1. "hosts" \in DOMAIN r
  OBVIOUS
<1>2. "hosts" \notin DOMAIN NoClients
  BY DEF NoClients
<1> QED
  BY <1>1, <1>2

\* A step of the ACME manager, or of a request that only reads, which leaves
\* the request holding Service.mu and its surroundings alone.
LEMMA Untouched ==
    ASSUME ServiceInv, UNCHANGED Beside, job'["gui"] = job["gui"], Shaped', AcmePlain'
    PROVE  ServiceInv'
BY DEF ServiceInv, Beside, DiskRenderable, RequestCurrent, SidecarsAlong, MdnsFollows,
       Validate, On, Browsing, Announcing, NamesFrom

\* A step of the reload inside a request.
LEMMA Advanced ==
    ASSUME ServiceInv, UNCHANGED Beside, Shaped', AcmePlain', job["gui"].pc \in Under,
           NEW p \in Under,
           job'["gui"] = [pc |-> p, kind |-> job["gui"].kind, config |-> job["gui"].config]
    PROVE  ServiceInv'
BY DEF ServiceInv, Beside, Under, DiskRenderable, RequestCurrent, SidecarsAlong, MdnsFollows,
       Validate, On, Browsing, Announcing, NamesFrom

\* The reload inside a request returns: SaveSettings goes on, others end.
LEMMA ReturnedToRequest ==
    ASSUME ServiceInv, UNCHANGED Beside, fresh' = fresh, job["gui"].pc \in Under,
           Returned("gui")
    PROVE  ServiceInv'
<1>1. CASE job["gui"].kind = "settings"
  <2>1. job' = [job EXCEPT !["gui"] =
                  [pc |-> "post", kind |-> job["gui"].kind, config |-> job["gui"].config]]
    BY <1>1 DEF Returned, Goto, ServiceInv, Shaped, Reloaders
  <2>2. job'["gui"] = [pc |-> "post", kind |-> job["gui"].kind, config |-> job["gui"].config]
    BY <2>1 DEF ServiceInv, Shaped, Reloaders
  <2>3. job'["acme"] = job["acme"] /\ Shaped'
    BY <2>1 DEF ServiceInv, Shaped, Reloaders, Beside
  <2> QED
    BY <1>1, <2>2, <2>3
    DEF ServiceInv, Beside, Under, DiskRenderable, RequestCurrent, AcmePlain, SidecarsAlong,
        MdnsFollows, Validate, On, Browsing, Announcing, NamesFrom
<1>2. CASE job["gui"].kind # "settings"
  <2>1. job' = [job EXCEPT !["gui"] = NoJob]
    BY <1>2 DEF Returned, Finish
  <2>2. job'["gui"] = NoJob /\ job'["acme"] = job["acme"] /\ Shaped'
    BY <2>1 DEF ServiceInv, Shaped, Reloaders, Beside
  <2> QED
    BY <1>2, <2>2
    DEF ServiceInv, Beside, Under, NoJob, DiskRenderable, RequestCurrent, AcmePlain,
        SidecarsAlong, MdnsFollows, Validate, On, Browsing, Announcing, NamesFrom
<1> QED
  BY <1>1, <1>2

\* The reload of the ACME manager moves on or returns.
LEMMA AcmeMoved ==
    ASSUME ServiceInv, UNCHANGED Beside, fresh' \in Nat \ {0}, job["acme"].pc # "idle",
           \/ \E p \in Under \cup {"store"} : Goto("acme", p)
           \/ Finish("acme") \/ Returned("acme")
    PROVE  ServiceInv'
<1>1. job["acme"].kind = "acme"
  BY DEF ServiceInv, AcmePlain
<1>2. Returned("acme") => Finish("acme")
  BY <1>1 DEF Returned
<1>3. CASE Finish("acme")
  <2>1. job'["acme"] = NoJob /\ job'["gui"] = job["gui"] /\ Shaped'
    BY <1>3 DEF Finish, ServiceInv, Shaped, Reloaders, Beside
  <2>2. AcmePlain'
    BY <2>1 DEF AcmePlain, NoJob
  <2> QED
    BY <2>1, <2>2, Untouched
<1>4. ASSUME NEW p \in Under \cup {"store"}, Goto("acme", p)
      PROVE  ServiceInv'
  <2>1. job'["acme"] = [pc |-> p, kind |-> job["acme"].kind, config |-> job["acme"].config]
    BY <1>4 DEF Goto, ServiceInv, Shaped, Reloaders
  <2>2. job'["gui"] = job["gui"] /\ Shaped'
    BY <1>4 DEF Goto, ServiceInv, Shaped, Reloaders, Beside
  <2>3. AcmePlain'
    BY <1>1, <2>1 DEF AcmePlain, Under
  <2> QED
    BY <2>2, <2>3, Untouched
<1> QED
  BY <1>2, <1>3, <1>4

---------------------------------------------------------------------------
(* One lemma per action or group of actions *)

\* run(): what starts beside the engine is made from the files just read.
LEMMA InitServiceInv == Init => ServiceInv
<1> SUFFICES ASSUME Init PROVE ServiceInv
  OBVIOUS
<1>1. disk \in Configs /\ disk.records \subseteq disk.settings.vlans
  BY DEF Init, Starts
<1>2. job["gui"] = NoJob /\ job["acme"] = NoJob /\ Shaped
  BY <1>1 DEF Init, Reloaders, Shaped, Configs
<1>3. MdnsFollows /\ clients = NamesFrom(disk, table)
  BY DEF Init, MdnsFollows, BootTable, Browsing, None
<1> QED
  BY <1>1, <1>2, <1>3
  DEF ServiceInv, NoJob, DiskRenderable, RequestCurrent, AcmePlain, SidecarsAlong

\* run() again, from the files the stopped process left.
LEMMA RebootServiceInv == ASSUME ServiceInv, Reboot PROVE ServiceInv'
<1>1. disk' = disk /\ DiskRenderable'
  BY DEF Reboot, ServiceInv, DiskRenderable
<1>2. job'["gui"] = NoJob /\ job'["acme"] = NoJob /\ Shaped'
  BY <1>1 DEF Reboot, Reloaders, Shaped, ServiceInv
<1>3. MdnsFollows' /\ (clients = NamesFrom(disk, table))'
  BY <1>1 DEF Reboot, MdnsFollows, BootTable, Browsing, None, On, Announcing, NamesFrom
<1> QED
  BY <1>1, <1>2, <1>3
  DEF ServiceInv, NoJob, RequestCurrent, AcmePlain, SidecarsAlong

\* Service.render of a configuration that differs from the files in the part
\* the request is about.
LEMMA RenderServiceInv ==
    ASSUME ServiceInv, Unlocked, NEW a, NEW kind, NEW c, Render(a, kind, c),
           \/ kind = "settings" /\ c = [disk EXCEPT !.settings = c.settings]
           \/ kind = "records"  /\ c = [disk EXCEPT !.records = c.records]
           \/ kind = "hosts"    /\ c = [disk EXCEPT !.hosts = c.hosts]
           \/ kind = "restart"  /\ c = disk
    PROVE  ServiceInv'
<1>1. UNCHANGED Beside /\ fresh' = fresh
  BY DEF Render, Beside, sidecars, swapping
<1>2. CASE job' = job
  <2>1. Shaped' /\ AcmePlain'
    BY <1>1, <1>2 DEF ServiceInv, Shaped, AcmePlain, Beside
  <2> QED
    BY <1>1, <1>2, <2>1, Untouched
<1>3. CASE /\ Validate(c)
           /\ job' = [job EXCEPT !["gui"] =
                        [pc |-> IF kind = "restart" THEN "zone" ELSE "save",
                         kind |-> kind, config |-> c]]
  <2>1. job'["gui"] = [pc |-> IF kind = "restart" THEN "zone" ELSE "save",
                       kind |-> kind, config |-> c]
    BY <1>3 DEF ServiceInv, Shaped, Reloaders
  <2>2. job'["acme"] = job["acme"] /\ Shaped'
    BY <1>1, <1>3 DEF ServiceInv, Shaped, Reloaders, Beside
  <2>3. AcmePlain' /\ DiskRenderable'
    BY <1>1, <2>2 DEF ServiceInv, AcmePlain, Beside, DiskRenderable
  <2>4. RequestCurrent'
    BY <1>1, <1>3, <2>1 DEF RequestCurrent, Validate, Beside
  <2>5. MdnsFollows' /\ (clients = NamesFrom(disk, table))'
    BY <1>1 DEF ServiceInv, Unlocked, SidecarsAlong, MdnsFollows, Beside, On, Browsing,
                Announcing, NamesFrom
  <2>6. SidecarsAlong'
    BY <2>1, <2>5 DEF SidecarsAlong, MdnsFollows
  <2> QED
    BY <2>2, <2>3, <2>4, <2>6 DEF ServiceInv
<1> QED
  BY <1>2, <1>3 DEF Render

\* A form is opened, or a request is rendered and takes Service.mu.
LEMMA AskServiceInv ==
    ASSUME ServiceInv, NEW a \in Admins, Ask(a) \/ SubmitForm(a) PROVE ServiceInv'
<1>1. disk = [settings |-> disk.settings, records |-> disk.records, hosts |-> disk.hosts]
  BY DEF ServiceInv, Shaped
<1>2. ASSUME NEW e \in Edits, OpenForm(a, e) PROVE ServiceInv'
  <2>1. UNCHANGED Beside /\ job' = job /\ fresh' = fresh
    BY <1>2 DEF OpenForm, Beside, sidecars, swapping
  <2>2. Shaped' /\ AcmePlain'
    BY <2>1 DEF ServiceInv, Shaped, AcmePlain, Beside
  <2> QED
    BY <2>1, <2>2, Untouched
<1>3. ASSUME NEW r \in Records, EditRecords(a, r) PROVE ServiceInv'
  <2> DEFINE c == [disk EXCEPT !.records = r]
  <2>1. Unlocked /\ Render(a, "records", c)
    BY <1>3 DEF EditRecords
  <2>2. c = [disk EXCEPT !.records = c.records]
    BY <1>1
  <2> HIDE DEF c
  <2> QED
    BY <2>1, <2>2, RenderServiceInv
<1>4. ASSUME NEW h \in Hosts, EditHosts(a, h) PROVE ServiceInv'
  <2> DEFINE c == [disk EXCEPT !.hosts = h]
  <2>1. Unlocked /\ Render(a, "hosts", c)
    BY <1>4 DEF EditHosts
  <2>2. c = [disk EXCEPT !.hosts = c.hosts]
    BY <1>1
  <2> HIDE DEF c
  <2> QED
    BY <2>1, <2>2, RenderServiceInv
<1>5. ASSUME RestartEngine(a) PROVE ServiceInv'
  BY <1>5, RenderServiceInv DEF RestartEngine
<1>6. ASSUME SubmitForm(a) PROVE ServiceInv'
  <2> DEFINE c == [disk EXCEPT !.settings = Apply(admin[a].edit, admin[a].settings)]
  <2>1. Unlocked /\ Render(a, "settings", c)
    BY <1>6 DEF SubmitForm
  <2>2. c = [disk EXCEPT !.settings = c.settings]
    BY <1>1
  <2> HIDE DEF c
  <2> QED
    BY <2>1, <2>2, RenderServiceInv
<1> QED
  BY <1>2, <1>3, <1>4, <1>5, <1>6 DEF Ask

\* The save is the only step that writes a configuration file, and it writes
\* the request's own: the result is the configuration that was validated.
LEMMA SaveServiceInv == ASSUME ServiceInv, Save PROVE ServiceInv'
<1> DEFINE g == job["gui"]
<1>1. /\ g.pc = "save" /\ Validate(g.config)
      /\ \/ g.kind = "settings" /\ g.config = [disk EXCEPT !.settings = g.config.settings]
         \/ g.kind = "records"  /\ g.config = [disk EXCEPT !.records = g.config.records]
         \/ g.kind = "hosts"    /\ g.config = [disk EXCEPT !.hosts = g.config.hosts]
  BY DEF Save, ServiceInv, RequestCurrent
<1>2. fresh' = fresh /\ UNCHANGED <<table, browse, advert>>
  BY DEF Save, swapping
<1>3. CASE Finish("gui") /\ UNCHANGED <<disk, clients>>
  <2>1. job'["gui"] = NoJob /\ job'["acme"] = job["acme"] /\ Shaped'
    BY <1>2, <1>3 DEF Finish, ServiceInv, Shaped, Reloaders
  <2> QED
    BY <1>1, <1>2, <1>3, <2>1
    DEF ServiceInv, NoJob, DiskRenderable, RequestCurrent, AcmePlain, SidecarsAlong,
        MdnsFollows, On, Browsing, Announcing, NamesFrom
<1>4. CASE /\ disk' = CASE g.kind = "settings" -> [disk EXCEPT !.settings = g.config.settings]
                        [] g.kind = "records"  -> [disk EXCEPT !.records = g.config.records]
                        [] g.kind = "hosts"    -> [disk EXCEPT !.hosts = g.config.hosts]
           /\ Goto("gui", IF g.kind = "settings" THEN "pre" ELSE "zone")
           /\ clients' = IF g.kind = "hosts" /\ clients # NoClients
                         THEN NamesFrom(g.config, table) ELSE clients
  <2>1. disk' = g.config
    BY <1>1, <1>4
  <2>2. job'["gui"] = [pc |-> IF g.kind = "settings" THEN "pre" ELSE "zone",
                       kind |-> g.kind, config |-> g.config]
    BY <1>4 DEF Goto, ServiceInv, Shaped, Reloaders
  <2>3. job'["acme"] = job["acme"] /\ job' = [w \in Reloaders |-> job'[w]]
    BY <1>4 DEF Goto, ServiceInv, Shaped, Reloaders
  <2>4. disk = [settings |-> disk.settings, records |-> disk.records, hosts |-> disk.hosts]
    BY DEF ServiceInv, Shaped
  <2>5. disk' = [settings |-> disk'.settings, records |-> disk'.records, hosts |-> disk'.hosts]
    BY <1>1, <2>1, <2>4
  <2>6. Shaped' /\ AcmePlain'
    BY <1>2, <2>3, <2>5 DEF ServiceInv, Shaped, AcmePlain
  <2>7. DiskRenderable' /\ RequestCurrent'
    BY <1>1, <2>1, <2>2 DEF DiskRenderable, RequestCurrent, Validate
  <2>8. MdnsFollows /\ clients = NamesFrom(disk, table)
    BY <1>1 DEF ServiceInv, SidecarsAlong
  <2>9. CASE g.kind = "settings"
    BY <2>2, <2>6, <2>7, <2>9 DEF ServiceInv, SidecarsAlong
  <2>10. CASE g.kind # "settings"
    <3>1. disk'.settings = disk.settings
      BY <1>1, <2>1, <2>4, <2>10
    <3>2. MdnsFollows'
      BY <1>2, <2>8, <3>1 DEF MdnsFollows, On, Browsing, Announcing
    <3>3. (clients = NamesFrom(disk, table))'
      <4>1. CASE g.kind = "hosts" /\ clients # NoClients
        BY <1>2, <1>4, <2>1, <4>1 DEF NamesFrom, On
      <4>2. CASE g.kind = "hosts" /\ clients = NoClients
        <5>1. ~On(disk, "clientnames")
          BY <2>8, <4>2, NoClientsDiffers DEF NamesFrom
        <5> QED
          BY <1>4, <3>1, <4>2, <5>1 DEF NamesFrom, On
      <4>3. CASE g.kind = "records"
        <5>1. disk'.hosts = disk.hosts
          BY <1>1, <2>1, <2>4, <4>3
        <5> QED
          BY <1>2, <1>4, <2>8, <3>1, <4>3, <5>1 DEF NamesFrom, On
      <4> QED
        BY <1>1, <2>10, <4>1, <4>2, <4>3
    <3>4. SidecarsAlong'
      BY <2>2, <2>10, <3>2, <3>3 DEF SidecarsAlong, MdnsFollows
    <3> QED
      BY <2>6, <2>7, <3>4 DEF ServiceInv
  <2> QED
    BY <2>9, <2>10
<1> QED
  BY <1>3, <1>4 DEF Save

\* mdnsPreReload leaves everything alone but a table that is not there yet.
LEMMA PreReloadServiceInv == ASSUME ServiceInv, PreReload PROVE ServiceInv'
<1> DEFINE g == job["gui"]
<1>1. g.pc = "pre" /\ g.kind = "settings" /\ g.config = disk
  BY DEF PreReload, ServiceInv, RequestCurrent
<1>2. job'["gui"] = [pc |-> "zone", kind |-> g.kind, config |-> g.config]
  BY DEF PreReload, Goto, ServiceInv, Shaped, Reloaders
<1>3. job'["acme"] = job["acme"] /\ job' = [w \in Reloaders |-> job'[w]]
  BY DEF PreReload, Goto, ServiceInv, Shaped, Reloaders
<1>4. disk' = disk /\ fresh' \in Nat \ {0}
  BY DEF PreReload, ServiceInv, Shaped
<1>5. On(disk, "mdns") => table' # None
  BY <1>1 DEF PreReload, ServiceInv, Shaped, None
<1>6. Shaped' /\ AcmePlain' /\ DiskRenderable'
  BY <1>3, <1>4 DEF ServiceInv, Shaped, AcmePlain, DiskRenderable
<1>7. RequestCurrent'
  BY <1>1, <1>2, <1>4 DEF RequestCurrent
<1>8. SidecarsAlong'
  BY <1>1, <1>2, <1>4, <1>5 DEF SidecarsAlong, On
<1> QED
  BY <1>6, <1>7, <1>8 DEF ServiceInv

\* mdnsPostReload and reconcileAdvertise bring mDNS in line with the settings.
LEMMA PostReloadServiceInv == ASSUME ServiceInv, PostReload PROVE ServiceInv'
<1> DEFINE g == job["gui"]
<1>1. g.pc = "post" /\ g.kind = "settings" /\ g.config = disk
  BY DEF PostReload, ServiceInv, RequestCurrent
<1>2. job'["gui"] = [pc |-> "tail", kind |-> g.kind, config |-> g.config]
  BY DEF PostReload, Goto, ServiceInv, Shaped, Reloaders
<1>3. job'["acme"] = job["acme"] /\ job' = [w \in Reloaders |-> job'[w]]
  BY DEF PostReload, Goto, ServiceInv, Shaped, Reloaders
<1>4. disk' = disk /\ fresh' = fresh
  BY DEF PostReload, swapping
<1>5. Shaped' /\ AcmePlain' /\ DiskRenderable'
  BY <1>3, <1>4 DEF ServiceInv, Shaped, AcmePlain, DiskRenderable
<1>6. RequestCurrent'
  BY <1>1, <1>2, <1>4 DEF RequestCurrent
<1>7. On(disk, "mdns") => table # None
  BY <1>1 DEF ServiceInv, SidecarsAlong
<1>8. table' = (IF On(disk, "mdns") THEN table ELSE None) /\ browse' = Browsing(disk, table)
  BY <1>1 DEF PostReload
<1>9. advert' \in {NoAdvert, Announcing(disk)}
  BY <1>1 DEF PostReload
<1>10. MdnsFollows'
  BY <1>4, <1>7, <1>8, <1>9 DEF MdnsFollows, On, Browsing, Announcing
<1>11. SidecarsAlong'
  BY <1>2, <1>10 DEF SidecarsAlong
<1> QED
  BY <1>5, <1>6, <1>11 DEF ServiceInv

\* reconcileClientNames is the last of the reconcilers.
LEMMA ReconcileServiceInv == ASSUME ServiceInv, Reconcile PROVE ServiceInv'
<1> DEFINE g == job["gui"]
<1>1. g.pc = "tail" /\ g.config = disk /\ MdnsFollows
  BY DEF Reconcile, ServiceInv, RequestCurrent, SidecarsAlong
<1>2. job'["gui"] = NoJob /\ job'["acme"] = job["acme"] /\ job' = [w \in Reloaders |-> job'[w]]
  BY DEF Reconcile, Finish, ServiceInv, Shaped, Reloaders
<1>3. disk' = disk /\ UNCHANGED <<table, browse, advert>>
  BY DEF Reconcile
<1>4. fresh' \in Nat \ {0}
  BY DEF Reconcile, ReconcileStore, ServiceInv, Shaped
<1>5. Shaped' /\ AcmePlain' /\ DiskRenderable'
  BY <1>2, <1>3, <1>4 DEF ServiceInv, Shaped, AcmePlain, DiskRenderable
<1>6. RequestCurrent'
  BY <1>2 DEF RequestCurrent, NoJob
<1>7. MdnsFollows' /\ (clients = NamesFrom(disk, table))'
  BY <1>1, <1>3 DEF Reconcile, MdnsFollows, On, Browsing, Announcing, NamesFrom
<1>8. SidecarsAlong'
  BY <1>2, <1>7 DEF SidecarsAlong, NoJob
<1> QED
  BY <1>5, <1>6, <1>8 DEF ServiceInv

\* reloadFn up to its rendered configuration reads the files, and of what the
\* requests look at writes nothing.
LEMMA AcmeRenderServiceInv ==
    ASSUME ServiceInv, AcmeLoad \/ AcmeLoadRest \/ AcmeStore PROVE ServiceInv'
<1>1. UNCHANGED Beside
  BY DEF AcmeLoad, AcmeLoadRest, AcmeStore, Beside, sidecars
<1>2. ASSUME AcmeLoad \/ AcmeLoadRest PROVE ServiceInv'
  <2>1. fresh' = fresh
    BY <1>2 DEF AcmeLoad, AcmeLoadRest, swapping
  <2>2. PICK p, c : /\ p \in {"load", "store"}
                    /\ job' = [job EXCEPT !["acme"] = [pc |-> p, kind |-> "acme", config |-> c]]
    BY <1>2 DEF AcmeLoad, AcmeLoadRest
  <2>3. job'["acme"] = [pc |-> p, kind |-> "acme", config |-> c]
    BY <2>2 DEF ServiceInv, Shaped, Reloaders
  <2>4. job'["gui"] = job["gui"] /\ Shaped'
    BY <1>1, <2>1, <2>2 DEF ServiceInv, Shaped, Reloaders, Beside
  <2>5. AcmePlain'
    BY <2>2, <2>3 DEF AcmePlain
  <2> QED
    BY <1>1, <2>4, <2>5, Untouched
<1>3. ASSUME AcmeStore PROVE ServiceInv'
  <2>1. fresh' \in Nat \ {0}
    BY <1>3 DEF AcmeStore, ReconcileStore, ServiceInv, Shaped
  <2>2. job["acme"].pc # "idle" /\ (Goto("acme", "zone") \/ Finish("acme"))
    BY <1>3 DEF AcmeStore
  <2> QED
    BY <1>1, <2>1, <2>2, AcmeMoved DEF Under
<1> QED
  BY <1>2, <1>3

\* The reload itself writes no configuration file and nothing beside the
\* engine, whoever runs it and wherever it fails.
LEMMA ReloadServiceInv ==
    ASSUME ServiceInv, NEW w \in Reloaders, Reload(w) PROVE ServiceInv'
<1>1. UNCHANGED Beside
  BY DEF Reload, WriteZoneData, WriteHostsData, Setup, Swap, SwapFails, Beside, sidecars
<1>2. fresh' \in Nat \ {0}
  BY DEF Reload, WriteZoneData, WriteHostsData, Setup, Swap, SwapFails, swapping,
         ServiceInv, Shaped
<1>3. job[w].pc \in Under
  BY DEF Reload, WriteZoneData, WriteHostsData, Setup, Swap, SwapFails, Under
<1>4. (\E p \in Under : Goto(w, p)) \/ (Returned(w) /\ fresh' = fresh)
  BY DEF Reload, WriteZoneData, WriteHostsData, Setup, Swap, SwapFails, swapping, Under
<1>5. CASE w = "acme"
  BY <1>1, <1>2, <1>3, <1>4, <1>5, AcmeMoved DEF Under
<1>6. CASE w = "gui"
  <2>1. CASE Returned("gui") /\ fresh' = fresh
    BY <1>1, <1>3, <1>6, <2>1, ReturnedToRequest
  <2>2. ASSUME NEW p \in Under, Goto("gui", p) PROVE ServiceInv'
    <3>1. job'["gui"] = [pc |-> p, kind |-> job["gui"].kind, config |-> job["gui"].config]
      BY <2>2 DEF Goto, ServiceInv, Shaped, Reloaders
    <3>2. job'["acme"] = job["acme"] /\ Shaped'
      BY <1>1, <1>2, <2>2 DEF Goto, ServiceInv, Shaped, Reloaders, Beside
    <3>3. AcmePlain'
      BY <3>2 DEF ServiceInv, AcmePlain
    <3> QED
      BY <1>1, <1>3, <1>6, <3>1, <3>2, <3>3, Advanced
  <2> QED
    BY <1>4, <1>6, <2>1, <2>2
<1> QED
  BY <1>5, <1>6 DEF Reloaders

---------------------------------------------------------------------------
(* The theorems *)

\* ServiceInv holds in every reachable state: it holds when run() has started
\* the process, and every step of a request, of reloadFn and of a restart
\* keeps it.
THEOREM ServiceInductive == Spec => []ServiceInv
<1>1. Init => ServiceInv
  BY InitServiceInv
<1>2. ServiceInv /\ [Next]_vars => ServiceInv'
  <2> SUFFICES ASSUME ServiceInv, [Next]_vars PROVE ServiceInv'
    OBVIOUS
  <2>1. CASE UNCHANGED vars
    <3>1. UNCHANGED Beside /\ job' = job /\ fresh' = fresh
      BY <2>1 DEF vars, Beside
    <3>2. Shaped' /\ AcmePlain'
      BY <3>1 DEF ServiceInv, Shaped, AcmePlain, Beside
    <3> QED
      BY <3>1, <3>2, Untouched
  <2>2. ASSUME NEW a \in Admins, Ask(a) \/ SubmitForm(a) PROVE ServiceInv'
    BY <2>2, AskServiceInv
  <2>3. CASE GuiStep
    BY <2>3, SaveServiceInv, PreReloadServiceInv, PostReloadServiceInv,
       ReconcileServiceInv, ReloadServiceInv DEF GuiStep, Reloaders
  <2>4. CASE AcmeLoad \/ AcmeStep
    BY <2>4, AcmeRenderServiceInv, ReloadServiceInv DEF AcmeStep, Reloaders
  <2>5. CASE Reboot
    BY <2>5, RebootServiceInv
  <2> QED
    BY <2>1, <2>2, <2>3, <2>4, <2>5 DEF Next
<1> QED
  BY <1>1, <1>2, PTL DEF Spec

\* The three configuration files render together in every reachable state,
\* although each request of the GUI writes one of them and the check of
\* configgen.Validate spans them: a process stopped anywhere can start again.
THEOREM FilesAlwaysRender == Spec => []DiskRenderable
<1>1. ServiceInv => DiskRenderable
  BY DEF ServiceInv
<1> QED
  BY <1>1, ServiceInductive, PTL

\* Whenever no request holds Service.mu, the mDNS table, its browse goroutine,
\* the self-advertiser and the client names follow the saved files, however
\* the last request ended and whatever the ACME manager's reloads did.
THEOREM SidecarsFollow == Spec => []SidecarsFollowDisk
<1>1. ServiceInv => SidecarsFollowDisk
  BY DEF ServiceInv, SidecarsAlong, SidecarsFollowDisk, Unlocked
<1> QED
  BY <1>1, ServiceInductive, PTL

---------------------------------------------------------------------------
(* Types *)

\* The identities in use are the numbers below the next one.
LEMMA IdsBelow ==
    ASSUME NEW n \in Nat \ {0} PROVE \A i : i \in 0 .. (n - 1) <=> i \in Nat /\ i < n
OBVIOUS

\* Handing out an identity keeps the ones in use.
LEMMA IdsGrow ==
    ASSUME fresh \in Nat \ {0}, fresh' \in Nat \ {0}, fresh <= fresh'
    PROVE  Ids \subseteq Ids' /\ None \in Ids /\ (fresh' = fresh + 1 => fresh \in Ids')
<1>1. /\ \A i : i \in Ids <=> i \in Nat /\ i < fresh
      /\ \A i : i \in Ids' <=> i \in Nat /\ i < fresh'
  BY IdsBelow DEF Ids
<1> QED
  BY <1>1 DEF None

\* What lives beside the engine keeps its type when it is left alone.
LEMMA BesideAlone ==
    ASSUME BesideTyped, Ids \subseteq Ids', UNCHANGED <<table, store, browse, advert, clients>>
    PROVE  BesideTyped'
BY DEF BesideTyped

\* And so does the engine.
LEMMA EngineAlone ==
    ASSUME EngineTyped, Ids \subseteq Ids', UNCHANGED <<engine, next, live>>
    PROVE  EngineTyped'
BY DEF EngineTyped, Instances

\* A reload under way has a configuration.
LEMMA JobHas ==
    ASSUME JobTyped, NEW w \in Reloaders, job[w].pc # "idle"
    PROVE  job[w] \in Jobs /\ job[w].config \in Configs
BY DEF JobTyped, NoJob, Jobs

\* A reload moves on, and the other one stays where it is.
LEMMA GotoTyped ==
    ASSUME JobTyped, NEW w \in Reloaders, job[w].pc # "idle",
           NEW p \in {"save", "pre", "load", "store", "zone", "hosts", "setup", "swap",
                      "post", "tail"},
           Goto(w, p)
    PROVE  /\ JobTyped' /\ job'[w].pc = p
           /\ \A o \in Reloaders : o # w => job'[o] = job[o]
<1>1. job[w] \in Jobs
  BY JobHas
<1>2. [pc |-> p, kind |-> job[w].kind, config |-> job[w].config] \in Jobs
  BY <1>1 DEF Jobs
<1>3. job' = [job EXCEPT ![w] = [pc |-> p, kind |-> job[w].kind, config |-> job[w].config]]
  BY DEF Goto, JobTyped
<1> QED
  BY <1>2, <1>3 DEF JobTyped

\* A reload ends.
LEMMA FinishTyped ==
    ASSUME JobTyped, NEW w \in Reloaders, Finish(w)
    PROVE  /\ JobTyped' /\ job'[w].pc = "idle"
           /\ \A o \in Reloaders : o # w => job'[o] = job[o]
BY DEF Finish, JobTyped, NoJob

\* A request is answered.
LEMMA AnswerTyped == ASSUME AdminTyped, Answer PROVE AdminTyped'
BY DEF Answer, AdminTyped, NoForm

\* A reload returns to whoever asked for it.
LEMMA ReturnedTyped ==
    ASSUME JobTyped, AdminTyped, NEW w \in Reloaders, job[w].pc # "idle", Returned(w)
    PROVE  /\ JobTyped' /\ AdminTyped' /\ job'[w].pc \in {"post", "idle"}
           /\ \A o \in Reloaders : o # w => job'[o] = job[o]
<1>1. CASE Goto(w, "post") /\ UNCHANGED admin
  BY <1>1, GotoTyped DEF AdminTyped
<1>2. CASE Finish(w) /\ (Answer \/ UNCHANGED admin)
  <2>1. AdminTyped'
    BY <1>2, AnswerTyped DEF AdminTyped
  <2> QED
    BY <1>2, <2>1, FinishTyped
<1> QED
  BY <1>1, <1>2 DEF Returned

\* The bounds are kept.
LEMMA UsedKept ==
    ASSUME UsedTyped,
           \/ Fault \/ Request \/ UNCHANGED used
           \/ /\ used.reloads < MaxReloads
              /\ used' = [used EXCEPT !.reloads = @ + 1]
           \/ /\ used.restarts < MaxRestarts
              /\ used' = [used EXCEPT !.restarts = @ + 1]
    PROVE  UsedTyped'
BY ServiceAssumption DEF Fault, Request, UsedTyped

\* A first start has its types.
LEMMA InitTyped == Init => TypeOK
<1> SUFFICES ASSUME Init PROVE TypeOK
  OBVIOUS
<1>1. disk \in Configs /\ fresh = 4
  BY DEF Init, Starts
<1>2. FilesTyped
  BY <1>1 DEF Init, FilesTyped, Configs, Settings, Records
<1>3. 0 \in Ids /\ 1 \in Ids /\ 2 \in Ids /\ 3 \in Ids
  BY <1>1 DEF Ids
<1>4. BootTable(disk) \in Ids /\ BootStore(disk) \in Ids
  BY <1>3 DEF BootTable, BootStore, None
<1>5. BesideTyped
  BY <1>1, <1>3, <1>4 DEF Init, BesideTyped, Browsing, NoBrowse, Announcing, NamesFrom, None,
                     On, Configs
<1>6. BootEngine(disk) \in Instances
  BY <1>1, <1>3, <1>4 DEF BootEngine, Instance, Instances, Configs, Settings, Records, None
<1>7. EngineTyped
  BY <1>3, <1>6 DEF Init, EngineTyped
<1>8. AdminTyped /\ JobTyped /\ HistoryTyped
  BY DEF Init, AdminTyped, JobTyped, HistoryTyped
<1>9. UsedTyped
  BY ServiceAssumption DEF Init, UsedTyped
<1> QED
  BY <1>1, <1>2, <1>5, <1>7, <1>8, <1>9 DEF TypeOK

\* A restart has its types.
LEMMA RebootTyped == ASSUME TypeOK, Reboot PROVE TypeOK'
<1>1. disk \in Configs /\ disk' = disk /\ fresh' = 4
  BY DEF TypeOK, FilesTyped, Reboot
<1>2. FilesTyped'
  BY <1>1 DEF Reboot, FilesTyped, Configs, Settings, Records
<1>3. 0 \in Ids' /\ 1 \in Ids' /\ 2 \in Ids' /\ 3 \in Ids'
  BY <1>1 DEF Ids
<1>4. BootTable(disk) \in Ids' /\ BootStore(disk) \in Ids'
  BY <1>3 DEF BootTable, BootStore, None
<1>5. BesideTyped'
  BY <1>1, <1>3, <1>4 DEF Reboot, BesideTyped, Browsing, NoBrowse, Announcing, NamesFrom, None,
                     On, Configs
<1>6. BootEngine(disk) \in Instances'
  BY <1>1, <1>3, <1>4 DEF BootEngine, Instance, Instances, Configs, Settings, Records, None
<1>7. EngineTyped'
  BY <1>3, <1>6 DEF Reboot, EngineTyped
<1>8. AdminTyped' /\ JobTyped' /\ HistoryTyped'
  BY DEF Reboot, AdminTyped, JobTyped, HistoryTyped
<1>9. UsedTyped'
  BY UsedKept DEF Reboot, TypeOK
<1> QED
  BY <1>1, <1>2, <1>5, <1>7, <1>8, <1>9 DEF TypeOK

\* Rendering a configuration replaces the VLAN table and starts or ends a request.
LEMMA RenderTyped ==
    ASSUME TypeOK, NEW a \in Admins, NEW kind \in {"settings", "records", "hosts", "restart"},
           NEW c \in Configs, Render(a, kind, c), Request \/ UNCHANGED used
    PROVE  TypeOK'
<1>1. fresh \in Nat \ {0} /\ fresh' = fresh
  BY DEF TypeOK, Render, swapping
<1>2. Ids \subseteq Ids'
  BY <1>1 DEF Ids
<1>3. FilesTyped'
  BY DEF TypeOK, Render, FilesTyped, files, Configs, Settings
<1>4. BesideTyped' /\ EngineTyped'
  BY <1>2, BesideAlone, EngineAlone DEF TypeOK, Render, sidecars, swapping
<1>5. AdminTyped'
  BY DEF TypeOK, Render, AdminTyped
<1>6. [pc |-> IF kind = "restart" THEN "zone" ELSE "save", kind |-> kind, config |-> c] \in Jobs
  BY DEF Jobs
<1>7. JobTyped'
  BY <1>6 DEF TypeOK, Render, JobTyped
<1>8. HistoryTyped'
  BY DEF TypeOK, Render, HistoryTyped, Reloaders
<1>9. UsedTyped'
  BY UsedKept DEF TypeOK
<1> QED
  BY <1>1, <1>3, <1>4, <1>5, <1>7, <1>8, <1>9 DEF TypeOK

\* An edit of settings gives settings.
LEMMA ApplyTyped ==
    ASSUME NEW e \in Edits, NEW s \in Settings PROVE Apply(e, s) \in Settings
<1>1. CASE e \in [drop : UpToOne, add : UpToOne]
  <2>1. "on" \notin DOMAIN e /\ e.drop \subseteq Vlans /\ e.add \subseteq Vlans
    BY <1>1 DEF UpToOne
  <2> QED
    BY <2>1 DEF Apply, Settings
<1>2. CASE e \in [on : Pages]
  <2>1. "on" \in DOMAIN e /\ e.on \in SUBSET Features
    BY <1>2, ServiceAssumption
  <2> QED
    BY <2>1 DEF Apply, Settings
<1> QED
  BY <1>1, <1>2 DEF Edits

\* The requests keep the types.
LEMMA AskTyped ==
    ASSUME TypeOK, NEW a \in Admins, Ask(a) \/ SubmitForm(a) PROVE TypeOK'
<1>1. disk \in Configs
  BY DEF TypeOK, FilesTyped
<1>2. ASSUME NEW e \in Edits, OpenForm(a, e) PROVE TypeOK'
  <2>1. disk.settings \in Settings
    BY <1>1 DEF Configs
  <2>2. AdminTyped'
    BY <1>2, <2>1 DEF OpenForm, TypeOK, AdminTyped, Forms
  <2>3. UsedTyped'
    BY <1>2, UsedKept DEF OpenForm, TypeOK
  <2>4. FilesTyped' /\ BesideTyped' /\ EngineTyped' /\ fresh' = fresh /\ JobTyped' /\ HistoryTyped'
    BY <1>2 DEF OpenForm, TypeOK, FilesTyped, BesideTyped, EngineTyped, JobTyped, HistoryTyped,
                files, globals, sidecars, swapping, history, Ids, Instances
  <2> QED
    BY <2>2, <2>3, <2>4 DEF TypeOK
<1>3. ASSUME NEW r \in Records, EditRecords(a, r) PROVE TypeOK'
  <2>1. [disk EXCEPT !.records = r] \in Configs
    BY <1>1 DEF Configs
  <2> QED
    BY <1>3, <2>1, RenderTyped DEF EditRecords
<1>4. ASSUME NEW h \in Hosts, EditHosts(a, h) PROVE TypeOK'
  <2>1. [disk EXCEPT !.hosts = h] \in Configs
    BY <1>1 DEF Configs
  <2> QED
    BY <1>4, <2>1, RenderTyped DEF EditHosts
<1>5. ASSUME RestartEngine(a) PROVE TypeOK'
  BY <1>1, <1>5, RenderTyped DEF RestartEngine
<1>6. ASSUME SubmitForm(a) PROVE TypeOK'
  <2>1. admin[a] \in Forms
    BY <1>6 DEF SubmitForm, TypeOK, AdminTyped, NoForm
  <2>2. Apply(admin[a].edit, admin[a].settings) \in Settings
    BY <2>1, ApplyTyped DEF Forms
  <2>3. [disk EXCEPT !.settings = Apply(admin[a].edit, admin[a].settings)] \in Configs
    BY <1>1, <2>2 DEF Configs
  <2> QED
    BY <1>6, <2>3, RenderTyped DEF SubmitForm
<1> QED
  BY <1>2, <1>3, <1>4, <1>5, <1>6 DEF Ask

\* Reconciling the store keeps it and the next identity typed.
LEMMA StoreTyped ==
    ASSUME fresh \in Nat \ {0}, store \in Ids, NEW c, ReconcileStore(c)
    PROVE  fresh' \in Nat \ {0} /\ fresh <= fresh' /\ store' \in Ids'
<1>1. store' \in {None, store, fresh}
  BY DEF ReconcileStore
<1>2. fresh' \in {fresh, fresh + 1} /\ (store' = fresh => fresh' = fresh + 1)
  BY DEF ReconcileStore
<1>3. fresh' \in Nat \ {0} /\ fresh <= fresh'
  BY <1>2
<1> QED
  BY <1>1, <1>2, <1>3, IdsGrow

\* The steps of a request keep the types: its save,
LEMMA SaveTyped == ASSUME TypeOK, ServiceInv, Save PROVE TypeOK'
<1> DEFINE g == job["gui"]
<1>1. g.pc = "save" /\ g \in Jobs /\ g.config \in Configs /\ "gui" \in Reloaders
  BY JobHas DEF Save, TypeOK, Reloaders
<1>0. g.kind \in {"settings", "records", "hosts"}
  BY <1>1 DEF ServiceInv, RequestCurrent
<1>2. fresh' = fresh /\ Ids' = Ids /\ fresh \in Nat \ {0}
  BY DEF Save, swapping, Ids, TypeOK
<1>3. EngineTyped' /\ HistoryTyped' /\ UsedTyped'
  <2>1. EngineTyped'
    BY <1>2, EngineAlone DEF Save, swapping, TypeOK
  <2>2. HistoryTyped'
    BY DEF Save, TypeOK, HistoryTyped
  <2> QED
    BY <2>1, <2>2, UsedKept DEF Save, TypeOK
<1>4. CASE Finish("gui") /\ Answer /\ UNCHANGED <<disk, clients>>
  <2>1. JobTyped' /\ AdminTyped'
    BY <1>1, <1>4, FinishTyped, AnswerTyped DEF TypeOK
  <2>2. FilesTyped' /\ BesideTyped'
    BY <1>2, <1>4 DEF Save, TypeOK, FilesTyped, BesideTyped, files, globals
  <2> QED
    BY <1>2, <1>3, <2>1, <2>2 DEF TypeOK
<1>5. CASE /\ disk' = CASE g.kind = "settings" -> [disk EXCEPT !.settings = g.config.settings]
                        [] g.kind = "records"  -> [disk EXCEPT !.records = g.config.records]
                        [] g.kind = "hosts"    -> [disk EXCEPT !.hosts = g.config.hosts]
           /\ g.kind \in {"settings", "records", "hosts"}
           /\ Goto("gui", IF g.kind = "settings" THEN "pre" ELSE "zone")
           /\ clients' = IF g.kind = "hosts" /\ clients # NoClients
                         THEN NamesFrom(g.config, table) ELSE clients
           /\ UNCHANGED admin
  <2>1. disk' \in Configs
    BY <1>1, <1>5 DEF TypeOK, FilesTyped, Configs
  <2>2. FilesTyped'
    BY <2>1 DEF Save, TypeOK, FilesTyped, files, globals
  <2>3. clients' \in {NoClients} \cup [hosts : Hosts, table : Ids]
    BY <1>1, <1>5 DEF TypeOK, BesideTyped, NamesFrom, Configs
  <2>4. BesideTyped'
    BY <1>2, <2>3 DEF Save, TypeOK, BesideTyped
  <2>5. JobTyped' /\ AdminTyped'
    BY <1>1, <1>5, GotoTyped DEF TypeOK, AdminTyped
  <2> QED
    BY <1>2, <1>3, <2>2, <2>4, <2>5 DEF TypeOK
<1> QED
  BY <1>0, <1>4, <1>5 DEF Save

\* and its reconcilers.
LEMMA ReconcilersTyped ==
    ASSUME TypeOK, PreReload \/ PostReload \/ Reconcile PROVE TypeOK'
<1> DEFINE c == job["gui"].config
<1>1. c \in Configs /\ "gui" \in Reloaders /\ job["gui"].pc # "idle"
  BY JobHas DEF PreReload, PostReload, Reconcile, TypeOK, Reloaders
<1>2. FilesTyped' /\ HistoryTyped'
  BY DEF PreReload, PostReload, Reconcile, TypeOK, FilesTyped, HistoryTyped, files, globals,
         history
<1>3. UsedTyped'
  BY UsedKept DEF PreReload, PostReload, Reconcile, OpenStoreFails, TypeOK
<1>4. JobTyped' /\ AdminTyped'
  BY <1>1, GotoTyped, FinishTyped, AnswerTyped
     DEF PreReload, PostReload, Reconcile, TypeOK, AdminTyped
<1>5. fresh \in Nat \ {0} /\ table \in Ids /\ store \in Ids
  BY DEF TypeOK, BesideTyped
<1>6. /\ fresh' \in Nat \ {0} /\ fresh <= fresh' /\ UNCHANGED <<engine, next, live>>
      /\ table' \in Ids' /\ store' \in Ids'
  <2>1. CASE PreReload
    <3>1. fresh' \in {fresh, fresh + 1} /\ (table' = fresh => fresh' = fresh + 1)
      BY <2>1 DEF PreReload
    <3>2. table' \in {table, fresh} /\ UNCHANGED <<store, engine, next, live>>
      BY <2>1 DEF PreReload
    <3>3. fresh' \in Nat \ {0} /\ fresh <= fresh'
      BY <1>5, <3>1
    <3> QED
      BY <1>5, <3>1, <3>2, <3>3, IdsGrow
  <2>2. CASE PostReload
    <3>1. fresh' = fresh /\ Ids' = Ids /\ UNCHANGED <<store, engine, next, live>>
      BY <2>2 DEF PostReload, swapping, Ids
    <3>2. None \in Ids
      BY <1>5, IdsBelow DEF Ids, None
    <3> QED
      BY <1>5, <2>2, <3>1, <3>2 DEF PostReload
  <2>3. CASE Reconcile
    <3>1. UNCHANGED <<table, engine, next, live>>
      BY <2>3 DEF Reconcile
    <3>2. CASE UNCHANGED <<store, fresh>>
      BY <1>5, <3>1, <3>2 DEF Ids
    <3>3. CASE ReconcileStore(c)
      BY <1>5, <3>1, <3>3, StoreTyped, IdsGrow
    <3> QED
      BY <2>3, <3>2, <3>3 DEF Reconcile
  <2> QED
    BY <2>1, <2>2, <2>3
<1>7. Ids \subseteq Ids' /\ None \in Ids
  BY <1>5, <1>6, IdsGrow
<1>8. EngineTyped'
  BY <1>6, <1>7, EngineAlone DEF TypeOK
<1>9. browse' \in [table : Ids', all : BOOLEAN]
  <2>1. CASE UNCHANGED browse
    BY <1>7, <2>1 DEF TypeOK, BesideTyped
  <2>2. CASE browse' = Browsing(c, table)
    <3>1. On(c, "browse") \in BOOLEAN
      BY DEF On
    <3>2. table \in Ids' /\ None \in Ids'
      BY <1>5, <1>7
    <3> QED
      BY <2>2, <3>1, <3>2 DEF Browsing, NoBrowse
  <2> QED
    BY <2>1, <2>2 DEF PreReload, PostReload, Reconcile
<1>10. advert' \in {NoAdvert} \cup [settings : Settings]
  BY <1>1 DEF PreReload, PostReload, Reconcile, TypeOK, BesideTyped, Announcing, Configs
<1>11. clients' \in {NoClients} \cup [hosts : Hosts, table : Ids']
  BY <1>1, <1>5, <1>7
     DEF PreReload, PostReload, Reconcile, TypeOK, BesideTyped, NamesFrom, Configs
<1> QED
  BY <1>2, <1>3, <1>4, <1>6, <1>8, <1>9, <1>10, <1>11 DEF TypeOK, BesideTyped

\* reloadFn keeps the types up to its rendered configuration.
LEMMA AcmeTyped ==
    ASSUME TypeOK, AcmeLoad \/ AcmeLoadRest \/ AcmeStore PROVE TypeOK'
<1>0. "acme" \in Reloaders /\ disk \in Configs /\ fresh \in Nat \ {0} /\ store \in Ids
  BY DEF Reloaders, TypeOK, FilesTyped, BesideTyped
<1>1. CASE AcmeLoad
  <2>1. [pc |-> "load", kind |-> "acme", config |-> disk] \in Jobs
    BY <1>0 DEF Jobs
  <2>2. JobTyped'
    BY <1>1, <2>1 DEF AcmeLoad, TypeOK, JobTyped
  <2>3. UsedTyped'
    BY <1>1, UsedKept DEF AcmeLoad, TypeOK
  <2>4. HistoryTyped'
    BY <1>0, <1>1 DEF AcmeLoad, TypeOK, HistoryTyped
  <2>5. FilesTyped' /\ BesideTyped' /\ EngineTyped' /\ AdminTyped' /\ fresh' = fresh
    BY <1>1 DEF AcmeLoad, TypeOK, FilesTyped, BesideTyped, EngineTyped, AdminTyped, Ids,
                Instances, files, globals, sidecars, swapping
  <2> QED
    BY <2>2, <2>3, <2>4, <2>5 DEF TypeOK
<1>2. CASE AcmeLoadRest
  <2>1. job["acme"].config \in Configs
    BY <1>0, <1>2, JobHas DEF AcmeLoadRest, TypeOK
  <2> DEFINE c == [disk EXCEPT !.settings = job["acme"].config.settings]
  <2>2. c \in Configs
    BY <1>0, <2>1 DEF Configs
  <2>3. [pc |-> "store", kind |-> "acme", config |-> c] \in Jobs
    BY <2>2 DEF Jobs
  <2>4. JobTyped'
    BY <1>2, <2>3 DEF AcmeLoadRest, TypeOK, JobTyped
  <2>5. FilesTyped'
    BY <1>2, <2>2 DEF AcmeLoadRest, TypeOK, FilesTyped, files, Configs, Settings
  <2>6. BesideTyped' /\ EngineTyped' /\ AdminTyped' /\ HistoryTyped' /\ UsedTyped' /\ fresh' = fresh
    BY <1>2 DEF AcmeLoadRest, TypeOK, BesideTyped, EngineTyped, AdminTyped, HistoryTyped,
                UsedTyped, Ids, Instances, sidecars, swapping, history
  <2> QED
    BY <2>4, <2>5, <2>6 DEF TypeOK
<1>3. CASE AcmeStore
  <2>1. fresh' \in Nat \ {0} /\ fresh <= fresh' /\ store' \in Ids'
    <3>1. CASE UNCHANGED <<store, fresh>>
      BY <1>0, <3>1 DEF Ids
    <3>2. CASE ReconcileStore(job["acme"].config)
      BY <1>0, <3>2, StoreTyped
    <3> QED
      BY <1>3, <3>1, <3>2 DEF AcmeStore
  <2>2. Ids \subseteq Ids'
    BY <1>0, <2>1, IdsGrow
  <2>3. BesideTyped'
    BY <1>3, <2>1, <2>2 DEF AcmeStore, TypeOK, BesideTyped, sidecars
  <2>4. EngineTyped'
    BY <1>3, <2>2, EngineAlone DEF AcmeStore, TypeOK
  <2>5. JobTyped'
    BY <1>0, <1>3, GotoTyped, FinishTyped DEF AcmeStore, TypeOK
  <2>6. UsedTyped'
    BY <1>3, UsedKept DEF AcmeStore, OpenStoreFails, TypeOK
  <2>7. FilesTyped' /\ AdminTyped' /\ HistoryTyped'
    BY <1>3 DEF AcmeStore, TypeOK, FilesTyped, AdminTyped, HistoryTyped, files, globals, history
  <2> QED
    BY <2>1, <2>3, <2>4, <2>5, <2>6, <2>7 DEF TypeOK
<1> QED
  BY <1>1, <1>2, <1>3

\* The reload keeps the types.
LEMMA ReloadTyped ==
    ASSUME TypeOK, EngineHeld, NEW w \in Reloaders, Reload(w) PROVE TypeOK'
<1>1. job[w].pc \in Under /\ job[w].config \in Configs /\ job[w].pc # "idle"
  <2>1. job[w].pc \in Under
    BY DEF Reload, WriteZoneData, WriteHostsData, Setup, Swap, SwapFails, Under
  <2> QED
    BY <2>1, JobHas DEF Under, TypeOK
<1>2. fresh \in Nat \ {0} /\ fresh' \in {fresh, fresh + 1}
  BY DEF Reload, WriteZoneData, WriteHostsData, Setup, Swap, SwapFails, swapping, TypeOK
<1>3. fresh' \in Nat \ {0} /\ fresh <= fresh'
  BY <1>2
<1>4. Ids \subseteq Ids' /\ None \in Ids
  BY <1>2, <1>3, IdsGrow
<1>5. BesideTyped'
  BY <1>4, BesideAlone
     DEF Reload, WriteZoneData, WriteHostsData, Setup, Swap, SwapFails, sidecars, TypeOK
<1>6. FilesTyped'
  BY <1>1 DEF Reload, WriteZoneData, WriteHostsData, Setup, Swap, SwapFails, files, globals,
              TypeOK, FilesTyped, Configs
<1>7. UsedTyped'
  BY UsedKept DEF Reload, WriteZoneData, WriteHostsData, Setup, Swap, SwapFails, TypeOK
<1>8. HistoryTyped'
  BY DEF Reload, WriteZoneData, WriteHostsData, Setup, Swap, SwapFails, TypeOK, HistoryTyped,
         history
<1>9. (\E p \in Under : Goto(w, p) /\ UNCHANGED admin) \/ Returned(w)
  BY DEF Reload, WriteZoneData, WriteHostsData, Setup, Swap, SwapFails, Under
<1>10. JobTyped' /\ AdminTyped'
  BY <1>1, <1>9, GotoTyped, ReturnedTyped DEF TypeOK, AdminTyped, Under
<1>11. EngineTyped'
  <2>1. CASE UNCHANGED swapping
    BY <1>4, <2>1, EngineAlone DEF swapping, TypeOK
  <2>2. CASE Setup(w)
    <3>1. fresh \in Ids'
      BY <1>2, <1>3, <2>2, IdsGrow DEF Setup
    <3>2. next' \in Instances'
      BY <1>1, <1>4, <2>2, <3>1
         DEF Setup, Instance, Instances, TypeOK, FilesTyped, BesideTyped
    <3>3. engine' \in Instances'
      BY <1>4, <2>2 DEF Setup, TypeOK, EngineTyped, Instances
    <3>4. live' \subseteq Ids'
      BY <1>4, <2>2, <3>1 DEF Setup, TypeOK, EngineTyped
    <3> QED
      BY <3>2, <3>3, <3>4 DEF EngineTyped
  <2>3. CASE Swap(w) \/ SwapFails(w)
    <3>1. next \in Instances
      BY <2>3 DEF EngineHeld, Swap, SwapFails
    <3> QED
      BY <1>4, <2>3, <3>1 DEF Swap, SwapFails, TypeOK, EngineTyped, Instances
  <2> QED
    BY <2>1, <2>2, <2>3 DEF Reload, WriteZoneData, WriteHostsData
<1> QED
  BY <1>3, <1>5, <1>6, <1>7, <1>8, <1>10, <1>11 DEF TypeOK

\* Engine.mu stays held or free when no reload enters the swap and the instance
\* waiting for it is left alone.
LEMMA HeldKept ==
    ASSUME EngineHeld, \A w \in Reloaders : job'[w].pc = "swap" => job[w].pc = "swap",
           next' = next, Instances \subseteq Instances'
    PROVE  EngineHeld'
BY DEF EngineHeld

\* Only Setup enters the swap, when no instance is waiting, and only the swap's end
\* takes the instance away.
LEMMA HeldStep ==
    ASSUME TypeOK, TypeOK', ServiceInv, EngineHeld, [Next]_vars PROVE EngineHeld'
<1>0. job = [w \in Reloaders |-> job[w]]
  BY DEF ServiceInv, Shaped
<1>1. CASE Reboot
  BY <1>1 DEF Reboot, EngineHeld, NoJob
<1>2. ASSUME NEW w \in Reloaders, Setup(w) PROVE EngineHeld'
  <2>1. \A o \in Reloaders : o # w => job'[o].pc # "swap"
    <3>1. next \notin Instances
      BY <1>2 DEF Setup, NoNext, Instances
    <3>2. \A o \in Reloaders : job[o].pc # "swap"
      BY <3>1 DEF EngineHeld
    <3> QED
      BY <1>0, <1>2, <3>2 DEF Setup, Goto
  <2>2. next' \in Instances'
    <3>1. next' # NoNext
      BY <1>2 DEF Setup, Instance, NoNext
    <3> QED
      BY <3>1 DEF TypeOK, EngineTyped
  <2> QED
    BY <2>1, <2>2 DEF EngineHeld
<1>3. ASSUME NEW w \in Reloaders, Swap(w) \/ SwapFails(w) PROVE EngineHeld'
  <2>1. \A o \in Reloaders : o # w => job[o].pc # "swap"
    BY <1>3 DEF EngineHeld, Swap, SwapFails
  <2>2. /\ job'[w].pc \in {"post", "idle"}
        /\ \A o \in Reloaders : o # w => job'[o] = job[o]
    BY <1>3, ReturnedTyped DEF Swap, SwapFails, TypeOK
  <2> QED
    BY <2>1, <2>2 DEF EngineHeld
<1>4. ASSUME next' = next, fresh <= fresh',
             \A w \in Reloaders : job'[w].pc = "swap" => job[w].pc = "swap"
      PROVE  EngineHeld'
  <2>1. Instances \subseteq Instances'
    <3>1. Ids \subseteq Ids'
      BY <1>4, IdsGrow DEF TypeOK
    <3> QED
      BY <3>1 DEF Instances
  <2> QED
    BY <1>4, <2>1, HeldKept
<1>5. fresh \in Nat /\ fresh <= fresh
  BY DEF TypeOK
<1>6. ASSUME NEW a \in Admins, Ask(a) \/ SubmitForm(a) PROVE EngineHeld'
  <2>1. next' = next /\ fresh' = fresh
    BY <1>6 DEF Ask, SubmitForm, OpenForm, EditRecords, EditHosts, RestartEngine, Render, swapping
  <2>2. \A w \in Reloaders : job'[w].pc = "swap" => job[w].pc = "swap"
    <3>1. CASE job' = job
      BY <3>1
    <3>2. ASSUME NEW k, NEW c, Render(a, k, c), job' # job
          PROVE  \A w \in Reloaders : job'[w].pc = "swap" => job[w].pc = "swap"
      <4> DEFINE r == [pc |-> IF k = "restart" THEN "zone" ELSE "save", kind |-> k, config |-> c]
      <4>1. job' = [job EXCEPT !["gui"] = r]
        BY <3>2 DEF Render
      <4>2. r.pc # "swap"
        OBVIOUS
      <4> HIDE DEF r
      <4> QED
        BY <1>0, <4>1, <4>2 DEF Reloaders
    <3> QED
      BY <1>6, <3>1, <3>2
         DEF Ask, SubmitForm, OpenForm, EditRecords, EditHosts, RestartEngine
  <2> QED
    BY <1>4, <1>5, <2>1, <2>2
<1>7. ASSUME Save \/ PreReload \/ PostReload \/ Reconcile PROVE EngineHeld'
  <2>1. next' = next /\ fresh <= fresh'
    BY <1>5, <1>7 DEF Save, PreReload, PostReload, Reconcile, ReconcileStore, swapping
  <2>2. \A w \in Reloaders : job'[w].pc = "swap" => job[w].pc = "swap"
    BY <1>0, <1>7 DEF Save, PreReload, PostReload, Reconcile, Goto, Finish, NoJob
  <2> QED
    BY <1>4, <2>1, <2>2
<1>8. ASSUME AcmeLoad \/ AcmeLoadRest \/ AcmeStore PROVE EngineHeld'
  <2>1. next' = next /\ fresh <= fresh'
    BY <1>5, <1>8 DEF AcmeLoad, AcmeLoadRest, AcmeStore, ReconcileStore, swapping
  <2>2. \A w \in Reloaders : job'[w].pc = "swap" => job[w].pc = "swap"
    BY <1>0, <1>8 DEF AcmeLoad, AcmeLoadRest, AcmeStore, Goto, Finish, NoJob
  <2> QED
    BY <1>4, <2>1, <2>2
<1>9. ASSUME NEW w \in Reloaders, WriteZoneData(w) \/ WriteHostsData(w) PROVE EngineHeld'
  <2>1. next' = next /\ fresh' = fresh
    BY <1>9 DEF WriteZoneData, WriteHostsData, swapping
  <2>2. \A o \in Reloaders : job'[o].pc = "swap" => job[o].pc = "swap"
    BY <1>0, <1>9 DEF WriteZoneData, WriteHostsData, Returned, Goto, Finish, NoJob
  <2> QED
    BY <1>4, <1>5, <2>1, <2>2
<1>10. CASE UNCHANGED vars
  BY <1>10 DEF vars, EngineHeld, Instances, Ids
<1> QED
  BY <1>1, <1>2, <1>3, <1>6, <1>7, <1>8, <1>9, <1>10
     DEF Next, GuiStep, AcmeStep, Reload, Reloaders

\* The types and Engine.mu are kept together.
LEMMA TypedAndHeld == Spec => [](TypeOK /\ EngineHeld)
<1>1. Init => TypeOK /\ EngineHeld
  BY InitTyped DEF Init, EngineHeld, NoJob
<1>2. TypeOK /\ EngineHeld /\ ServiceInv /\ [Next]_vars => (TypeOK /\ EngineHeld)'
  <2> SUFFICES ASSUME TypeOK, EngineHeld, ServiceInv, [Next]_vars
               PROVE  TypeOK' /\ EngineHeld'
    OBVIOUS
  <2>1. TypeOK'
    <3>1. CASE UNCHANGED vars
      BY <3>1 DEF vars, TypeOK, FilesTyped, BesideTyped, EngineTyped, AdminTyped, JobTyped,
                  HistoryTyped, UsedTyped, Ids, Instances
    <3>2. ASSUME NEW a \in Admins, Ask(a) \/ SubmitForm(a) PROVE TypeOK'
      BY <3>2, AskTyped
    <3>3. CASE GuiStep
      BY <3>3, SaveTyped, ReconcilersTyped, ReloadTyped DEF GuiStep, Reloaders
    <3>4. CASE AcmeLoad \/ AcmeStep
      BY <3>4, AcmeTyped, ReloadTyped DEF AcmeStep, Reloaders
    <3>5. CASE Reboot
      BY <3>5, RebootTyped
    <3> QED
      BY <3>1, <3>2, <3>3, <3>4, <3>5 DEF Next
  <2> QED
    BY <2>1, HeldStep
<1> QED
  BY <1>1, <1>2, ServiceInductive, PTL DEF Spec

\* In every reachable state every variable of the service has its type: in
\* particular no table, store or cache instance is in use that was not handed out,
\* across failed reloads and restarts.
THEOREM ServiceTyped == Spec => []TypeOK
BY TypedAndHeld, PTL

---------------------------------------------------------------------------
(* What an undisturbed reload leaves behind *)

\* While a reload is under way nobody but it can be the undisturbed one.
LEMMA SoloOnly ==
    ASSUME SoloCaptures, NEW w \in Reloaders, job[w].pc # "idle", NEW o \in Reloaders, solo = o
    PROVE  o = w
BY DEF SoloCaptures, Undisturbed

\* An instance stays current while the files, the table and the store do.
LEMMA CapturedKept ==
    ASSUME NEW e, Captured(e), UNCHANGED <<disk, table, store>>
    PROVE  Captured(e)'
BY DEF Captured, Serves, On

\* Reconciling the store with the saved settings closes or replaces no store an
\* up-to-date instance logs to.
LEMMA CapturedStored ==
    ASSUME NEW e, Captured(e), UNCHANGED <<disk, table>>, NEW c, c.settings = disk.settings,
           ReconcileStore(c) \/ UNCHANGED store
    PROVE  Captured(e)' 
<1>1. CASE UNCHANGED store
  BY <1>1, CapturedKept
<1>2. CASE ReconcileStore(c)
  <2>1. store' = IF ~On(disk, "querylog") THEN None ELSE IF store # None THEN store ELSE fresh
    BY <1>2 DEF ReconcileStore, On
  <2>2. e.store \in {None, store'} /\ (On(disk, "querylog") \/ e.store = None)
    BY <2>1 DEF Captured
  <2> QED
    BY <2>2 DEF Captured, Serves, On
<1> QED
  BY <1>1, <1>2

\* The start builds the engine from the files.
LEMMA StartApplied ==
    ASSUME disk \in Configs, table = BootTable(disk), store = BootStore(disk),
           engine = BootEngine(disk), live = {3}, job = [w \in Reloaders |-> NoJob],
           solo = "none"
    PROVE  AppliedInv
<1>1. Captured(engine) /\ engine.id \in live
  BY DEF Captured, Serves, BootEngine, BootTable, BootStore, Instance, On
<1>2. AppliedCaptures
  BY <1>1 DEF AppliedCaptures, NoJob, Reloaders
<1>3. SoloCaptures
  BY DEF SoloCaptures, Reloaders
<1> QED
  BY <1>2, <1>3 DEF AppliedInv

\* So does a restart.
LEMMA RebootApplied == ASSUME TypeOK, Reboot PROVE AppliedInv'
<1>0. disk \in Configs /\ disk' = disk
  BY DEF TypeOK, FilesTyped, Reboot
<1>1. Captured(engine)' /\ engine'.id \in live'
  BY <1>0 DEF Reboot, Captured, Serves, BootEngine, BootTable, BootStore, Instance, On
<1>2. AppliedCaptures'
  BY <1>1 DEF Reboot, AppliedCaptures, NoJob, Reloaders
<1>3. SoloCaptures'
  BY DEF Reboot, SoloCaptures, Reloaders
<1> QED
  BY <1>2, <1>3 DEF AppliedInv

\* A request that starts while nothing else runs is undisturbed, and has set the
\* VLANs of its configuration.
LEMMA RenderApplied ==
    ASSUME TypeOK, AppliedInv, Unlocked, NEW a \in Admins, NEW kind, NEW c,
           Render(a, kind, c), kind = "restart" => c = disk
    PROVE  AppliedInv'
<1> DEFINE r == [pc |-> IF kind = "restart" THEN "zone" ELSE "save", kind |-> kind, config |-> c]
<1>1. job'["acme"] = job["acme"] /\ job'["gui"] \in {job["gui"], r}
  BY DEF Render, TypeOK, JobTyped, Reloaders
<1>2. UNCHANGED <<disk, table, store, engine, live, applied>> /\ vlans' = c.settings.vlans
  BY DEF Render, swapping, sidecars
<1>3. job["gui"].pc = "idle"
  BY DEF Unlocked
<1>4. SoloCaptures'
  <2> SUFFICES ASSUME NEW o \in Reloaders, solo' = o PROVE Undisturbed(o)'
    BY DEF SoloCaptures
  <2>1. o = "gui" /\ job["acme"].pc = "idle"
    BY DEF Render, Reloaders
  <2>2. CASE job'["gui"] = job["gui"]
    BY <1>1, <1>3, <2>1, <2>2 DEF Undisturbed, Reloaders
  <2>3. CASE job'["gui"] = r
    <3>1. r.pc \in {"zone", "save"} /\ r.config = c /\ (r.pc = "zone" => c = disk)
      OBVIOUS
    <3> QED
      BY <1>1, <1>2, <2>1, <2>3, <3>1 DEF Undisturbed, Reloaders
  <2> QED
    BY <1>1, <2>2, <2>3
<1>5. AppliedCaptures'
  <2> SUFFICES ASSUME applied PROVE AppliedCaptures'
    BY <1>2 DEF AppliedCaptures
  <2>1. Captured(engine)'
    BY <1>2, CapturedKept DEF AppliedInv, AppliedCaptures, Captured, Serves, On
  <2>2. job'["gui"].pc \in {"idle", "zone", "save"}
    BY <1>1, <1>3
  <2> QED
    BY <1>1, <1>2, <1>3, <2>1, <2>2 DEF AppliedInv, AppliedCaptures, Reloaders
<1> QED
  BY <1>4, <1>5 DEF AppliedInv

\* A save makes the last reload count no more, and the request's configuration that
\* of the files.
LEMMA SaveApplied == ASSUME TypeOK, ServiceInv, ServiceInv', AppliedInv, Save PROVE AppliedInv'
<1> DEFINE g == job["gui"]
<1>1. /\ g.pc = "save" /\ "gui" \in Reloaders /\ "acme" \in Reloaders
      /\ UNCHANGED <<vlans, zone, hostsTxt, table, store, engine, next, live, solo>>
      /\ job'["acme"] = job["acme"]
  BY DEF Save, Goto, Finish, TypeOK, JobTyped, Reloaders, globals, files, swapping
<1>2. \A o \in Reloaders : solo = o => o = "gui"
  BY <1>1, SoloOnly DEF AppliedInv
<1>3. CASE applied' = FALSE /\ Goto("gui", IF g.kind = "settings" THEN "pre" ELSE "zone")
  <2>1. /\ job'["gui"].pc \in {"pre", "zone"} /\ job'["gui"].config = g.config
    BY <1>3 DEF Goto, TypeOK, JobTyped, Reloaders
  <2>2. job'["gui"].config = disk'
    BY <2>1 DEF ServiceInv, RequestCurrent
  <2>3. solo = "gui" => Undisturbed("gui")'
    BY <1>1, <2>1, <2>2 DEF AppliedInv, SoloCaptures, Undisturbed, Reloaders
  <2> QED
    BY <1>1, <1>2, <1>3, <2>3 DEF AppliedInv, SoloCaptures, AppliedCaptures
<1>4. CASE Finish("gui") /\ UNCHANGED <<disk, applied>>
  <2>1. job'["gui"].pc = "idle"
    BY <1>4, FinishTyped DEF TypeOK, Reloaders
  <2>2. solo = "gui" => Undisturbed("gui")'
    BY <1>1, <2>1 DEF AppliedInv, SoloCaptures, Undisturbed, Reloaders
  <2>3. applied => Captured(engine)'
    BY <1>1, <1>4, CapturedKept DEF AppliedInv, AppliedCaptures, Captured, Serves, On
  <2> QED
    BY <1>1, <1>2, <1>4, <2>1, <2>2, <2>3
       DEF AppliedInv, SoloCaptures, AppliedCaptures, Reloaders
<1> QED
  BY <1>3, <1>4 DEF Save

\* The reconcilers leave the engine's table and store alone or agree with them: no
\* reload counts as applied while a table is being made.
LEMMA ReconcilersApplied ==
    ASSUME TypeOK, ServiceInv, AppliedInv, PreReload \/ PostReload \/ Reconcile
    PROVE  AppliedInv'
<1> DEFINE g == job["gui"]
<1>1. /\ g.pc \in {"pre", "post", "tail"} /\ g.config = disk
      /\ "gui" \in Reloaders /\ "acme" \in Reloaders
      /\ UNCHANGED <<disk, vlans, zone, hostsTxt, engine, next, live, solo, applied>>
      /\ job'["acme"] = job["acme"]
  BY DEF PreReload, PostReload, Reconcile, Goto, Finish, TypeOK, JobTyped, Reloaders, globals,
         files, swapping, history, ServiceInv, RequestCurrent
<1>2. \A o \in Reloaders : solo = o => o = "gui"
  BY <1>1, SoloOnly DEF AppliedInv
<1>3. /\ job'["gui"].pc \in {"zone", "tail", "idle"}
      /\ job'["gui"].pc = "zone" => PreReload /\ job'["gui"].config = disk
  BY <1>1 DEF PreReload, PostReload, Reconcile, Goto, Finish, NoJob, TypeOK, JobTyped, Reloaders
<1>4. solo = "gui" => Undisturbed("gui")'
  <2>1. solo = "gui" /\ PreReload => vlans = disk.settings.vlans
    BY <1>1 DEF AppliedInv, SoloCaptures, Undisturbed, PreReload
  <2> QED
    BY <1>1, <1>3, <2>1 DEF AppliedInv, SoloCaptures, Undisturbed, Reloaders
<1>5. applied => Captured(engine)'
  <2> SUFFICES ASSUME applied PROVE Captured(engine)'
    OBVIOUS
  <2>1. ~PreReload /\ Captured(engine)
    BY DEF AppliedInv, AppliedCaptures, PreReload
  <2>2. CASE PostReload
    <3>1. store' = store /\ table' = IF On(disk, "mdns") THEN table ELSE None
      BY <1>1, <2>2 DEF PostReload
    <3> QED
      BY <1>1, <2>1, <3>1 DEF Captured, Serves, On
  <2>3. CASE Reconcile
    <3>1. table' = table /\ (ReconcileStore(disk) \/ UNCHANGED store)
      BY <1>1, <2>3 DEF Reconcile
    <3> QED
      BY <1>1, <2>1, <3>1, CapturedStored DEF Captured, Serves, On
  <2> QED
    BY <2>1, <2>2, <2>3
<1> QED
  BY <1>1, <1>2, <1>3, <1>4, <1>5 DEF AppliedInv, SoloCaptures, AppliedCaptures, Reloaders

\* reloadFn starts undisturbed while no request holds Service.mu, and reconciles
\* the store with the settings of the files as long as a reload counts as applied.
LEMMA AcmeApplied ==
    ASSUME TypeOK, ServiceInv, AppliedInv, AcmeLoad \/ AcmeLoadRest \/ AcmeStore
    PROVE  AppliedInv'
<1> DEFINE m == job["acme"]
<1>0. /\ "gui" \in Reloaders /\ "acme" \in Reloaders /\ job'["gui"] = job["gui"]
      /\ UNCHANGED <<disk, zone, hostsTxt, table, engine, next, live, applied>>
  BY DEF AcmeLoad, AcmeLoadRest, AcmeStore, Goto, Finish, TypeOK, JobTyped, Reloaders,
         files, sidecars, swapping, history
<1>1. CASE AcmeLoad
  <2>1. /\ m.pc = "idle" /\ job'["acme"].pc = "load" /\ job'["acme"].config = disk
        /\ UNCHANGED store /\ solo' = IF Unlocked THEN "acme" ELSE "none"
    BY <1>1 DEF AcmeLoad, TypeOK, JobTyped, Reloaders
  <2>2. SoloCaptures'
    <3> SUFFICES ASSUME NEW o \in Reloaders, solo' = o PROVE Undisturbed(o)'
      BY DEF SoloCaptures
    <3>1. o = "acme" /\ job["gui"].pc = "idle"
      BY <2>1 DEF Unlocked, Reloaders
    <3> QED
      BY <1>0, <2>1, <3>1 DEF Undisturbed, Reloaders
  <2>3. applied => Captured(engine)'
    BY <1>0, <2>1, CapturedKept DEF AppliedInv, AppliedCaptures, Captured, Serves, On
  <2> QED
    BY <1>0, <2>1, <2>2, <2>3 DEF AppliedInv, AppliedCaptures, Reloaders
<1>2. CASE AcmeLoadRest
  <2> DEFINE c == [disk EXCEPT !.settings = m.config.settings]
  <2>1. /\ m.pc = "load" /\ job'["acme"].pc = "store" /\ job'["acme"].config = c
        /\ vlans' = c.settings.vlans /\ UNCHANGED <<store, solo>>
    BY <1>2 DEF AcmeLoadRest, TypeOK, JobTyped, Reloaders, history
  <2>2. /\ disk = [settings |-> disk.settings, records |-> disk.records, hosts |-> disk.hosts]
        /\ c.settings = m.config.settings
    BY DEF ServiceInv, Shaped
  <2>3. SoloCaptures'
    <3> SUFFICES ASSUME NEW o \in Reloaders, solo' = o PROVE Undisturbed(o)'
      BY DEF SoloCaptures
    <3>1. o = "acme" /\ solo = "acme"
      BY <1>0, <2>1, SoloOnly DEF AppliedInv
    <3>2. m.config = disk /\ job["gui"].pc = "idle"
      BY <1>0, <2>1, <3>1 DEF AppliedInv, SoloCaptures, Undisturbed, Reloaders
    <3>3. c = disk
      BY <2>2, <3>2
    <3> HIDE DEF c
    <3> QED
      BY <1>0, <2>1, <3>1, <3>2, <3>3 DEF Undisturbed, Reloaders
  <2>4. applied => Captured(engine)'
    BY <1>0, <2>1, CapturedKept DEF AppliedInv, AppliedCaptures, Captured, Serves, On
  <2> HIDE DEF c
  <2> QED
    BY <1>0, <2>1, <2>2, <2>3, <2>4 DEF AppliedInv, AppliedCaptures, Reloaders
<1>3. CASE AcmeStore
  <2>1. /\ m.pc = "store" /\ UNCHANGED <<vlans, solo>>
        /\ ReconcileStore(m.config) \/ UNCHANGED store
        /\ Goto("acme", "zone") \/ Finish("acme")
    BY <1>3 DEF AcmeStore, globals, history
  <2>2. /\ job'["acme"].pc \in {"zone", "idle"}
        /\ job'["acme"].pc = "zone" => job'["acme"].config = m.config
    BY <2>1 DEF Goto, Finish, NoJob, TypeOK, JobTyped, Reloaders
  <2>3. SoloCaptures'
    <3> SUFFICES ASSUME NEW o \in Reloaders, solo' = o PROVE Undisturbed(o)'
      BY DEF SoloCaptures
    <3>1. o = "acme" /\ solo = "acme"
      BY <1>0, <2>1, SoloOnly DEF AppliedInv
    <3>2. m.config = disk /\ job["gui"].pc = "idle" /\ vlans = disk.settings.vlans
      BY <1>0, <2>1, <3>1 DEF AppliedInv, SoloCaptures, Undisturbed, Reloaders
    <3> QED
      BY <1>0, <2>1, <2>2, <3>1, <3>2 DEF Undisturbed, Reloaders
  <2>4. applied => Captured(engine)'
    <3> SUFFICES ASSUME applied PROVE Captured(engine)'
      OBVIOUS
    <3>1. m.config.settings = disk.settings /\ Captured(engine)
      BY <2>1 DEF AppliedInv, AppliedCaptures
    <3> QED
      BY <1>0, <2>1, <3>1, CapturedStored DEF Captured, Serves, On
  <2> QED
    BY <1>0, <2>1, <2>2, <2>3, <2>4 DEF AppliedInv, AppliedCaptures, Reloaders
<1> QED
  BY <1>1, <1>2, <1>3

\* The reload: an undisturbed one writes the files of its own configuration, sets
\* its instance up from them, and swaps that instance in.
LEMMA ReloadApplied ==
    ASSUME TypeOK, ServiceInv, AppliedInv, NEW w \in Reloaders, Reload(w)
    PROVE  AppliedInv'
<1> DEFINE j == job[w]
<1>0. /\ j.pc \in Under /\ j.pc # "idle"
      /\ UNCHANGED <<disk, vlans, table, store, solo>>
  BY DEF Reload, WriteZoneData, WriteHostsData, Setup, Swap, SwapFails, Under, globals,
         sidecars, history
<1>1. \A o \in Reloaders : solo = o => o = w
  BY <1>0, SoloOnly DEF AppliedInv
<1>2. solo = w => /\ j.config = disk /\ \A o \in Reloaders : o # w => job[o].pc = "idle"
                  /\ j.pc \in {"zone", "hosts", "setup"} => vlans = disk.settings.vlans
  BY <1>0 DEF AppliedInv, SoloCaptures, Undisturbed, Under
<1>3. \A o \in Reloaders : o # w => job'[o] = job[o]
  BY DEF Reload, WriteZoneData, WriteHostsData, Setup, Swap, SwapFails, Returned, Goto, Finish,
         TypeOK, JobTyped
<1>4. ASSUME NEW p \in Under, Goto(w, p) PROVE job'[w].pc = p /\ job'[w].config = j.config
  BY <1>4 DEF Goto, TypeOK, JobTyped
<1>5. Returned(w) => job'[w].pc \in {"post", "idle"}
  BY <1>0, ReturnedTyped DEF TypeOK
<1>6. ASSUME solo = w => Undisturbed(w)' PROVE SoloCaptures'
  BY <1>0, <1>1, <1>6 DEF SoloCaptures
<1>7. ASSUME job'[w].pc \in {"post", "idle"} PROVE SoloCaptures'
  BY <1>2, <1>3, <1>6, <1>7 DEF Undisturbed
<1>8. applied /\ UNCHANGED engine => Captured(engine)'
  BY <1>0, CapturedKept DEF AppliedInv, AppliedCaptures, Captured, Serves, On
<1>9. ASSUME UNCHANGED <<engine, live, applied>>, j.pc # "swap",
             job'[w].pc \in {"post", "idle", "hosts", "setup"}
      PROVE  AppliedCaptures'
  <2> SUFFICES ASSUME applied PROVE AppliedCaptures'
    BY <1>9 DEF AppliedCaptures
  <2>1. (\A o \in Reloaders : job'[o].pc # "swap") => engine.id \in live
    BY <1>3, <1>9 DEF AppliedInv, AppliedCaptures
  <2>2. job'["gui"].pc # "pre"
    BY <1>3, <1>9 DEF AppliedInv, AppliedCaptures, Reloaders
  <2>3. job'["acme"].pc \in {"load", "store"} => job'["acme"].config.settings = disk.settings
    BY <1>3, <1>9 DEF AppliedInv, AppliedCaptures, Reloaders
  <2> QED
    BY <1>0, <1>8, <1>9, <2>1, <2>2, <2>3 DEF AppliedCaptures
<1>10. CASE WriteZoneData(w)
  <2>1. j.pc = "zone" /\ UNCHANGED <<hostsTxt, engine, next, live, applied>>
    BY <1>10 DEF WriteZoneData, swapping, history
  <2>2. CASE Goto(w, "hosts") /\ zone' = j.config.records
    <3>1. job'[w].pc = "hosts" /\ job'[w].config = j.config
      BY <1>4, <2>2 DEF Under
    <3>2. solo = w => Undisturbed(w)'
      BY <1>0, <1>2, <1>3, <2>1, <2>2, <3>1 DEF Undisturbed
    <3> QED
      BY <1>6, <1>9, <2>1, <3>1, <3>2 DEF AppliedInv
  <2>3. CASE Returned(w)
    BY <1>5, <1>7, <1>9, <2>1, <2>3 DEF AppliedInv
  <2> QED
    BY <1>10, <2>2, <2>3 DEF WriteZoneData
<1>11. CASE WriteHostsData(w)
  <2>1. j.pc = "hosts" /\ UNCHANGED <<zone, engine, next, live, applied>>
    BY <1>11 DEF WriteHostsData, swapping, history
  <2>2. CASE Goto(w, "setup") /\ hostsTxt' = j.config.hosts
    <3>1. job'[w].pc = "setup" /\ job'[w].config = j.config
      BY <1>4, <2>2 DEF Under
    <3>2. solo = w => zone = j.config.records
      BY <2>1 DEF AppliedInv, SoloCaptures, Undisturbed
    <3>3. solo = w => Undisturbed(w)'
      BY <1>0, <1>2, <1>3, <2>1, <2>2, <3>1, <3>2 DEF Undisturbed
    <3> QED
      BY <1>6, <1>9, <2>1, <3>1, <3>3 DEF AppliedInv
  <2>3. CASE Returned(w)
    BY <1>5, <1>7, <1>9, <2>1, <2>3 DEF AppliedInv
  <2> QED
    BY <1>11, <2>2, <2>3 DEF WriteHostsData
<1>12. CASE Setup(w)
  <2>1. /\ j.pc = "setup" /\ UNCHANGED <<zone, hostsTxt, engine, applied>>
        /\ next' = Instance(j.config, zone, hostsTxt, vlans, table, store, fresh)
        /\ fresh \in live'
    BY <1>12 DEF Setup, files, history
  <2>2. job'[w].pc = "swap" /\ job'[w].config = j.config
    BY <1>4, <1>12 DEF Setup, Under
  <2>3. solo = w => Captured(next)' /\ next'.id \in live'
    <3> SUFFICES ASSUME solo = w PROVE Captured(next)' /\ next'.id \in live'
      OBVIOUS
    <3>1. zone = disk.records /\ hostsTxt = disk.hosts /\ vlans = disk.settings.vlans
          /\ j.config = disk
      BY <1>2, <2>1 DEF AppliedInv, SoloCaptures, Undisturbed
    <3>2. next' = Instance(disk, disk.records, disk.hosts, disk.settings.vlans, table, store,
                           fresh)
      BY <2>1, <3>1
    <3> QED
      BY <1>0, <2>1, <3>2 DEF Captured, Serves, Instance, On
  <2>4. solo = w => Undisturbed(w)'
    BY <1>0, <1>2, <1>3, <2>2, <2>3 DEF Undisturbed
  <2>5. AppliedCaptures'
    <3> SUFFICES ASSUME applied PROVE AppliedCaptures'
      BY <2>1 DEF AppliedCaptures
    <3>1. job'["gui"].pc # "pre"
      BY <1>3, <2>2 DEF AppliedInv, AppliedCaptures, Reloaders
    <3>2. job'["acme"].pc \in {"load", "store"} => job'["acme"].config.settings = disk.settings
      BY <1>3, <2>2 DEF AppliedInv, AppliedCaptures, Reloaders
    <3> QED
      BY <1>0, <1>8, <2>1, <2>2, <3>1, <3>2 DEF AppliedCaptures
  <2> QED
    BY <1>6, <2>4, <2>5 DEF AppliedInv
<1>13. CASE Swap(w)
  <2>1. /\ j.pc = "swap" /\ engine' = next /\ applied' = (solo = w) /\ UNCHANGED live
        /\ Returned(w)
    BY <1>13 DEF Swap
  <2>2. job'[w].pc \in {"post", "idle"}
    BY <1>5, <2>1
  <2>3. AppliedCaptures'
    <3> SUFFICES ASSUME solo = w PROVE AppliedCaptures'
      BY <2>1 DEF AppliedCaptures
    <3>1. Captured(next) /\ next.id \in live
      BY <2>1 DEF AppliedInv, SoloCaptures, Undisturbed
    <3>2. Captured(engine)' /\ engine'.id \in live'
      BY <1>0, <2>1, <3>1 DEF Captured, Serves, On
    <3>3. \A o \in Reloaders : job'[o].pc \in {"post", "idle"}
      BY <1>2, <1>3, <2>2
    <3> QED
      BY <3>2, <3>3 DEF AppliedCaptures, Reloaders
  <2> QED
    BY <1>7, <2>2, <2>3 DEF AppliedInv
<1>14. CASE SwapFails(w)
  <2>1. applied' = FALSE /\ Returned(w)
    BY <1>14 DEF SwapFails
  <2> QED
    BY <1>5, <1>7, <2>1 DEF AppliedInv, AppliedCaptures
<1> QED
  BY <1>10, <1>11, <1>12, <1>13, <1>14 DEF Reload

\* After a reload that nobody disturbed, the running engine is the one the files
\* describe, whatever failed, raced or restarted before it: the Corefile, the zone
\* data, the hosts and the VLANs it captured agree, it looks names up in the table
\* the browse goroutine fills, it logs to no closed store, and a flush reaches its
\* cache.
THEOREM ReloadIsServed == Spec => []AppliedIsServed
<1>1. Init => AppliedInv
  BY StartApplied DEF Init, Starts
<1>2. TypeOK /\ ServiceInv /\ ServiceInv' /\ AppliedInv /\ [Next]_vars => AppliedInv'
  <2> SUFFICES ASSUME TypeOK, ServiceInv, ServiceInv', AppliedInv, [Next]_vars
               PROVE  AppliedInv'
    OBVIOUS
  <2>1. ASSUME UNCHANGED <<disk, zone, hostsTxt, vlans, table, store, engine, next, live, job,
                           applied, solo>>
        PROVE  AppliedInv'
    BY <2>1 DEF AppliedInv, SoloCaptures, AppliedCaptures, Undisturbed, Captured, Serves, On
  <2>2. CASE UNCHANGED vars
    BY <2>1, <2>2 DEF vars
  <2>3. ASSUME NEW a \in Admins, Ask(a) \/ SubmitForm(a) PROVE AppliedInv'
    <3>1. ASSUME NEW e \in Edits, OpenForm(a, e) PROVE AppliedInv'
      BY <2>1, <3>1 DEF OpenForm, files, globals, sidecars, swapping, history
    <3> QED
      BY <2>3, <3>1, RenderApplied DEF Ask, EditRecords, EditHosts, RestartEngine, SubmitForm
  <2>4. CASE GuiStep
    BY <2>4, SaveApplied, ReconcilersApplied, ReloadApplied DEF GuiStep, Reloaders
  <2>5. CASE AcmeLoad \/ AcmeStep
    BY <2>5, AcmeApplied, ReloadApplied DEF AcmeStep, Reloaders
  <2>6. CASE Reboot
    BY <2>6, RebootApplied
  <2> QED
    BY <2>2, <2>3, <2>4, <2>5, <2>6 DEF Next
<1>3. ServiceInv /\ AppliedInv => AppliedIsServed
  <2> SUFFICES ASSUME ServiceInv, AppliedInv, applied, Quiet
               PROVE  /\ Serves(engine, disk) /\ engine.table = table
                      /\ engine.store \in {None, store} /\ engine.id \in live
    BY DEF AppliedIsServed
  <2>1. \A w \in Reloaders : job[w].pc = "idle"
    BY DEF Quiet
  <2>2. (table # None) <=> On(disk, "mdns")
    BY <2>1 DEF ServiceInv, SidecarsAlong, MdnsFollows, Reloaders
  <2> QED
    BY <2>1, <2>2 DEF AppliedInv, AppliedCaptures, Captured
<1> QED
  BY <1>1, <1>2, <1>3, ServiceTyped, ServiceInductive, PTL DEF Spec
=============================================================================

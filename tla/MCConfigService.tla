-------------------------- MODULE MCConfigService --------------------------
(***************************************************************************)
(* Instances of ConfigService for TLC.                                     *)
(***************************************************************************)
EXTENDS ConfigService

\* Every feature switch.
Everything == {"mdns", "browse", "querylog", "advertise", "clientnames"}

\* Settings pages: all off, discovery alone, what needs no discovery, all on.
SomePages == {{}, {"mdns"}, {"querylog", "advertise", "clientnames"}, Everything}

=============================================================================

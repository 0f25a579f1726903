------------------------------- MODULE MCLookup -------------------------------
(* The lookups of a TLD with two servers: rdap.org, first in input order as  *)
(* withDefaults puts it, and the registry's, to which rdap.org redirects.    *)
EXTENDS Lookup, TLC

CONSTANTS universal, registry

TwoServers == <<universal, registry>>
Registry   == {registry}
BothMayLie == {universal, registry}
ToRegistry == (universal :> {registry}) @@ (registry :> {})
=============================================================================

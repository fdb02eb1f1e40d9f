--------------------------- MODULE MCPendingSetup ---------------------------
(* A small instance of PendingSetup for TLC: two ports, and the command     *)
(* lines of the README with those that change one thing of them.            *)
EXTENDS PendingSetup, TLC

CONSTANTS global, p443, p8443

Starts ==
  { [site |-> global],
    [site |-> global, spec |-> "pro", domainType |-> "custom_domain", domain |-> "own",
     ingressMode |-> "behind_proxy", listenHost |-> "loopback"] }

Edits ==
  { NoFlags,
    [spec |-> "starter", domainType |-> "platform_subdomain"],
    [domainType |-> "custom_domain"],
    [ingressMode |-> "behind_proxy", listenHost |-> "loopback", publicPort |-> p8443],
    [ingressMode |-> "standalone", listenPort |-> p8443],
    [listenHost |-> "any", trustedProxies |-> "some"],
    [trustedProxies |-> "none"],
    [upstreamMode |-> "managed", command |-> "some"],
    [upstreamMode |-> "daemon"],
    [command |-> "none"] }

Lines == Starts \union Edits

\* Once a command has been overtaken, those at work finish and no other starts.
FewRaces == raced => \A p \in Procs : cmd[p].step # "checked"

Symmetry == Permutations(Procs)
==============================================================================

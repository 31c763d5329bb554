----------------------------- MODULE Allowlist -----------------------------
(***************************************************************************)
(* What a policy pack permits: from its egress lists (policy.Validate,     *)
(* AllowedDomains) over the gateway's command line (cmdProxy) to the       *)
(* proxy's decision (egress.New, validHostname, Allowed) and the hosts it  *)
(* injects a credential for (enableInjection, SetInjector).                *)
(*                                                                         *)
(* A name is the sequence of its labels in the spelling that was used, and *)
(* Fold is a label's lower case.  An entry of an allowlist is nothing, the *)
(* bare "*", "*." before a name, or a name.  A pack's domain is a string:  *)
(* it may hold several entries between commas, and blanks around them.     *)
(* The lists only ever become sets, so their order is left out.            *)
(***************************************************************************)
EXTENDS Integers, Sequences

CONSTANTS Labels,   \* labels of host names, in every spelling
          Fold,     \* the lower case of each
          Bad,      \* those with a blank or a control character in them
          Length(_) \* the bytes of a name

Names == Seq(Labels)
Kinds == {"blank", "all", "sub", "host"}
Entry == [kind : Kinds, name : Names, padded : BOOLEAN]
Domain == Seq(Entry) \ {<<>>}
Entries(d) == {d[i] : i \in 1..Len(d)}

Pack == [agent : STRING, scope : STRING, type : STRING, command : STRING,
         model : SUBSET Domain, infra : SUBSET Domain]

-----------------------------------------------------------------------------
(* The pack.                                                               *)

Blank(d) == Len(d) = 1 /\ d[1].kind = "blank"

\* A domain of nothing but blanks is dropped.  One of nothing but commas is
\* not blank here, and comes to nothing in cmdProxy.
AllowedDomains(p) == {d \in p.model \cup p.infra : ~Blank(d)}

Local(p) == p.scope \in {"", "local"}

\* A pack that runs something permits something.
Validate(p) ==
  /\ p.agent # ""
  /\ \/ p.scope = "track-only"
     \/ /\ Local(p)
        /\ p.type \in {"cli-headless", "ide-thin-client"}
        /\ p.type = "cli-headless" => p.command # ""
        /\ AllowedDomains(p) # {}

\* cmdHere warns that nothing is contained: a domain that is exactly "*".
Warns(p) ==
  \E d \in AllowedDomains(p) : Len(d) = 1 /\ d[1].kind = "all" /\ ~d[1].padded

-----------------------------------------------------------------------------
(* The gateway.                                                            *)

\* cmdProxy: all domains joined by commas, split at commas, blanks trimmed.
Fields(D) == {e \in UNION {Entries(d) : d \in D} : e.kind # "blank"}

Lower(n) == [i \in 1..Len(n) |-> Fold[n[i]]]

\* strings.HasSuffix(h, "." + n)
Below(h, n) == Len(h) > Len(n) /\ SubSeq(h, Len(h) - Len(n) + 1, Len(h)) = n

\* "*." alone is dropped.
New(E) ==
  [allowAll |-> \E e \in E : e.kind = "all",
   allow    |-> {Lower(e.name) : e \in {x \in E : x.kind = "host"}},
   suffixes |-> {Lower(e.name) : e \in {x \in E : x.kind = "sub" /\ x.name # <<>>}}]

ValidHostname(h) ==
  /\ h # <<>> /\ Length(h) <= 253
  /\ \A i \in 1..Len(h) : h[i] \notin Bad

Allowed(proxy, h) ==
  /\ ValidHostname(h)
  /\ \/ proxy.allowAll
     \/ Lower(h) \in proxy.allow
     \/ \E n \in proxy.suffixes : Below(Lower(h), n)

Gateway(p) == New(Fields(AllowedDomains(p)))

\* enableInjection lowers the hosts it is given ...
InjectKeys(hosts) == {Lower(h) : h \in hosts}
\* ... and SetInjector refuses one that is not allowed.
SetInjector(proxy, keys) == keys # {} /\ \A k \in keys : Allowed(proxy, k)

\* ServeHTTP injects what is decided and found, if the CONNECT names a port.
Injected(proxy, keys, h, hasPort) ==
  Allowed(proxy, h) /\ hasPort /\ Lower(h) \in keys

-----------------------------------------------------------------------------
(* The decision, defined by the pack alone.                                *)

SameName(h, n) == Len(h) = Len(n) /\ \A i \in 1..Len(n) : Fold[h[i]] = Fold[n[i]]

Subdomain(h, n) ==
  /\ Len(h) > Len(n)
  /\ \A i \in 1..Len(n) : Fold[h[Len(h) - Len(n) + i]] = Fold[n[i]]

Permits(e, h) ==
  \/ e.kind = "all"
  \/ e.kind = "host" /\ SameName(h, e.name)
  \/ e.kind = "sub" /\ e.name # <<>> /\ Subdomain(h, e.name)
=============================================================================

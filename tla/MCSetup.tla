------------------------------ MODULE MCSetup ------------------------------
EXTENDS Setup, TLC

Assign(op, args) == [op |-> op, args |-> args]
MCTexts == {<<Assign("set", {"quiet"})>>}

\* A Zen 2 with the runtime, which needs UMIP off and the module; a Zen 4 whose
\* kernel has CPUID faulting, which needs UMIP off and a tool; an Intel of the
\* 6th generation, which needs a tool alone.
Zen2 == [vendor |-> "AuthenticAMD", family |-> 23, model |-> 113, deck |-> FALSE,
         umip |-> TRUE, fault |-> FALSE, kernel |-> <<6, 1>>]
Zen4 == [Zen2 EXCEPT !.family = 25, !.model = 97, !.fault = TRUE, !.kernel = <<6, 18>>]
Intel == [Zen2 EXCEPT !.vendor = "GenuineIntel", !.family = 6, !.model = 94,
                      !.umip = FALSE, !.fault = TRUE]

MCHosts ==
  {[machine |-> Zen2, wrapper |-> "usable", library |-> "usable"],
   [machine |-> Zen4, wrapper |-> "usable", library |-> "absent"],
   [machine |-> Intel, wrapper |-> "absent", library |-> "absent"]}

E(name, kind) == [name |-> name, kind |-> kind, target |-> <<>>]
To(name, kind, target) == [name |-> name, kind |-> kind, target |-> target]
Tool == <<E(<<>>, "directory"), E(<<"proton">>, "regular")>>
Payload1 == <<E(<<"files", "x">>, "regular")>>

MCArchives ==
  {Tool,                                                              \* no payload
   Tool \o <<E(<<"proton_dist.tar">>, "regular")>>,
   Tool \o <<To(<<"a">>, "hard-link", <<"b">>), To(<<"b">>, "hard-link", <<"files", "x">>)>> \o Payload1,
   Tool \o Payload1 \o <<To(<<"a">>, "hard-link", <<"b">>), To(<<"b">>, "hard-link", <<"a">>)>>,
   Tool \o <<To(<<"files", "x">>, "hard-link", <<"proton">>)>>,        \* a link without a directory
   Tool \o <<To(<<"files">>, "symlink", <<"lib">>), E(<<"files", "x">>, "regular")>>,
   Tool \o Payload1 \o <<To(<<"a">>, "symlink", Outside)>>}
=============================================================================

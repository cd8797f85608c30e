---------------------------- MODULE MCNetConfig ----------------------------
(***************************************************************************)
(* NetConfig with files of up to four lines: headings of our section, of   *)
(* another and of ours without "]"; two addresses for ipaddress and        *)
(* 0.0.0.0; values that stop being an address at the third octet, at the   *)
(* end, at a number above 255 and at the first octet.                      *)
(***************************************************************************)
EXTENDS NetConfig

Heading(ours, closed) == [kind |-> "section", ours |-> ours, closed |-> closed]
Setting(key, value)   == [kind |-> "setting", key |-> key, value |-> value]

MCLines ==
    {Heading(TRUE, TRUE), Heading(FALSE, TRUE), Heading(TRUE, FALSE), [kind |-> "idle"],
     Setting("ipaddress", <<1, Dot, 2, Dot, 3, Dot, 4>>),
     Setting("ipaddress", <<5, Dot, 6, Dot, 7, Dot, 8>>),
     Setting("ipaddress", <<9, Dot, 9, Dot, Junk>>),
     Setting("ipaddress", <<0, Dot, 0, Dot, 0, Dot, 0>>),
     Setting("netmask", <<255, Dot, 255, Dot, 0, Dot, 0>>),
     Setting("netmask", <<10, Dot, 10, Dot, 10, Dot, 10, Dot>>),
     Setting("gateway", <<1, Dot, 2, Dot, 3, Dot, 1>>),
     Setting("gateway", <<8, Dot, 256, Dot, 8, Dot, 8>>),
     Setting("dnsserver", <<1, Dot, 2, Dot, 3, Dot, 2>>),
     Setting("dnsserver", <<Junk, Dot, 4, Dot, 4, Dot, 4>>),
     Setting("other", <<6, Dot, 6, Dot, 6, Dot, 6>>)}

(* One address and two typos. *)
MCTypoLines ==
    {Heading(TRUE, TRUE),
     Setting("ipaddress", <<1, Dot, 2, Dot, 3, Dot, 4>>),
     Setting("ipaddress", <<9, Dot, 9, Dot, Junk>>),
     Setting("netmask", <<10, Dot, 10, Dot, 10, Dot, 10, Dot>>)}

=============================================================================

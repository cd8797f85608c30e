----------------------------- MODULE NetConfig -----------------------------
(***************************************************************************)
(* The network-loader's start: CKernel::Initialize() with                  *)
(* RapiReadNetConfig(), which reads the [rapi-bootloader] section of the   *)
(* card's config.txt, ConfigureNetwork() and WaitForNetwork()              *)
(* (network-loader/netconfig.cpp, network-loader/kernel.cpp).              *)
(*                                                                         *)
(* The file is a sequence of lines, chosen one by one as the loop reaches  *)
(* them.  It is what Buffer[] holds: of a file beyond CONFIG_MAX_BYTES the *)
(* tail is missing, and the last line is what is left of one.  Surrounding *)
(* blanks and the case of names make no difference to MatchToken() and are *)
(* left out.                                                               *)
(***************************************************************************)
EXTENDS Integers, Sequences

CONSTANTS
    Lines,      \* lines a config.txt may have
    MaxLines,   \* bound on its length
    Dot,        \* the dot in an address
    Junk,       \* any other text that is not a number
    Garbage,    \* a byte nobody has written
    None        \* not set

Keys == {"ipaddress", "netmask", "gateway", "dnsserver"}

(* A value is a sequence of numbers, dots and other text.  A number of     *)
(* more than three digits is one above 255.  A section line may lack its   *)
(* "]"; a blank line, a comment and a line without "=" are "idle".         *)
LineType ==
    [kind : {"section"}, ours : BOOLEAN, closed : BOOLEAN]
    \cup [kind : {"setting"}, key : Keys \cup {"other"}, value : Seq(Nat \cup {Dot, Junk})]
    \cup [kind : {"idle"}]

Octets == 0..255
Addresses == [1..4 -> Octets]

ASSUME NetConfigAssumption ==
    /\ Lines \subseteq LineType
    /\ MaxLines \in Nat
    /\ {Dot, Junk, Garbage} \cap Nat = {} /\ Dot # Junk
    /\ None \notin [1..4 -> Octets \cup {Garbage}]

VARIABLES
    pc,         \* where Initialize() is
    lines,      \* the lines of Buffer[] up to p
    inSection,  \* bInSection
    have,       \* bStatic, bHaveGateway, bHaveDNSServer; a netmask is always there
    address,    \* IPAddress, NetMask, Gateway, DNSServer
    given,      \* what m_Net.GetConfig() was given
    dhcp        \* IsDHCPUsed(), once m_Net is initialised

vars == <<pc, lines, inSection, have, address, given, dhcp>>
parsed == <<lines, inSection, have, address>>

NoAddress == [i \in 1..4 |-> Garbage]
DefaultMask == [i \in 1..4 |-> IF i = 4 THEN 0 ELSE 255]

(* Config is a local variable RapiReadNetConfig() fills in part.           *)
Init ==
    /\ pc = "devices"
    /\ lines = <<>>
    /\ inSection = FALSE
    /\ have = [key \in Keys |-> key = "netmask"]
    /\ address = [key \in Keys |-> IF key = "netmask" THEN DefaultMask ELSE NoAddress]
    /\ given = [key \in Keys |-> None]
    /\ dhcp = None

Goto(from, to) == pc = from /\ pc' = to

(* The devices up to the card; the first failure is main()'s EXIT_HALT.    *)
Devices ==
    /\ Goto("devices", "card") \/ Goto("devices", "halted")
    /\ UNCHANGED <<parsed, given, dhcp>>

(* The card is mounted and config.txt can be read, or DHCP is asked.       *)
OpenConfig ==
    /\ Goto("card", "lines") \/ Goto("card", "configure")
    /\ UNCHANGED <<parsed, given, dhcp>>

-----------------------------------------------------------------------------
(* ParseAddress() *)

(* Mutant: the check lets 256 pass. *)
OctetFitsOffByOne(n) == n \in 0..256

OctetFits(n) == n \in Octets

(* The octets are stored one by one as they are read. *)
StoresOctet(v, i) ==
    /\ \A j \in 1..i : 2 * j - 1 <= Len(v) /\ OctetFits(v[2 * j - 1])
    /\ \A j \in 1..(i - 1) : v[2 * j] = Dot

ParseAddress(v, old) ==
    [i \in 1..4 |-> IF StoresOctet(v, i) THEN v[2 * i - 1] ELSE old[i]]

(* What ParseAddress() returns. *)
IsParsed(v) == StoresOctet(v, 4) /\ Len(v) = 7

-----------------------------------------------------------------------------
(* The loop of RapiReadNetConfig() *)

(* Mutant: the heading of another section does not end ours. *)
SectionNotLeft(line) == inSection \/ (line.closed /\ line.ours)

SectionOf(line) == line.closed /\ line.ours

ReadLine(line) ==
    /\ pc = "lines" /\ Len(lines) < MaxLines
    /\ lines' = Append(lines, line)
    /\ inSection' = IF line.kind = "section" THEN SectionOf(line) ELSE inSection
    /\ IF inSection /\ line.kind = "setting" /\ line.key \in Keys
       THEN /\ address' = [address EXCEPT ![line.key] = ParseAddress(line.value, @)]
            /\ have' = [have EXCEPT ![line.key] = @ \/ IsParsed(line.value)]
       ELSE UNCHANGED <<address, have>>
    /\ UNCHANGED <<pc, given, dhcp>>

EndOfFile ==
    /\ Goto("lines", "configure")
    /\ UNCHANGED <<parsed, given, dhcp>>

-----------------------------------------------------------------------------

(* Without an address nothing is handed on. *)
ConfigureNetwork ==
    /\ Goto("configure", "network")
    /\ given' = IF have["ipaddress"]
                THEN [key \in Keys |-> IF have[key] THEN address[key] ELSE None]
                ELSE given
    /\ UNCHANGED <<parsed, dhcp>>

(* CNetSubSystem::Initialize() uses DHCP unless its configuration holds an *)
(* address; whether 0.0.0.0 is one is its business.                        *)
NetInitialize ==
    /\ \/ Goto("network", "halted") /\ UNCHANGED dhcp
       \/ /\ Goto("network", "wait")
          /\ dhcp' \in IF given["ipaddress"] = None THEN {TRUE}
                       ELSE IF given["ipaddress"] = [i \in 1..4 |-> 0] THEN BOOLEAN
                       ELSE {FALSE}
    /\ UNCHANGED <<parsed, given>>

(* IsRunning(): the link is up, or the lease is there.  There is no        *)
(* deadline.                                                               *)
WaitForNetwork ==
    /\ Goto("wait", "run")
    /\ UNCHANGED <<parsed, given, dhcp>>

Next ==
    \/ Devices \/ OpenConfig
    \/ \E line \in Lines : ReadLine(line)
    \/ EndOfFile \/ ConfigureNetwork \/ NetInitialize \/ WaitForNetwork

Spec == Init /\ [][Next]_vars

-----------------------------------------------------------------------------

(* Every variable has its type.                                            *)
TypeOK ==
    /\ pc \in {"devices", "card", "lines", "configure", "network", "wait", "run", "halted"}
    /\ lines \in Seq(Lines)
    /\ inSection \in BOOLEAN
    /\ have \in [Keys -> BOOLEAN]
    /\ address \in [Keys -> [1..4 -> Octets \cup {Garbage}]]
    /\ given \in [Keys -> [1..4 -> Octets \cup {Garbage}] \cup {None}]
    /\ dhcp \in BOOLEAN \cup {None}

(* What a file states, by the lines it has rather than by a loop over      *)
(* them: the section a line is in is named by the last heading above it,   *)
(* and of several addresses for a key the last one counts.                 *)
Heads(h, i) ==
    /\ h < i /\ lines[h].kind = "section"
    /\ \A j \in (h + 1)..(i - 1) : lines[j].kind # "section"

Ours(i) == \E h \in 1..(i - 1) : Heads(h, i) /\ lines[h].ours /\ lines[h].closed

LinesOf(key) ==
    {i \in 1..Len(lines) : lines[i].kind = "setting" /\ lines[i].key = key /\ Ours(i)}

Quad(A) == <<A[1], Dot, A[2], Dot, A[3], Dot, A[4]>>

IsAddress(v) ==
    Len(v) = 7 /\ \A i \in 1..7 : IF i % 2 = 1 THEN v[i] \in Octets ELSE v[i] = Dot

States(i, key) ==
    /\ i \in LinesOf(key) /\ IsAddress(lines[i].value)
    /\ \A j \in LinesOf(key) : j > i => ~IsAddress(lines[j].value)

(* A line after the one that counts looks like an address at first, so     *)
(* octets of it are stored.                                                *)
Torn(key) ==
    \E i \in LinesOf(key) :
        /\ ~IsAddress(lines[i].value) /\ StoresOctet(lines[i].value, 1)
        /\ \A j \in LinesOf(key) : IsAddress(lines[j].value) => j < i

(* The network is brought up with what the file states: each key with its  *)
(* last address in a [rapi-bootloader] section, and only if there is one   *)
(* for ipaddress, else all is left to DHCP.  Nothing comes from a key that *)
(* is not there, from another section, or from bytes nobody wrote.  A key  *)
(* with a later line that is torn is excused.                              *)
NetworkGetsStated ==
    LET static == \E i \in 1..Len(lines) : States(i, "ipaddress")
        stated(key) == \E i \in 1..Len(lines) :
                          States(i, key) /\ lines[i].value = Quad(given[key])
    IN
    pc \in {"wait", "run"} =>
        IF ~static THEN dhcp /\ given = [key \in Keys |-> None]
        ELSE \A key \in Keys :
                /\ ~Torn(key) =>
                     \/ stated(key)
                     \/ /\ \A i \in 1..Len(lines) : ~States(i, key)
                        /\ given[key] = IF key = "netmask" THEN DefaultMask ELSE None
                /\ given[key] # None => given[key] \in Addresses
                /\ dhcp => given["ipaddress"] = [i \in 1..4 |-> 0]

(* netconfig.cpp: ParseAddress() "Returns FALSE on anything that is not    *)
(* four numbers of 0..255 separated by dots, so a typo is ignored rather   *)
(* than turned into some other machine's address".                         *)
TypoIgnored ==
    pc \in {"wait", "run"} =>
        \A key \in Keys :
            \/ given[key] = IF key = "netmask" /\ given["ipaddress"] # None THEN DefaultMask ELSE None
            \/ \E i \in LinesOf(key) : lines[i].value = Quad(given[key])

=============================================================================

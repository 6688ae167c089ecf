------------------------------ MODULE MCLibrary ------------------------------
(***************************************************************************)
(* OOCore beside the session and its dispatch: stubs and proxies of a      *)
(* channel, a call through the wire, a call between modules of a process   *)
(* and the shims of an object it hands over, and the values: strings,      *)
(* casts, formatters and numbers in a format. They share no state, so a    *)
(* behaviour is one of one of them, the others resting.                    *)
(***************************************************************************)
EXTENDS ProxyStub, Sequences, SequencesExt

CONSTANTS t1, t2, h1, h2, h3, MaxParams, MaxValue, MaxCalls, Local, MaxLen, MaxChanges,
          MaxCasts, MaxPieces,
          Threads, Modules, Home, Stubs, ShimProxies   \* of the shims

ASSUME ShimAssumption ==
    /\ Home \in Modules
    /\ Stubs \subseteq Nat \ {0} /\ ShimProxies \subseteq Nat \ {0}
    /\ MaxCalls \in Nat

VARIABLES part,
    sig, passed, vals, impl, request, reply, callAt, callI, late, prior, sent, freed, taken,
    core, params, mine, safe, theirs, refs, step, safeAt, before, left, broken, misused,
    object, stubs, proxies, holders, todo, shim, holds, wired, closed, calls,
    handles, nodes, doing, want, changes,
    value, original, answer, sure, casts,
    format, handle, args,
    number, picture, text

\* Methods of up to MaxParams parameters of every kind and direction.
Calls == INSTANCE Marshalling WITH at <- callAt, i <- callI
Safe == INSTANCE SafeTypes WITH at <- safeAt

\* An object of module Home in the hands of threads.
Shims == INSTANCE SafeShims WITH Proxies <- ShimProxies, late <- closed

\* Two strings of one thread and one of another, that share three nodes.
Strs == INSTANCE Strings WITH
    Threads <- {t1, t2}, Handles <- {h1, h2, h3}, Nodes <- {1, 2, 3},
    Owner <- [h \in {h1, h2, h3} |-> IF h = h3 THEN t2 ELSE t1], Chars <- {1, 2}

Casts == INSTANCE AnyCast WITH kept <- sure

\* Text, places in and out of order, with an alignment and a format, and braces.
Forms == INSTANCE Formatter WITH
    Pieces <- {<<"x">>, <<"{", "0", "}">>, <<"{", "1", "}">>, <<"{", "2", ",", "-", "9", ":", "y", "}">>,
               <<"{", "1", ",", "2", "}">>, <<"{", "{">>, <<"}">>, <<"{">>, <<"{", ",", "}">>}

\* Integers of as many digits as a picture of four places has, fewer and more.
Nums == INSTANCE NumberFormat WITH
    value <- number, format <- picture,
    Values <- {0, 7, 12, -12, 123, -123, -1204, 1234, 100567},
    Pictures <- SeqOf({"#", "0", ".", ",", "["}, 4) \ {<<>>},
    Locales <- [posn : 0..4, cs_precedes : BOOLEAN, sep_by_space : BOOLEAN],
    Precisions <- {-1, 0, 3}

callsVars == <<sig, passed, vals, impl, request, reply, callAt, callI, late, prior, sent, freed, taken>>
safeVars == <<core, params, mine, safe, theirs, refs, step, safeAt, before, left, broken, misused>>
shimsVars == <<object, stubs, proxies, holders, todo, shim, holds, wired, closed, calls>>
strsVars == <<handles, nodes, doing, want, changes>>
castsVars == <<value, original, answer, sure, casts>>
formsVars == <<format, handle, args>>
numsVars == <<number, picture, text>>

Rests ==
    /\ part # "calls" => sig = <<>> /\ passed = <<>> /\ vals = <<>> /\ impl = <<>> /\ request = <<>>
                         /\ reply = <<>> /\ callAt = "" /\ callI = 0 /\ late = "no" /\ prior = {}
                         /\ sent = <<>> /\ freed = <<>> /\ taken = <<>>
    /\ part # "safe" => core = "" /\ params = <<>> /\ mine = <<>> /\ safe = <<>> /\ theirs = <<>>
                        /\ refs = <<>> /\ step = "" /\ safeAt = 0 /\ before = <<>> /\ left = <<>>
                        /\ broken = FALSE /\ misused = FALSE
    /\ part # "casts" => value = <<>> /\ original = 0 /\ answer = <<>> /\ sure = FALSE /\ casts = 0
    /\ part # "formatter" => format = <<>> /\ handle = <<>> /\ args = 0
    /\ part # "numbers" => number = 0 /\ picture = <<>> /\ text = <<>>

LibraryInit ==
    /\ part \in {"refs", "calls", "safe", "shims", "strings", "casts", "formatter", "numbers"}
    /\ Init /\ Shims!Init /\ Strs!Init
    /\ Rests
    /\ part = "calls" => Calls!Init
    /\ part = "safe" => Safe!Init
    /\ part = "casts" => Casts!Init
    /\ part = "formatter" => Forms!Init
    /\ part = "numbers" => Nums!Init

LibraryNext ==
    \/ /\ part = "refs" /\ Next
       /\ UNCHANGED <<part, callsVars, safeVars, shimsVars, strsVars, castsVars, formsVars, numsVars>>
    \/ /\ part = "calls" /\ Calls!Next
       /\ UNCHANGED <<part, vars, safeVars, shimsVars, strsVars, castsVars, formsVars, numsVars>>
    \/ /\ part = "safe" /\ Safe!Next
       /\ UNCHANGED <<part, vars, callsVars, shimsVars, strsVars, castsVars, formsVars, numsVars>>
    \/ /\ part = "shims" /\ Shims!Next
       /\ UNCHANGED <<part, vars, callsVars, safeVars, strsVars, castsVars, formsVars, numsVars>>
    \/ /\ part = "strings" /\ Strs!Next
       /\ UNCHANGED <<part, vars, callsVars, safeVars, shimsVars, castsVars, formsVars, numsVars>>
    \/ /\ part = "casts" /\ Casts!Next
       /\ UNCHANGED <<part, vars, callsVars, safeVars, shimsVars, strsVars, formsVars, numsVars>>
    \/ /\ part = "formatter" /\ Forms!Next
       /\ UNCHANGED <<part, vars, callsVars, safeVars, shimsVars, strsVars, castsVars, numsVars>>
    \/ /\ part = "numbers" /\ Nums!Next
       /\ UNCHANGED <<part, vars, callsVars, safeVars, shimsVars, strsVars, castsVars, formsVars>>

LibrarySpec ==
    /\ LibraryInit
    /\ [][LibraryNext]_<<part, vars, callsVars, safeVars, shimsVars, strsVars, castsVars, formsVars, numsVars>>
    /\ Fairness

\* Each part is of its type.
LibraryTypeOK ==
    /\ part = "refs" => TypeOK
    /\ part = "calls" => Calls!TypeOK
    /\ part = "safe" => Safe!TypeOK
    /\ part = "shims" => Shims!TypeOK
    /\ part = "strings" => Strs!TypeOK
    /\ part = "casts" => Casts!TypeOK

\* Each of these is what its part's module says of it.
CallsCarryWhatTheyName == part = "calls" => Calls!CallsCarryWhatTheyName
PassedWhole == part = "safe" => Safe!PassedWhole
ShimsAreOne == part = "shims" => Shims!ShimsAreOne
ValuesAreExact ==
    /\ part = "strings" => Strs!StringsAreValues
    /\ part = "casts" => Casts!CastsAreExact
    /\ part = "formatter" => Forms!ArgumentsInPlace
    /\ part = "numbers" => Nums!NumbersAreShown
==============================================================================

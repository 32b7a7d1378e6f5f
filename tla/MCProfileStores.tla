--------------------------- MODULE MCProfileStores --------------------------
(* An instance of ProfileStores for TLC: two windows and a private one.    *)
EXTENDS ProfileStores

CONSTANTS w1, w2, p, google, bing, close, key1, key2

MCWindows == {w1, w2, p}
MCPrivate == {p}
MCNames == {google, bing}
MCOffered == <<google, bing>>
MCActions == {close}
MCChords == {key1, key2}
MCPreset == [a \in MCActions |-> key1]

(* retain keeps the others in their order.                                 *)
ASSUME RetainAssumption ==
         \A q \in Lists(MCChords \cup MCNames), x \in MCChords \cup MCNames :
           Without(q, x) = SelectSeq(q, LAMBDA y : y # x)
=============================================================================

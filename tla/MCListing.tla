----------------------------- MODULE MCListing ------------------------------
(* Small instances of Listing for TLC: keys in and out of a folder.          *)
EXTENDS Listing

MCCode == [x \in {"/", "A", "_", "a", "b"} |->
            CASE x = "/" -> 47 [] x = "A" -> 65 [] x = "_" -> 95 [] x = "a" -> 97 [] x = "b" -> 98]
MCFold == [x \in DOMAIN MCCode |-> IF x = "A" THEN "a" ELSE x]

MCKeys == {<<"a">>, <<"a", "/", "a">>, <<"a", "a">>, <<"a", "b">>, <<"a", "b", "/", "a">>}
MCPrefix == <<"a">>
MCDelimiter == "/"
MCStartAfters == {None, <<"a">>}
MCPartNumbers == 1 .. 4
AllKinds == {"objects", "versions", "parts", "uploads", "rm", "rb", "names", "audit", "deliveries"}

UnderscoreKeys == {<<"a", "_">>, <<"a", "b">>}
UnderscorePrefix == <<"a", "_">>
RemoveOnly == {"rm"}
=============================================================================

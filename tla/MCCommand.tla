------------------------------ MODULE MCCommand ------------------------------
(* A small instance of Command.tla for TLC. *)
EXTENDS Command

\* Model names, and an operation, a field and a group of a database.
ET == [base |-> "ET", series |-> 0]
XP == [base |-> "XP", series |-> 0]
Op(families, addr, reset) == [families |-> families, addr |-> addr, reset |-> reset]
Group(names, low, high, mem) ==
    [names |-> names, low |-> low, high |-> high, widths |-> {1}, key |-> 8, mem |-> mem,
     fields |-> <<[first |-> high, last |-> high, encoding |-> "u8", sensitive |-> TRUE]>>]

\* A group whose declared resets name an address twice and leave one undeclared.
Plain == Group({ET, XP}, 1, 2, <<Op({"waste"}, <<1>>, <<1>>), Op({"platen"}, <<2>>, <<0>>),
                                 Op({"waste", "platen"}, <<2, 1>>, <<1, 0>>),
                                 Op({"waste"}, <<2>>, <<>>)>>)
\* A later group for the same model, with a reset outside of its range.
Later == Group({ET}, 0, 1, <<Op({"waste"}, <<1, 2>>, <<1, 1>>)>>)
\* A group that does not load: one reset byte for two addresses.
Malformed == Group({XP}, 0, 2, <<Op({"waste"}, <<0, 1>>, <<1>>)>>)
MCDatabases == {<<Plain>>, <<Plain, Later>>, <<Plain, Malformed>>}

Entry(key, value) == [key |-> key, value |-> value]
\* A name with " Series", a short and a long field that differ, another model,
\* and an identifier with an entry that has no key.
MCIdentities == {<<Entry("MDL", [base |-> "ET", series |-> 1])>>,
                 <<Entry("MDL", XP), Entry("MODEL", ET)>>,
                 <<Entry("MDL", ET), Entry("MDL", XP)>>,
                 <<Entry("MDL", ET), Entry("", ET)>>}
MCNames == {ET, [base |-> "PM", series |-> 0]}

\* A complete environment of version 3 and what can be wrong with it.
Complete == [HOST |-> "set", PORT |-> Unset, VERSION |-> "3", COMMUNITY |-> Unset,
             USERNAME |-> "set", AUTH_PROTOCOL |-> "set", AUTH_PASSWORD |-> "set",
             PRIVACY_PROTOCOL |-> "set", PRIVACY_PASSWORD |-> "set"]
MCEnvironments ==
    {Complete, [Complete EXCEPT !["PORT"] = Bad], [Complete EXCEPT !["USERNAME"] = ""],
     [Complete EXCEPT !["AUTH_PROTOCOL"] = Bad],
     [Complete EXCEPT !["VERSION"] = "2c", !["COMMUNITY"] = "set"]}
      \cup {[Complete EXCEPT ![n] = Unset] : n \in ProtectionVariables}
      \cup {[n \in DOMAIN Complete |->
               IF n \in ProtectionVariables \ AuthPair THEN none ELSE Complete[n]] :
               none \in {Unset, NotUnicode}}

MCUpdateLists == {<<<<1, 1>>>>, <<<<2, 0>>, <<1, 1>>>>, <<<<1, 1>>, <<1, 0>>>>, <<<<0, 1>>>>}
MCAddressLists == {<<1>>, <<2, 1>>, <<1, 1>>, <<0>>}
MCImages == {<<1, 1>>, <<1>>}
=============================================================================

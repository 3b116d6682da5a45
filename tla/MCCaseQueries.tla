---------------------------- MODULE MCCaseQueries ----------------------------
(***************************************************************************)
(* An instance of CaseQueries for TLC.  Package p has items of two types   *)
(* and associations within itself; x is a crosswalk without items, into p  *)
(* and to an item that nobody has.  p may lose its last item, x may be     *)
(* withdrawn.                                                              *)
(***************************************************************************)
EXTENDS CaseQueries

Item(id, type) == [identifier |-> id, CFItemType |-> type]
Association(id, origin, destination, type) ==
    [identifier |-> id, origin |-> origin, destination |-> destination, associationType |-> type]

Items == <<Item("i1", "Skill"), Item("i2", "Task"), Item("i3", "Skill"), Item("i4", "Skill")>>
Links == <<Association("a1", "i1", "i2", "isChildOf"), Association("a2", "i3", "i1", "isChildOf"),
           Association("a3", "i4", "i1", "isRelatedTo")>>
Crossings == <<Association("b1", "i3", "gone", "exactMatchOf")>>

P == [CFItems |-> Items, CFAssociations |-> Links]
Shorter == [CFItems |-> SubSeq(Items, 1, 3), CFAssociations |-> SubSeq(Links, 1, 2)]
X == [CFItems |-> <<>>, CFAssociations |-> Crossings]

MCVersions == [id \in PackageIds |-> IF id = "p" THEN {P, Shorter} ELSE {X, Absent}]
MCFrameworks == [title \in {"P"} |-> "p"]

ItemQuery(id, title, type, limit) ==
    [field |-> "cfItems", packageId |-> id, framework |-> title, limit |-> limit,
     filter |-> [itemType |-> type]]
AssociationQuery(id, title, origin, destination, type, limit) ==
    [field |-> "cfAssociations", packageId |-> id, framework |-> title, limit |-> limit,
     filter |-> [originId |-> origin, destinationId |-> destination, associationType |-> type]]

MCQueries ==
    {ItemQuery("p", Absent, type, limit) : type \in {Absent, "Skill"}, limit \in {Absent, 1, 3}}
    \cup {ItemQuery("x", "P", Absent, Absent), ItemQuery(Absent, "P", "Task", -1),
          ItemQuery(Absent, Absent, "Skill", 0),
          AssociationQuery("x", Absent, Absent, "gone", Absent, 2),
          AssociationQuery("p", Absent, Absent, "i1", "isChildOf", 2),
          AssociationQuery("p", Absent, "i1", Absent, Absent, Absent)}
    \cup {AssociationQuery(Absent, "P", Absent, Absent, Absent, limit) : limit \in {Absent, 1, 3}}
=============================================================================

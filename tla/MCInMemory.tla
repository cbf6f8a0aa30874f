----------------------------- MODULE MCInMemory -----------------------------
(* Small instances of the in-memory repository for TLC: two record types,   *)
(* child and parent.                                                        *)
EXTENDS InMemoryProperties

Symmetry == Permutations(Procs) \cup Permutations(GenIds) \cup Permutations(Keys)

Tabular == <<[class |-> "tabular", draws |-> Draws]>>

Rel(from, to, required) == [from |-> from, to |-> to, required |-> required]

ChildId == <<"child", "id">>
ChildRef == <<"child", "ref">>
ParentId == <<"parent", "id">>
ParentRef == <<"parent", "ref">>
Cells == {ChildId, ChildRef, ParentId, ParentRef}

Drawing(type, draw) == [type |-> type, draw |-> draw, listed |-> {}]

Listing(type, values) == [type |-> type, draw |-> "constant", listed |-> values]

Strings == Drawing("string", "default")

Usual == [plan |-> <<"parent", "child">>, count |-> [child |-> 2, parent |-> 1],
          dest |-> [child |-> "child", parent |-> "parent"],
          keys |-> [child |-> {"id"}, parent |-> {"id"}],
          spec |-> [cell \in Cells |-> Strings],
          relations |-> <<Rel(ChildRef, ParentId, TRUE)>>,
          unique |-> {ParentId, ChildId}, nullable |-> {}]

\* The seed draws NULL in the first row of what is nullable, and goes through the
\* values that are listed in turn.
Content(contract, seed) ==
    LET Pick(cell) == LET list == SetToSeq(contract.spec[<<cell[1], cell[2]>>].listed)
                      IN  list[((cell[3] - 1) % Len(list)) + 1]
        picks == UNION {{<<field[1], field[2], i>> : i \in 1 .. contract.count[field[1]]} :
                           field \in {f \in DOMAIN contract.spec : contract.spec[f].listed # {}}}
        nulls == {<<field[1], field[2], 1>> : field \in contract.nullable}
                 \cup {cell \in picks : Pick(cell) = None}
    IN  [contract |-> contract, seed |-> seed, class |-> "tabular", oversize |-> FALSE,
         nulls |-> nulls, picked |-> [cell \in picks \ nulls |-> Pick(cell)]]

ChildOfParent == {[from |-> ChildRef, to |-> ParentId]}

Catalog == [types |-> [cell \in Cells |-> "string"], required |-> Cells,
            unique |-> {ChildId, ParentId}, foreign |-> ChildOfParent]

One(contract, of, seeds) ==
    [catalog |-> of, contents |-> {Content(contract, "seed")}, threads |-> 1, seeds |-> seeds]

-----------------------------------------------------------------------------
(* One contract *)

\* A child refers to its parent by a field or by its key (one to one), to
\* another child, or to a parent's own reference; a parent to another parent.
\* A relation is required where its field is not nullable: at such a field an
\* optional one is checked alike.
References ==
    {<<ChildRef, ParentId>>, <<ChildRef, ChildId>>, <<ChildId, ParentId>>,
     <<ParentRef, ParentId>>, <<ChildRef, ParentRef>>}

Relations(nullable) == {Rel(r[1], r[2], r[1] \notin nullable) : r \in References}

Related ==
    UNION {{[Usual EXCEPT !.count = [child |-> n[1], parent |-> n[2]], !.relations = rels,
                          !.unique = {ParentId} \cup unique, !.nullable = nullable] :
               n \in {<<1, 2>>, <<2, 1>>, <<2, 2>>},
               rels \in {<< >>} \cup {<<r>> : r \in Relations(nullable)}
                       \cup {<<r, q>> : r \in Relations(nullable), q \in Relations(nullable)},
               unique \in {{ChildId}, {ChildId, ParentRef}, {ChildId, ChildRef}, {ParentRef}}} :
           nullable \in {{}, {ChildRef}, {ChildRef, ParentRef}}}

\* A value of the field's type and one of another, as a constant and in a choice
\* of two, and NULL.
Lists(type) ==
    {{<<ty, 1>>} : ty \in {type, "integer", "string"}}
    \cup {{<<type, 1>>, value} : value \in {<<type, 2>>, <<"boolean", 1>>, None}}
    \cup {{None}}

Specs == UNION {{Drawing(type, draw) : draw \in Draws \ {"constant"}}
                \cup {Listing(type, values) : values \in Lists(type)} : type \in Types}

\* Every type with every distribution, of a key and of what refers to it.
Drawn ==
    {[Usual EXCEPT !.count = [child |-> 2, parent |-> 2],
                   !.spec = [cell \in Cells |->
                       IF cell \in {ParentId, ChildRef} THEN spec ELSE Strings]] : spec \in Specs}

\* ... and what is listed of a field that is no key, and may be NULL.
Picked ==
    {[Usual EXCEPT !.count = [child |-> 2, parent |-> 2], !.nullable = nullable,
                   !.spec[ParentRef] = spec] :
        spec \in {s \in Specs : s.draw = "constant"}, nullable \in {{}, {ParentRef}}}

\* ... and of a field that refers to itself, which keeps its values.
Reflexive == {[d EXCEPT !.relations = <<Rel(ParentId, ParentId, TRUE)>>] : d \in Drawn}

TypedAs(type) == [Catalog EXCEPT !.types = [cell \in Cells |->
                     IF cell \in {ParentId, ChildRef} THEN type ELSE "string"]]

\* Keys of one or both fields.
Keyed ==
    {[Usual EXCEPT !.keys = [child |-> c, parent |-> p], !.unique = {ParentId} \cup u,
                   !.count = [child |-> 2, parent |-> n]] :
        c \in {{"id"}, {"ref"}, Fields}, p \in {{"id"}, {"ref"}}, u \in {{}, {ChildId}}, n \in {1, 2}}

\* Two record types in one table.
Shared == {[Usual EXCEPT !.dest = [child |-> "parent", parent |-> "parent"]],
           [Usual EXCEPT !.dest = [child |-> "parent", parent |-> "parent"],
                         !.relations = <<Rel(ChildId, ParentId, TRUE)>>, !.count["child"] = 1],
           [Usual EXCEPT !.dest = [child |-> "child", parent |-> "child"], !.relations = << >>],
           [Usual EXCEPT !.dest = [child |-> "parent", parent |-> "parent"],
                         !.keys = [child |-> {"id"}, parent |-> {"ref"}],
                         !.relations = <<Rel(ChildRef, ParentRef, TRUE)>>,
                         !.unique = {ParentId, ChildId, ParentRef}]}

\* Its second record type names a table the catalog does not have.
Stray == [Usual EXCEPT !.dest = [child |-> "stray", parent |-> "parent"]]

\* A parent's reference is NULL in its first row, and referred to.
Dangling == [Usual EXCEPT !.relations = <<Rel(ChildRef, ParentRef, FALSE)>>,
                          !.unique = {ParentId, ChildId, ParentRef},
                          !.nullable = {ParentRef, ChildRef},
                          !.count = [child |-> 2, parent |-> 2]]

\* Children refer to children.
Siblings == [Usual EXCEPT !.relations = <<Rel(ChildRef, ChildId, TRUE)>>]

\* A child that refers to nothing.
Orphan ==
    [plan |-> <<"child">>, count |-> [child |-> 1], dest |-> [child |-> "child"],
     keys |-> [child |-> {"id"}], spec |-> [cell \in {ChildId, ChildRef} |-> Strings],
     relations |-> << >>, unique |-> {ChildId}, nullable |-> {ChildRef}]

\* Nothing is required; a key may be NULL and referred to; an application's
\* column that no field fills; rows of a table refer to each other.
OtherCatalogs ==
    {[Catalog EXCEPT !.unique = {}, !.foreign = {}, !.required = {}],
     [Catalog EXCEPT !.required = {}],
     [Catalog EXCEPT !.unique = @ \cup {ParentRef}, !.foreign = {[from |-> ChildRef, to |-> ParentRef]}],
     [Catalog EXCEPT !.unique = @ \cup {ParentRef}, !.foreign = {[from |-> ChildRef, to |-> ParentRef]},
                     !.required = {ChildId, ParentId}],
     [Catalog EXCEPT !.required = @ \cup {<<"child", "extra">>}],
     [Catalog EXCEPT !.required = {ChildId, ParentId},
                     !.foreign = {[from |-> ChildRef, to |-> ChildId]}]}

Singles ==
    {One(c, Catalog, FALSE) : c \in {d \in Related : ValidContract(d)}}
    \cup {One(c, TypedAs(type), FALSE) : c \in {d \in Drawn \cup Reflexive : ValidContract(d)}, type \in {"string", "integer"}}
    \cup {One(c, of, TRUE) : c \in Keyed \cup Shared \cup {Stray, Dangling, Siblings, Orphan},
                             of \in {Catalog} \cup OtherCatalogs}
    \cup {One(c, [Catalog EXCEPT !.types[ParentRef] = c.spec[ParentRef].type], FALSE) : c \in Picked}

-----------------------------------------------------------------------------
(* Two contents, two threads *)

\* A child's key is its parent's, and another child refers to it.
Chain == [Usual EXCEPT !.count = [child |-> 2, parent |-> 2],
                       !.relations = <<Rel(ChildId, ParentId, TRUE), Rel(ChildRef, ChildId, TRUE)>>]

\* The usual contract beside another: another seed, too many bytes, the same
\* seed, an unknown table, a class no provider has.
Pairs ==
    {[catalog |-> Catalog, contents |-> {Content(Usual, "seed"), other},
      threads |-> 2, seeds |-> TRUE] :
        other \in {Content(Usual, "other"), Content(Chain, "seed"), Content(Stray, "other"),
                   [Content(Usual, "other") EXCEPT !.oversize = TRUE],
                   [Content(Usual, "other") EXCEPT !.class = "graph"]}}

\* Keys that are counted: another seed's rows have them too, and rows of a
\* contract without parents refer to them.
Counted == [Usual EXCEPT !.spec = [cell \in Cells |-> IF cell \in {ParentId, ChildRef}
                                      THEN Drawing("integer", "sequence") ELSE Strings]]

OnlyChildren == [Orphan EXCEPT !.spec = [cell \in {ChildId, ChildRef} |-> Counted.spec[cell]],
                               !.nullable = {}]

Others ==
    {[catalog |-> TypedAs("integer"), contents |-> {Content(Counted, "seed"), Content(c, "other")},
      threads |-> 1, seeds |-> TRUE] : c \in {Counted, OnlyChildren}}
    \cup {[catalog |-> [Catalog EXCEPT !.unique = @ \cup {ParentRef}, !.required = {},
                                      !.foreign = {[from |-> ChildRef, to |-> ParentRef]}],
           contents |-> {Content(Dangling, "seed"), Content(Dangling, "other")},
           threads |-> 1, seeds |-> TRUE]}

AllScenes == Singles \cup Pairs \cup Others
=============================================================================

------------------------------ MODULE TagGraph ------------------------------
(***************************************************************************)
(* The tag hierarchy of api/tag_import.py: from the records of a tag dump  *)
(* to the tags of every card, with those of all broader categories.        *)
(*                                                                         *)
(* A tag is a record [id, slug, parents, tags]: the ids of its parents,    *)
(* of which some may not be in the dump, and the oracle ids it is put on.  *)
(***************************************************************************)
EXTENDS Integers, Sequences, FiniteSets, SequencesExt

UuidToSlug(tags) ==
  [id \in {tags[i].id : i \in DOMAIN tags} |->
     LET is == {i \in DOMAIN tags : tags[i].id = id} IN tags[CHOOSE i \in is : \A j \in is : j <= i].slug]

(* The parents of a slug are those of the last record whose id has it.     *)
Slugs(tags) == {tags[i].slug : i \in DOMAIN tags}
ParentSlugs(tags, slug) ==
  LET is == {i \in DOMAIN tags : UuidToSlug(tags)[tags[i].id] = slug}
      last == {i \in is : \A j \in is : j <= i}
  IN {UuidToSlug(tags)[p] : p \in (UNION {tags[i].parents : i \in last}) \cap DOMAIN UuidToSlug(tags)}

(* _build_all_ancestors: a walk from the parents that visits every slug    *)
(* once, so that it ends on a cycle too, after at most as many visits as   *)
(* there are slugs.                                                        *)
Visit(tags, walk) ==
  LET current == CHOOSE s \in walk.queue : TRUE
      visited == walk.visited \cup {current}
  IN IF walk.queue = {} THEN walk
     ELSE [queue |-> (walk.queue \ {current}) \cup (ParentSlugs(tags, current) \ visited), visited |-> visited]

Visits(tags, slug) ==
  LET after[n \in 0 .. Cardinality(Slugs(tags))] ==
        IF n = 0 THEN [queue |-> ParentSlugs(tags, slug) \ {slug}, visited |-> {slug}] ELSE Visit(tags, after[n - 1])
  IN after

(* Mutant of Ancestors: only parents and grandparents.                     *)
AncestorsTwoLevels(tags, slug) ==
  LET parents == ParentSlugs(tags, slug)
  IN (parents \cup UNION {ParentSlugs(tags, p) : p \in parents}) \ {slug}

Ancestors(tags, slug) == Visits(tags, slug)[Cardinality(Slugs(tags))].visited \ {slug}

(* import_oracle_tags: by card, each tag it has and the tag's ancestors.   *)
IdToTags(tags) ==
  LET on(i) == {tags[i].slug} \cup Ancestors(tags, tags[i].slug)
  IN [o \in UNION {tags[i].tags : i \in DOMAIN tags} |->
        UNION {on(i) : i \in {j \in DOMAIN tags : o \in tags[j].tags}}]

(* _sync_hierarchy: the pairs that go to the relationships table, whose    *)
(* trigger refuses a cycle (check_circular_reference looks a hundred steps *)
(* far, here any), and whose tags are a primary key.                       *)
HierarchyPairs(tags) ==
  UNION {{<<tags[i].slug, UuidToSlug(tags)[p]>> : p \in tags[i].parents \cap DOMAIN UuidToSlug(tags)} : i \in DOMAIN tags}
Related(tags) == {pair \in HierarchyPairs(tags) : pair[1] # pair[2]}
Joined(q) == q \cup {<<ab[1][1], ab[2][2]>> : ab \in {pq \in q \X q : pq[1][2] = pq[2][1]}}
Joins(tags) ==
  LET r[n \in 0 .. Len(tags)] == IF n = 0 THEN Related(tags) ELSE Joined(r[n - 1])
  IN r
Broader(tags) == Joins(tags)[Len(tags)]
Distinct(tags) == Cardinality(Slugs(tags)) = Len(tags)
Accepted(tags) == Distinct(tags) /\ \A s \in Slugs(tags) : <<s, s>> \notin Broader(tags)
=============================================================================

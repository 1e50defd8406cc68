------------------------- MODULE MC_OrchestrationV2 -------------------------
(* Small task graphs for OrchestrationV2. *)
EXTENDS OrchestrationV2, TLC

CONSTANTS s, k, c, a, i, u1, u2, v, f

(* One chapter of two units, from the published inventory on. *)
UnitTask == {u1, u2, v, f}
UnitKind ==
  (u1 :> "generate_unit") @@ (u2 :> "generate_unit") @@
  (v :> "validate_chapter") @@ (f :> "finalize_course")
UnitDeps == (u1 :> {}) @@ (u2 :> {}) @@ (v :> {u1, u2}) @@ (f :> {v})
UnitScopes == {{u1}, {u2}, {u1, u2}}

(* max_attempts of the tasks: a retry matters most for units, whose first  *)
(* attempt may have been paid for.                                         *)
FirstUnitTwice == [t \in Task |-> IF t = u1 THEN 2 ELSE 1]
UnitsTwice == [t \in Task |-> IF Kind[t] = "generate_unit" THEN 2 ELSE 1]

(* The whole pipeline with one task of each kind, from admission on. *)
PipelineTask == {s, k, c, a, i, u1, v, f}
PipelineKind ==
  (s :> "source_snapshot") @@ (k :> "course_skeleton") @@
  (c :> "chapter_blueprint") @@ (a :> "validate_architecture") @@
  (i :> "publish_inventory") @@ (u1 :> "generate_unit") @@
  (v :> "validate_chapter") @@ (f :> "finalize_course")
PipelineDeps ==
  (s :> {}) @@ (k :> {s}) @@ (c :> {k}) @@ (a :> {c}) @@ (i :> {a}) @@
  (u1 :> {i}) @@ (v :> {u1}) @@ (f :> {v})
PipelineScopes == {{u1}}

=============================================================================

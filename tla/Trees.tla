--------------------------------- MODULE Trees ---------------------------------
(***************************************************************************)
(* The trees that YAML and JSON give, and what compiler.service.ts and     *)
(* src/src/compiler/template-resolver.ts do with them at the top: look up, *)
(* the defaults of a schema, spread.  TemplateResolver has what descends   *)
(* into them.                                                              *)
(*                                                                         *)
(* A tree is a leaf, an object, an array, or a string with a placeholder:  *)
(* one that is a placeholder and nothing else ("exact"), or one that has   *)
(* text around it ("mixed").                                               *)
(***************************************************************************)
EXTENDS Naturals, Sequences

Leaf(v) == [is |-> "leaf", value |-> v]
Object(f) == [is |-> "object", at |-> f]
Array(s) == [is |-> "array", items |-> s]
Exact(path) == [is |-> "exact", path |-> path]
Mixed(path) == [is |-> "mixed", path |-> path]
Undefined == [is |-> "undefined"]

\* String(x) of what a mixed placeholder resolves to, in its text.
Text(tree) == [is |-> "text", of |-> tree]

Entry(tree, key) ==
    IF tree.is = "object" /\ key \in DOMAIN tree.at THEN tree.at[key] ELSE Undefined

resolvePath(tree, path) ==
    LET down[i \in 0 .. Len(path)] == IF i = 0 THEN tree ELSE Entry(down[i - 1], path[i])
    IN down[Len(path)]

\* Of a schema only the properties of its top level give defaults.
extractSchemaDefaults(schema) ==
    [k \in {p \in DOMAIN schema.properties : schema.properties[p].default # Undefined} |->
        schema.properties[k].default]

\* {...base, ...override}
spread(base, override) ==
    [k \in DOMAIN base \cup DOMAIN override |->
        IF k \in DOMAIN override THEN override[k] ELSE base[k]]
===============================================================================

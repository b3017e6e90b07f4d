--------------------------- MODULE TemplateResolver ---------------------------
(***************************************************************************)
(* src/src/compiler/template-resolver.ts: deepMerge and substitute, which  *)
(* go down two trees and one, and the placeholders that the latter finds.  *)
(***************************************************************************)
EXTENDS Trees

\* Objects are merged key by key; everything else, arrays too, is replaced.
RECURSIVE deepMerge(_, _)
deepMerge(base, override) ==
    IF base.is = "object" /\ override.is = "object"
    THEN Object([k \in DOMAIN base.at \cup DOMAIN override.at |->
                    CASE k \notin DOMAIN override.at -> base.at[k]
                      [] k \notin DOMAIN base.at -> override.at[k]
                      [] OTHER -> deepMerge(base.at[k], override.at[k])])
    ELSE override

RECURSIVE Placeholders(_)
Placeholders(tree) ==
    CASE tree.is \in {"exact", "mixed"} -> {tree.path}
      [] tree.is = "object" -> UNION {Placeholders(tree.at[k]) : k \in DOMAIN tree.at}
      [] tree.is = "array" -> UNION {Placeholders(tree.items[i]) : i \in DOMAIN tree.items}
      [] OTHER -> {}

\* One pass: what a placeholder resolves to is not looked into, and an exact one keeps
\* the type of its value.
RECURSIVE substitute(_, _)
substitute(tree, variables) ==
    CASE tree.is = "exact" -> resolvePath(variables, tree.path)
      [] tree.is = "mixed" -> Text(resolvePath(variables, tree.path))
      [] tree.is = "object" ->
            Object([k \in DOMAIN tree.at |-> substitute(tree.at[k], variables)])
      [] tree.is = "array" ->
            Array([i \in DOMAIN tree.items |-> substitute(tree.items[i], variables)])
      [] OTHER -> tree
=============================================================================

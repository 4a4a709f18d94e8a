------------------------------ MODULE MCWatcher ------------------------------
(* One library m, with a directory that is ignored and room for renames    *)
(* within the part that is watched; and two roots, one inside the other.   *)
EXTENDS Watcher

CONSTANTS m, a, b, x, f

MCDirPath == {<<m>>, <<m, a>>, <<m, b>>, <<m, a, b>>, <<m, x>>}
MCRootSets == {{}, {<<m>>}}
MCNestedPath == {<<m>>, <<m, a>>}
MCNested == {{<<m>>, <<m, a>>}, {<<m, a>>}, {}}
==============================================================================

-------------------------------- MODULE AST --------------------------------
(***************************************************************************)
(* The abstract syntax tree (AST.cpp): a node has a kind, the type of its  *)
(* value, and sons.  Names and numbers are carried along unchanged and are *)
(* left out; Null is the null pointer.                                     *)
(***************************************************************************)
EXTENDS Sequences, SequencesExt

Node(op, type, sons) == [op |-> op, type |-> type, sons |-> sons]

Null       == Node("null", "void", << >>)
New(op)    == Node(op, "void", << >>)
TypeLeaf(type) == Node("type", type, << >>)
UintLeaf   == Node("uint", "int", << >>)
IdLeaf     == New("var")

insert_son_node(node, son) == IF son = Null THEN node ELSE [node EXCEPT !.sons = Append(@, son)]

(* Sons that are null are left out; NewWith stops at the first of them.    *)
create_contain_node(op, sons) == FoldLeft(insert_son_node, New(op), sons)

NewWith(op, sons) ==
  LET real == {k \in DOMAIN sons : \A j \in 1 .. k : sons[j] # Null}
  IN  Node(op, "void", [k \in real |-> sons[k]])

create_func_def(type, block) ==
  Node("func", type, << TypeLeaf(type), IdLeaf, New("formals"), IF block = Null THEN New("block") ELSE block >>)

create_func_call(name, params) ==
  Node("call", "void", << name, IF params = Null THEN New("params") ELSE params >>)

createVarDeclNode(type) == Node("vardecl", type, << TypeLeaf(type), IdLeaf >>)

(* The statement takes over the type of its first variable, and gives it   *)
(* to those that are added.                                                *)
create_var_decl_stmt_node(first) == Node("decl", first.type, << first >>)

add_var_decl_node(stmt) == insert_son_node(stmt, createVarDeclNode(stmt.type))
=============================================================================

------------------------------- MODULE Parser -------------------------------
(***************************************************************************)
(* The parser (src/src/parser/): the machine of the recursive descent,     *)
(* which is a cursor over the tokens and the few things every parse        *)
(* function does with it (cursor.rs), and every parse function as the      *)
(* sequence of the steps it takes; a step is a tuple whose first component *)
(* names it.  Spans, warnings and message texts are left out.  A node      *)
(* keeps what the syntax tree keeps: names, literals, operators, and the   *)
(* nodes below it; punctuation and the keyword that names the node are     *)
(* implied by its kind.                                                    *)
(*                                                                         *)
(* A token is its spelling.  p.ok is FALSE while a function is returning   *)
(* None, p.kids are the parts of the node under construction, p.fuel       *)
(* bounds the steps of a run, so that a loop that consumes nothing is seen *)
(* (p.fuel = 0) rather than followed for ever.                             *)
(***************************************************************************)
EXTENDS Integers, Sequences, SequencesExt

CONSTANTS
    MaxParseDepth,   \* MAX_PARSE_DEPTH
    ParseFuel        \* bound on the steps of one parse

ASSUME MaxParseDepthIsNat == MaxParseDepth \in Nat

Capitals == {"T", "N"}
Ints == {"1", "2"}
Literals == Ints \cup {"'s'", "true", "false", "none"}
ContextualNames == {"at", "needs", "decreases", "invariant", "test", "module",
                    "python", "link", "c", "asm", "options", "justification"}
Identifiers == Capitals \cup ContextualNames \cup {"x", "y", "f", "_", "self"}

\* The keywords consume_ident accepts as a name.
NameKeywords ==
    {"role", "app", "cli", "command", "task", "flow", "out", "err", "try", "catch",
     "component", "behavior", "from", "use", "import", "view", "mut", "with", "match",
     "decide", "select", "replaces", "val", "packet", "using", "or", "process", "async",
     "await", "extern", "loop", "shared", "where", "class", "own", "type", "require",
     "ensure", "bits", "bit", "bridge"}

\* The keywords parse_primary reads as an identifier.
PrimaryKeywords ==
    {"app", "role", "flow", "task", "cli", "command", "val", "using", "packet", "view",
     "mut", "err", "out", "from", "shared", "where", "class", "own", "type", "require",
     "ensure", "bits", "bit", "bridge"}

SyncPoints ==
    {"class", "fn", "function", "behavior", "component", "role", "enum", "extern",
     "type", "packet", "let", "mut", "if", "for", "while", "return", "}", ";"}

-----------------------------------------------------------------------------
Node(k, v, xs) == [k |-> k, v |-> v, xs |-> xs]
Leaf(k, v) == Node(k, v, <<>>)

Parser_new(toks, lines) ==
    [toks |-> toks, lines |-> lines, cur |-> 1, depth |-> 0, noStruct |-> FALSE,
     errs |-> 0, ok |-> TRUE, kids |-> <<>>, fuel |-> ParseFuel]

peek_ahead(p, k) ==
    IF p.cur + k <= Len(p.toks) THEN p.toks[p.cur + k] ELSE "eof"
peek(p) == peek_ahead(p, 0)
is_at_end(p) == peek(p) = "eof"
check(p, ts) == ~is_at_end(p) /\ peek(p) \in ts

\* previous(): the last token consumed, the first one before any was.
previous(p) ==
    IF p.toks = <<>> THEN "eof" ELSE p.toks[IF p.cur = 1 THEN 1 ELSE p.cur - 1]

Line(p, i) == p.lines[IF i < 1 THEN 1 ELSE IF i > Len(p.lines) THEN Len(p.lines) ELSE i]
SameLine(p) == Line(p, p.cur) = Line(p, p.cur - 1)

Keep(p, node) == [p EXCEPT !.kids = Append(@, node)]
Step(p) == [p EXCEPT !.fuel = @ - 1]
Error(p) == [p EXCEPT !.errs = @ + 1]
Failed_Quiet(p) == [p EXCEPT !.ok = FALSE]
Failed(p) == [Error(p) EXCEPT !.ok = FALSE]

\* advance() stays where it is at the end of the input, so that what it
\* returns there is the token consumed before.
advance(p) == IF is_at_end(p) THEN p ELSE [p EXCEPT !.cur = @ + 1]

RECURSIVE SyncFrom(_)
SyncFrom(p) ==
    IF is_at_end(p) \/ peek(p) \in SyncPoints THEN p ELSE SyncFrom(advance(p))
synchronize_NoAdvance(p) == SyncFrom(p)
synchronize(p) == SyncFrom(advance(p))

\* `>>` in type position closes two lists: it is split in place.
SplitShr(p) ==
    IF check(p, {">>"})
    THEN [p EXCEPT !.toks = SubSeq(@, 1, p.cur - 1) \o <<">", ">">>
                            \o SubSeq(@, p.cur + 1, Len(@)),
                   !.lines = InsertAt(@, p.cur, Line(p, p.cur))]
    ELSE p

\* An operator, a literal or a name that the tree keeps.
LeafOf(t) ==
    IF t \in Literals THEN Leaf("lit", t)
    ELSE IF t \in Identifiers \cup NameKeywords THEN Leaf("id", t)
    ELSE Leaf("op", t)

-----------------------------------------------------------------------------
(* The steps *)

Eat(t) == <<"eat", t>>            \* consume(..)?
EatSoft(t) == <<"eat_soft", t>>   \* let _ = consume(..)
Opt(t) == <<"opt", t>>            \* match_token
Token == <<"token">>              \* advance, and keep the token
Drop == <<"drop">>                \* advance
Ident == <<"ident">>              \* consume_ident(..)?
IfIdent(g) == <<"if_ident", g>>   \* if let Some(_) = consume_ident(..) { g }
GenericClose == <<"close">>       \* consume_generic_close(..)?
NT(n) == <<"nt", n>>              \* parse_n()?
NTOpt(n) == <<"nt_opt", n>>       \* parse_n(), None is no error of the caller
NTElse(n, g, h) == <<"nt_else", n, g, h>> \* if let Some(_) = parse_n() { g } else { h }
Condition == <<"condition">>      \* parse_condition()?
Climb(min) == <<"climb", min>>    \* parse_binary_climbing(min)?
When(test, g, h) == <<"when", test, g, h>>
While(test, g) == <<"while", test, g>>
SepBy(test, sep, g) == <<"sep", test, sep, g>> \* while test { g; if !match(sep) break }
Fail == <<"fail">>                \* error(..); return None
Report == <<"report">>            \* error(..)
Sync == <<"sync">>
ByToken(n) == <<"by", n>>         \* the alternatives of n, by the next token
Wrap(k) == <<"wrap", k>>          \* the parts so far become one node
Kept == <<"keep">>                \* the token just consumed becomes a part
Reject == <<"reject">>            \* return None, with nothing reported
FirstOnly == <<"first">>          \* only the first part goes into the node
NameOnly == <<"name_only">>       \* of the type just read only its name
OneElse == <<"one_else">>         \* the else arm just read replaces an earlier one
TailReturn == <<"tail_return">>

At(ts) == <<"at", ts>>
Before(ts) == <<"before", ts>>    \* !check(ts) && !is_at_end()
Always == <<"always">>
Is(name) == <<"is", name>>        \* a lookahead defined by Parser.tla

-----------------------------------------------------------------------------
(* The parse functions *)
Separators(ts) == While(At(ts), <<Drop>>)
OptType == When(At({":"}), <<Drop, NTOpt("type")>>, <<>>)
ReturnType == When(At({"->"}), <<Drop, NTOpt("type")>>, <<>>)

-----------------------------------------------------------------------------
(* Expressions (expr.rs) *)

pipeline ==
    <<Climb(1),
      When(At({"|>", "then"}),
           <<While(At({"|>", "then"}), <<Drop, Opt("flow"), Climb(1)>>), Wrap("pipeline")>>,
           <<>>),
      When(At({"or"}), <<ByToken("or_recovery")>>, <<>>)>>

arm(body) ==
    <<NT("pattern"), When(At({"if", "when"}), <<Drop, NTOpt("expression")>>, <<>>),
      Eat("=>"), NT(body), Wrap("arm")>>

or_recovery ==
    <<Drop,
      When(At({"{"}),
           <<Drop, While(Before({"}"}), <<NT("or_arm"), Opt(",")>>), Eat("}")>>,
           <<NT("expression")>>),
      Wrap("or")>>

unary ==
    <<When(At({"!", "-", "await"}), <<Token, NT("unary"), Wrap("unary")>>, <<NT("postfix")>>)>>

\* `f<T>(..)`: the type arguments are skipped up to the next `>`.
postfix ==
    <<NT("primary"),
      While(Is("postfix_ahead"),
            <<When(Is("generic_call"),
                   <<Drop, While(Before({">", ">>"}), <<Drop>>), When(At({">"}), <<Drop>>, <<>>)>>,
                   <<ByToken("postfix")>>)>>)>>

\* A cast and a test keep the name of the type alone.
PostfixFor(t) ==
    CASE t = "(" -> <<Drop, When(Is("args_ahead"),
                                 <<SepBy(Always, ",", <<NT("expression")>>)>>, <<>>),
                      Eat(")"), Wrap("call")>>
      [] t = "." -> <<Drop, Ident, Wrap("member")>>
      [] t = "[" -> <<Drop, NT("expression"), Eat("]"), Wrap("index")>>
      [] t \in {"!", "?"} -> <<Token, Wrap("propagate")>>
      [] t = "as" -> <<Drop, When(At({"?", "!"}), <<Token>>, <<>>), NT("type_name"), Wrap("cast")>>
      [] OTHER -> <<Drop, NT("type_name"), Wrap("is")>>

lambda_tail == <<Drop, NT("lambda_body"), Wrap("lambda")>>

\* A name, `x => ..`, or `T { field: value }`.  In a condition, `T {` is an
\* object only when what follows the brace looks like fields.
ident_or_object ==
    <<When(At({"=>"}), lambda_tail,
       <<When(Is("type_args"),
              <<Token, SepBy(Before({">", ">>"}), ",", <<NTOpt("type")>>), GenericClose>>, <<>>),
         When(Is("object_ahead"),
              <<Drop, While(Before({"}"}), <<Ident, Eat(":"), NT("expression"), Opt(",")>>),
                Eat("}"), Wrap("object")>>,
              <<FirstOnly>>)>>)>>

\* A second else arm takes the place of the first.
decide_expr(k) ==
    <<Eat("{"),
      While(Before({"}"}),
            <<When(At({"else"}), <<NT("else_arm"), OneElse>>, <<NT("decide_arm")>>), Opt(",")>>),
      Eat("}"), Wrap(k)>>

match_expr ==
    <<Condition, Eat("{"), While(Before({"}"}), <<NT("match_arm"), Opt(",")>>),
      Eat("}"), Wrap("match")>>

if_expr ==
    <<Condition, NT("arm_body"),
      While(Is("else_if"), <<Drop, Drop, Condition, NT("arm_body")>>),
      When(At({"else"}), <<Drop, NT("arm_body")>>, <<>>), Wrap("if_expr")>>

map_entry == <<NT("expression"), Eat(":"), NT("expression")>>
map_literal_expr ==
    <<SepBy(Before({"}"}), ",", map_entry), Eat("}"), Wrap("map")>>

count_literal ==
    <<When(Is("negative_literal"), <<Report, Drop, Drop>>,
           <<When(At(Ints), <<Token>>, <<Report>>)>>)>>

more(close, g) == When(At({","}), <<Drop, SepBy(Before({close}), ",", g)>>, <<>>)

bracket_expr ==
    <<When(At({"]"}), <<Drop, Wrap("list")>>,
       <<NT("expression"),
         When(At({";"}), <<Drop>> \o count_literal \o <<Eat("]"), Wrap("repeat")>>,
          <<When(At({":"}),
                 <<Drop, NT("expression"), more("]", map_entry), Eat("]"), Wrap("map")>>,
                 <<more("]", <<NT("expression")>>), Eat("]"), Wrap("list")>>)>>)>>)>>

params_lambda ==
    <<When(Is("plain_params"), <<>>, <<Report>>)>> \o lambda_tail
paren_expr ==
    <<When(At({")"}),
       <<Drop, When(At({"=>"}), lambda_tail, <<Wrap("unit")>>)>>,
       <<NT("expression"),
         When(At({","}),
              <<Drop, SepBy(Before({")"}), ",", <<NT("expression")>>), Eat(")"),
                When(At({"=>"}), params_lambda, <<Wrap("tuple")>>)>>,
              <<Eat(")"), When(At({"=>"}), params_lambda, <<>>)>>)>>)>>


PrimaryFor(t) ==
    CASE t \in Literals -> <<Kept>>
      [] t \in Identifiers -> <<Kept>> \o ident_or_object
      [] t \in PrimaryKeywords -> <<Kept>>
      [] t = "comptime" ->
           <<When(At({"{"}),
                  <<When(Is("block_ahead"), <<NT("arm_block")>>,
                         <<Drop, NT("expression"), EatSoft("}")>>)>>,
                  <<NT("expression")>>), Wrap("comptime")>>
      [] t \in {"wrapping", "saturating"} ->
           <<When(At({"("}), <<Drop, NT("expression"), Eat(")"), Wrap(t)>>, <<Kept>>)>>
      [] t = "decide" -> decide_expr("decide")
      [] t = "select" -> decide_expr("select")
      [] t = "match" -> match_expr
      [] t = "if" -> if_expr
      [] t = "{" -> map_literal_expr
      [] t = "[" -> bracket_expr
      [] t = "(" -> paren_expr
      [] OTHER -> <<Fail>>
primary == <<Drop, ByToken("primary")>>

\* After `=>`: a block, whose trailing `return e` becomes its value, or an
\* expression.  A block with no value has its last statement popped to look
\* at it, and only a return is put back, as the value.
lambda_body ==
    <<When(Is("block_ahead"), <<NT("arm_block"), TailReturn>>, <<NT("expression")>>)>>
LambdaBlock(b) ==
    LET last == b.xs[Len(b.xs)] IN
    IF b.xs = <<>> \/ last.k \in {"expr", "require"} THEN b
    ELSE [b EXCEPT !.xs = Front(@) \o IF last.k = "return"
                                      THEN <<Node("expr", "", last.xs)>> ELSE <<>>]

PatternFor(t) ==
    CASE t \in Literals \cup (Identifiers \ Capitals) -> <<Kept>>
      [] t \in Capitals ->
           <<Kept, When(At({"."}), <<Drop, Ident>>, <<>>),
             When(At({"("}), <<Drop, SepBy(Before({")"}), ",", <<IfIdent(<<>>)>>), Eat(")")>>,
                  <<>>),
             Wrap("variant")>>
      [] t = "-" -> <<When(At(Ints), <<Kept, Token, Wrap("negative")>>, <<Fail>>)>>
      [] OTHER -> <<Fail>>

-----------------------------------------------------------------------------
(* Statements (stmt.rs) *)

statements ==
    While(Before({"}"}),
          <<When(At({";"}), <<Drop>>,
                 <<NTElse("statement", <<Separators({";"})>>, <<Sync>>)>>)>>)
block == <<Eat("{"), statements, Eat("}"), Wrap("block")>>
\* The trailing expression statement of an arm block is its value.
arm_block == <<Eat("{"), statements, Eat("}"), Wrap("arm_block")>>
arm_body == <<When(Is("block_ahead"), <<NT("arm_block")>>, <<NT("expression")>>)>>

binding(k) == <<Drop, Ident, OptType, Eat("="), NT("expression"), Wrap(k)>>
mut_binding ==
    <<When(Is("val_next"), <<Drop>> \o binding("mut_val"), binding("mut"))>>
let_stmt == <<When(Is("mut_next"), <<Drop>> \o mut_binding, binding("let"))>>

over(k) == <<Drop, Ident, Eat("in"), NT("expression"), NT("block"), Wrap(k)>>
body_of(k) == <<Drop, NT("block"), Wrap(k)>>
const_stmt == binding("const")
with_stmt == <<Drop, Ident, Eat("="), NT("expression"), NT("block"), Wrap("with")>>
condition_loop == <<Drop, Condition, NT("block"), Wrap("while")>>

if_stmt ==
    <<Drop, Condition, NT("block"),
      When(At({"else"}),
           <<Drop, When(At({"if"}), <<NTOpt("statement")>>, <<NTOpt("block")>>)>>, <<>>),
      Wrap("if")>>

return_stmt ==
    <<Drop, When(Before({"}", ";"}), <<NTOpt("expression")>>, <<>>), Wrap("return")>>

\* (the message is not kept)
require_stmt ==
    <<Drop, NT("expression"), When(At({","}), <<Drop, Opt("'s'")>>, <<>>), Opt(";"),
      Wrap("require")>>

unsafe_stmt ==
    <<Drop,
      When(At({"("}),
           <<Drop, When(At({"justification"}), <<Drop, Eat(":")>>, <<>>),
             When(At({"'s'"}), <<Token>>, <<Fail>>), Eat(")")>>, <<>>),
      NT("block"), Wrap("unsafe")>>

\* asm! { "..", options: [..] } and the structured asm { mov rax, x }.
asm_stmt ==
    <<Drop, Eat("{"),
      While(At({"'s'", "options"}),
            <<When(At({"'s'"}), <<Token>>,
                   <<Drop, Eat(":"), Eat("["),
                     SepBy(Before({"]"}), ",", <<IfIdent(<<>>)>>), Eat("]")>>), Opt(",")>>),
      Eat("}"), Wrap("asm")>>
structured_asm_block ==
    <<Drop, Eat("{"), While(Before({"}"}), <<When(At({";"}), <<Drop>>, <<Token>>)>>),
      Eat("}"), Wrap("asm")>>

expression_stmt ==
    <<NT("expression"),
      When(At({":="}), <<Drop, Fail>>,
           <<When(At({"="}), <<Drop, NT("expression"), Wrap("assign")>>, <<Wrap("expr")>>)>>)>>

StatementFor(t) ==
    CASE t = "let" -> let_stmt
      [] t = "mut" -> mut_binding
      [] t = "val" -> binding("val")
      [] t = "const" -> const_stmt
      [] t \in {"out", "err"} -> <<Drop, NT("expression"), Wrap(t)>>
      [] t = "require" -> require_stmt
      [] t = "return" -> return_stmt
      [] t = "if" -> if_stmt
      [] t = "try" -> <<Drop, Fail>>
      [] t = "parallel" -> <<When(Is("for_next"), <<Drop>> \o over("parallel_for"),
                                  body_of("parallel"))>>
      [] t = "for" -> over("for")
      [] t \in {"loop", "simd"} -> body_of(t)
      [] t \in {"break", "continue"} -> <<Drop, Opt(";"), Wrap(t)>>
      [] t = "while" -> condition_loop
      [] t = "with" -> with_stmt
      [] t = "unsafe" -> unsafe_stmt
      [] t = "asm!" -> asm_stmt
      [] t = "asm" -> <<When(Is("asm_block"), structured_asm_block, expression_stmt)>>
      [] OTHER -> expression_stmt

-----------------------------------------------------------------------------
(* Types and parameters (types.rs) *)

param ==
    <<When(At({"view", "mut-view", "shared", "own"}), <<Token>>, <<>>),
      When(At({"&"}), <<Token, When(At({"mut"}), <<Token>>, <<>>)>>, <<>>),
      Ident,
      When(Is("self_param"), <<>>, <<Eat(":"), NTOpt("type")>>),
      Wrap("param")>>
param_list ==
    <<When(Is("args_ahead"), <<SepBy(Always, ",", <<NT("param")>>)>>, <<>>), Wrap("params")>>

\* A generic argument is a nested type, or a unit such as m/s.
generic_arg ==
    <<When(At(Identifiers),
           <<When(Is("nested_type"), <<NTOpt("type")>>,
                  <<Token, While(At({"/", "*"}),
                                 <<When(Is("unit_next"), <<Token, Token>>, <<Drop>>)>>)>>)>>,
           <<NTOpt("type")>>)>>

type_inner ==
    <<Ident,
      When(At({"<"}),
           <<Token,
             When(Is("range_ahead"), <<Climb(9)>>,
                  <<SepBy(Before({">", ">>"}), ",", generic_arg)>>),
             GenericClose>>, <<>>),
      When(At({"?"}), <<Token>>, <<>>),
      When(At({"!"}), <<Token, NTOpt("type")>>, <<>>),
      When(Is("in_refinement"),
           <<When(Is("bit_field"), <<>>,
                  <<Drop, Climb(9), When(Is("range_read"), <<>>, <<Report>>)>>)>>,
           <<When(At({"where"}), <<Drop, NT("expression")>>, <<>>)>>),
      Wrap("type")>>

contracts ==
    <<While(At({"require", "ensure"}),
            <<Drop, NTElse("expression", <<When(At({","}), <<Drop, When(At({"'s'"}), <<Token>>, <<>>)>>,
                                                <<>>), Opt(";")>>, <<>>)>>)>>

-----------------------------------------------------------------------------
(* Declarations (decl.rs) *)

attributes ==
    <<While(At({"@"}),
       <<Drop,
         IfIdent(<<When(At({"("}),
            <<Drop,
              SepBy(Before({")"}), ",",
                    <<When(At(Ints \cup {"'s'"}), <<Token>>,
                           <<IfIdent(<<When(At({":"}), <<Drop, Token>>, <<>>)>>)>>)>>),
              EatSoft(")")>>, <<>>)>>)>>)>>

c_import_decl ==
    <<Drop, When(At({"'s'"}), <<Token>>, <<Fail>>),
      When(At({"with"}),
           <<Drop, When(At({"link"}),
                        <<Drop, Eat("("),
                          SepBy(Before({")"}), ",",
                                <<When(At({"'s'"}), <<Token>>, <<Fail>>)>>),
                          Eat(")")>>, <<>>)>>, <<>>),
      Opt(";"), Wrap("c_import")>>

use_decl ==
    <<IfIdent(<<>>),
      When(Is("python_module"), <<IfIdent(<<>>)>>, <<>>),
      While(Is("path_ahead"),
            <<Drop, IfIdent(<<>>)>>),
      When(At({".", "::"}),
           <<Drop, Eat("{"), SepBy(Before({"}"}), ",", <<IfIdent(<<>>)>>), Eat("}")>>, <<>>),
      When(At({"as"}), <<Drop, IfIdent(<<>>)>>, <<>>),
      Wrap("use")>>

at_address == <<When(At({"at"}), <<Drop>>, <<Ident, Fail>>),
                When(At(Ints), <<Token>>, <<Fail>>)>>
register_field == <<Ident, Eat(":"), NT("type")>> \o at_address \o <<Opt(","), Wrap("field")>>
register_decl ==
    <<Ident>> \o at_address
    \o <<Eat("{"), While(Before({"}"}), <<NT("register_field")>>), Eat("}"), Wrap("register")>>

generic_params ==
    When(At({"<"}), <<Token, SepBy(Before({">", ">>"}), ",", <<IfIdent(<<>>)>>), GenericClose>>,
         <<>>)

\* A body of members; forbidden is the kind of member the declaration may
\* not have, which is reported and kept.
members(forbidden) ==
    While(Before({"}"}),
          <<NTElse("class_item",
                   <<When(Is(forbidden), <<Report>>, <<>>)>>, <<Sync>>)>>)

class_decl(kw) ==
    (IF kw = "class" THEN <<Report>> ELSE <<>>)
    \o <<Ident, generic_params,
         When(At({"from", "extends"}), <<Drop, Fail>>, <<>>),
         While(At({"+", "with"}), <<Drop, SepBy(Always, ",", <<IfIdent(<<>>)>>)>>),
         Eat("{"), members(IF kw = "class" THEN "nothing" ELSE "method_read"), Eat("}"),
         Wrap("struct")>>

enum_variant ==
    <<IfIdent(<<When(At({"("}),
                     <<Drop, When(Is("args_ahead"), <<NTOpt("variant_fields")>>, <<>>), Eat(")")>>,
                     <<>>),
                Opt(",")>>),
      When(Is("nothing_read"), <<Sync>>, <<Wrap("variant")>>)>>
enum_decl ==
    <<Ident,
      When(At({"<"}), <<Token, SepBy(Always, ",", <<IfIdent(<<>>)>>), GenericClose>>, <<>>),
      Eat("{"), While(Before({"}"}), <<NT("enum_variant")>>), Eat("}"), Wrap("enum")>>

effect_and_caps ==
    <<When(At({"/"}),
           <<Drop, SepBy(Always, ",", <<IfIdent(<<>>)>>),
             When(At({"needs"}), <<Drop, SepBy(Always, ",", <<IfIdent(<<>>)>>)>>, <<>>)>>, <<>>)>>

behavior_decl == <<Ident, Eat("{"), members("field_read"), Eat("}"), Wrap("behavior")>>
component_decl == <<Ident, Eat("{"), members("method_read"), Eat("}"), Wrap("component")>>
\* What is not a method is dropped, and the next tokens are skipped, with
\* nothing reported.
role_decl ==
    <<Ident, Eat("{"), While(Before({"}"}), <<NTElse("role_item", <<>>, <<Sync>>)>>),
      Eat("}"), Wrap("role")>>

trait_method_sig ==
    <<Ident, generic_params, Eat("("), NT("params"), Eat(")"), ReturnType,
      When(At({"{"}), <<NT("block")>>,
           <<When(At({"=>"}), <<Drop, NT("expression")>>, <<>>), Opt(";")>>),
      Wrap("signature")>>
trait_decl ==
    <<Ident, generic_params,
      When(At({":"}), <<Drop, SepBy(Before({"{"}), "+", <<IfIdent(<<>>)>>)>>, <<>>),
      Eat("{"),
      While(Before({"}"}),
            <<When(At({"fn", "function"}), <<Drop, NTOpt("trait_method_sig")>>, <<Sync>>)>>),
      Eat("}"), Wrap("trait")>>

impl_block ==
    <<Ident, When(At({"for"}), <<Drop, Ident>>, <<>>), generic_params, Eat("{"),
      While(Before({"}"}), <<NTOpt("impl_item")>>), Eat("}"), Wrap("impl")>>
impl_item ==
    attributes
    \o <<When(At({"export", "pub"}), <<Drop>>, <<>>),
         When(At({"async"}),
              <<Drop, When(At({"fn", "function", "task"}), <<Drop, NT("function_decl")>>, <<Sync>>)>>,
              <<When(At({"fn", "function"}), <<Drop, NT("function_decl")>>, <<Sync>>)>>)>>

decreases == When(At({"decreases"}), <<Drop, NT("expression")>>, <<>>)

method_tail ==
    <<Eat("("), NT("params"), Eat(")"), ReturnType>> \o effect_and_caps \o contracts
    \o <<decreases,
         When(At({"=>"}), <<Drop, NT("expression")>>,
              <<When(At({"{"}), <<NT("block")>>, <<>>)>>),
         Wrap("method")>>

bit_range ==
    <<When(At({"in"}),
       <<Drop,
         When(At({"bit"}), <<Drop>> \o count_literal,
          <<When(At({"bits"}),
             <<Drop,
               When(Is("negative_literal"), count_literal,
                <<When(At(Ints), <<Token, Eat("..=")>> \o count_literal, <<Report>>)>>)>>,
             <<>>)>>)>>, <<>>)>>

field_tail ==
    <<Eat(":"), NTOpt("type")>> \o bit_range
    \o <<When(At({"at"}), <<Drop, When(At(Ints), <<Token>>, <<Report>>)>>, <<>>),
         When(At({"="}), <<Drop, NTOpt("expression")>>, <<>>), Opt(","), Wrap("field")>>

member_decl(starts) ==
    <<When(At(starts), <<Drop>>, <<>>),
      Opt("replaces"), Opt("mut"), Ident,
      When(At({"."}), <<Drop, Ident>>, <<>>),
      When(At({"("}), method_tail, field_tail)>>

class_item ==
    attributes
    \o <<When(At({"using"}), <<Drop, Ident, Wrap("using")>>,
          <<When(At({"invariant"}), <<Drop, NT("expression"), Opt(";"), Wrap("invariant")>>,
             <<When(At({"async"}), <<Drop>> \o member_decl({"fn", "function", "task"}),
                    member_decl({"fn", "function"}))>>)>>)>>
role_item == class_item \o <<When(Is("method_read"), <<>>, <<Reject>>)>>

constrained_param ==
    IfIdent(<<When(At({":"}), <<Drop, SepBy(Always, "+", <<IfIdent(<<>>)>>)>>, <<>>)>>)
function_decl ==
    <<Ident,
      When(At({"<"}), <<Token, SepBy(Before({">", ">>"}), ",", <<constrained_param>>),
                        GenericClose>>, <<>>),
      Eat("("), NT("params"), Eat(")"), ReturnType>>
    \o effect_and_caps \o contracts
    \o <<decreases,
         When(At({"=>"}), <<Drop, NT("expression")>>, <<NT("block")>>),
         Wrap("fn")>>

packet_decl ==
    <<Ident, Eat("{"),
      While(Before({"}"}), <<Ident, Opt(":")>> \o count_literal), Eat("}"), Wrap("packet")>>

extern_fn_decl ==
    <<When(At({"'s'"}), <<Token>>, <<>>), Eat("fn"), Ident, Eat("("), NT("params"), Eat(")"),
      ReturnType, Wrap("extern")>>

bridge_fn ==
    <<Drop, Ident, Eat("("), NTOpt("params"), Eat(")"), ReturnType, Opt(";")>>
bridge_decl ==
    <<Ident, When(At({"::", "."}), <<Drop>>, <<Fail>>), Ident, Eat("{"),
      While(Before({"}"}),
            <<When(At({"fn", "function"}), bridge_fn, <<Report, Drop>>)>>),
      Eat("}"), Wrap("bridge")>>

fn_after(ts) == <<Drop, When(At(ts), <<Drop, NT("function_decl")>>, <<Fail>>)>>

\* A binding at the top level.
global(t) ==
    IF t = "let" THEN <<When(Is("mut_next"), <<Drop>> \o binding("mut"), binding("let"))>>
    ELSE binding(t)

DeclarationFor(t) ==
    CASE t = "import" -> <<Drop, When(At({"c"}), c_import_decl, use_decl)>>
      [] t \in {"use", "using"} -> <<Drop>> \o use_decl
      [] t = "register" -> <<Drop>> \o register_decl
      [] t = "bridge" -> <<Drop>> \o bridge_decl
      [] t \in {"class", "entity", "struct", "record"} -> <<Drop>> \o class_decl(t)
      [] t = "enum" -> <<Drop>> \o enum_decl
      [] t = "trait" -> <<Drop>> \o trait_decl
      [] t = "impl" -> <<Drop>> \o impl_block
      [] t = "behavior" -> <<Drop>> \o behavior_decl
      [] t = "component" -> <<Drop>> \o component_decl
      [] t = "role" -> <<Drop>> \o role_decl
      [] t = "async" -> fn_after({"fn", "function", "task"})
      [] t \in {"comptime", "unsafe"} -> fn_after({"fn", "function"})
      [] t = "test" -> <<When(Is("fn_next"), <<Drop, Drop, NT("function_decl")>>, <<Fail>>)>>
      [] t \in {"fn", "function", "process", "task"} -> <<Drop, NT("function_decl")>>
      [] t = "flow" -> <<Drop, Fail>>
      [] t = "packet" -> <<Drop>> \o packet_decl
      [] t = "extern" -> <<Drop>> \o extern_fn_decl
      [] t = "type" -> <<Drop, Ident, Eat("="), NT("type"), Opt(";"), Wrap("alias")>>
      [] t \in {"const", "mut", "let"} -> global(t)
      [] OTHER -> <<Fail>>
declaration ==
    <<When(At({"export", "pub"}), <<Drop>>, <<>>), ByToken("declaration")>>

module_directive ==
    <<Drop, While(Is("module_path"), <<Token>>), When(Is("path_read"), <<>>, <<Report>>),
      Opt(";"), Wrap("module")>>
item ==
    attributes
    \o <<When(At({"module"}), module_directive,
              <<When(Is("end"), <<Wrap("attributes")>>, <<NT("declaration"), Wrap("item")>>)>>)>>
program == <<While(Before({}), <<NTElse("item", <<>>, <<Sync>>)>>), Wrap("program")>>

Body(n) ==
    CASE n = "expression" -> pipeline
      [] n = "unary" -> unary
      [] n = "postfix" -> postfix
      [] n = "primary" -> primary
      [] n = "pattern" -> <<Drop, ByToken("pattern")>>
      [] n = "lambda_body" -> lambda_body
      [] n = "or_arm" -> arm("expression")
      [] n = "match_arm" -> arm("arm_body")
      [] n = "else_arm" -> <<Drop, Eat("=>"), NT("arm_body"), Wrap("else")>>
      [] n = "decide_arm" -> <<NT("expression"), Eat("=>"), NT("arm_body"), Wrap("arm")>>
      [] n = "statement" -> <<ByToken("statement")>>
      [] n = "block" -> block
      [] n = "arm_block" -> arm_block
      [] n = "arm_body" -> arm_body
      [] n = "type" -> type_inner
      [] n = "type_name" -> <<NT("type"), NameOnly>>
      [] n = "param" -> param
      [] n = "params" -> param_list
      [] n = "register_field" -> register_field
      [] n = "enum_variant" -> enum_variant
      [] n = "variant_fields" -> <<SepBy(Always, ",", <<NT("type")>>)>>
      [] n = "class_item" -> class_item
      [] n = "role_item" -> role_item
      [] n = "trait_method_sig" -> trait_method_sig
      [] n = "impl_item" -> impl_item
      [] n = "function_decl" -> function_decl
      [] n = "declaration" -> declaration
      [] n = "item" -> item
      [] n = "program" -> program

Alternatives(n, p) ==
    CASE n = "primary" -> PrimaryFor(previous(p))
      [] n = "pattern" -> PatternFor(previous(p))
      [] n = "or_recovery" -> or_recovery
      [] n = "postfix" -> PostfixFor(peek(p))
      [] n = "statement" -> StatementFor(peek(p))
      [] n = "declaration" -> DeclarationFor(peek(p))

-----------------------------------------------------------------------------
(* Lookahead *)

struct_literal_ahead(p) ==
    \/ peek_ahead(p, 1) = "}"
    \/ peek_ahead(p, 1) \in Identifiers /\ peek_ahead(p, 2) = ":"

BlockStarters ==
    {"let", "mut", "val", "const", "if", "for", "while", "loop", "return", "out", "err",
     "match", "decide", "select", "unsafe", "try", "parallel", "simd"}

\* The nesting of braces before position j, counted from the one at the cursor.
BraceDepth(p, j) ==
    Len(SelectSeq(SubSeq(p.toks, p.cur + 1, j - 1), LAMBDA t : t = "{"))
    - Len(SelectSeq(SubSeq(p.toks, p.cur + 1, j - 1), LAMBDA t : t = "}"))

\* `{` opens a block, not a map: it is empty, starts with a statement
\* keyword, has a `;` at its own level, or has no `:` there.
arm_body_is_block(p) ==
    LET rest == (p.cur + 1)..Len(p.toks)
        closing == {j \in rest : p.toks[j] = "}" /\ BraceDepth(p, j) = 0}
        limit == IF closing = {} THEN Len(p.toks) + 1
                 ELSE CHOOSE j \in closing : \A i \in closing : j <= i
        top == {p.toks[j] : j \in {i \in rest : i < limit /\ BraceDepth(p, i) = 0}}
    IN  /\ check(p, {"{"})
        /\ \/ limit = p.cur + 1
           \/ peek_ahead(p, 1) \in BlockStarters
           \/ ";" \in top
           \/ ":" \notin top

LastKind(p, ks) == p.kids # <<>> /\ Last(p.kids).k \in ks
PathTokens == Identifiers \cup NameKeywords \cup Ints \cup {".", "::"}

Seen(name, p) ==
    CASE name = "args_ahead" -> ~check(p, {")"})
      [] name = "val_next" -> peek_ahead(p, 1) = "val"
      [] name = "mut_next" -> peek_ahead(p, 1) = "mut"
      [] name = "for_next" -> peek_ahead(p, 1) = "for"
      [] name = "fn_next" -> peek_ahead(p, 1) \in {"fn", "function"}
      [] name = "asm_block" -> peek_ahead(p, 1) = "{"
      [] name = "else_if" -> check(p, {"else"}) /\ peek_ahead(p, 1) = "if"
      [] name = "negative_literal" -> check(p, {"-"}) /\ peek_ahead(p, 1) \in Ints
      [] name = "plain_params" -> \A i \in DOMAIN p.kids : p.kids[i].k = "id"
      [] name = "type_args" -> p.kids[1].v \in Capitals /\ check(p, {"<"})
      [] name = "object_ahead" ->
           /\ p.kids[1].v \in Capitals
           /\ check(p, {"{"})
           /\ ~p.noStruct \/ struct_literal_ahead(p)
      [] name = "block_ahead" -> arm_body_is_block(p)
      [] name = "generic_call" ->
           /\ check(p, {"<"})
           /\ peek_ahead(p, 1) \in Capitals
           /\ LastKind(p, {"id"})
           /\ Last(p.kids).v \notin Capitals \cup {"_"}
      [] name = "self_param" ->
           /\ \E i \in DOMAIN p.kids : p.kids[i].v \in {"&", "self", "this"}
           /\ ~check(p, {":"})
      [] name = "nested_type" -> peek_ahead(p, 1) = "<"
      [] name = "unit_next" -> peek_ahead(p, 1) \in Identifiers
      [] name = "range_ahead" -> peek(p) \in Ints /\ peek_ahead(p, 1) \in {"..", "..="}
      [] name = "in_refinement" ->
           check(p, {"in"}) /\ \A i \in DOMAIN p.kids : p.kids[i].k # "range"
      [] name = "bit_field" -> peek_ahead(p, 1) \in {"bit", "bits"}
      [] name = "range_read" -> LastKind(p, {"range"})
      [] name = "python_module" ->
           /\ p.kids # <<>> /\ Last(p.kids).v = "python"
           /\ peek(p) \in Identifiers
           /\ SameLine(p)
      [] name = "path_ahead" -> check(p, {".", "::"}) /\ peek_ahead(p, 1) # "{"
      [] name = "module_path" -> ~is_at_end(p) /\ ~check(p, {";"}) /\ SameLine(p)
      [] name = "path_read" -> \A i \in DOMAIN p.kids : p.kids[i].v \in PathTokens
      [] name = "method_read" -> LastKind(p, {"method"})
      [] name = "field_read" -> LastKind(p, {"field", "using"})
      [] name = "nothing_read" -> p.kids = <<>>
      [] name = "nothing" -> FALSE
      [] name = "end" -> is_at_end(p)

PostfixTokens == {"(", ".", "[", "!", "?", "as", "is"}

Holds(test, p) ==
    CASE test[1] = "at" -> check(p, test[2])
      [] test[1] = "before" -> ~check(p, test[2]) /\ ~is_at_end(p)
      [] test[1] = "always" -> TRUE
      [] test[1] = "is" ->
           IF test[2] = "postfix_ahead" THEN check(p, PostfixTokens) \/ Seen("generic_call", p)
           ELSE Seen(test[2], p)

-----------------------------------------------------------------------------
(* Binary expressions: precedence climbing with two stacks *)

RangeOps == {"..", "..=", "..<"}
peek_binary_op(t) ==
    CASE t = "||" -> 1
      [] t = "&&" -> 2
      [] t \in {"==", "!="} -> 3
      [] t \in {"<", "<=", ">", ">="} -> 4
      [] t = "|" -> 5
      [] t = "^" -> 6
      [] t = "&" -> 7
      [] t \in {"<<", ">>"} -> 8
      [] t \in RangeOps -> 9
      [] t \in {"+", "-"} -> 10
      [] t \in {"*", "/", "%"} -> 11
      [] OTHER -> 0
Precedence(t) == peek_binary_op(t)

Combine(vals, op) ==
    Append(SubSeq(vals, 1, Len(vals) - 2),
           Node(IF op \in RangeOps THEN "range" ELSE "binary", op,
                <<vals[Len(vals) - 1], vals[Len(vals)]>>))

\* Chains of one precedence associate to the left.
Binds_Tighter(op, prec) == Precedence(op) > prec
Binds(op, prec) == Precedence(op) >= prec

RECURSIVE Reduce(_, _, _)
Reduce(vals, ops, prec) ==
    IF ops = <<>> \/ ~Binds(Last(ops), prec) THEN [vals |-> vals, ops |-> ops]
    ELSE Reduce(Combine(vals, Last(ops)), Front(ops), prec)

-----------------------------------------------------------------------------
(* Running the steps *)

RECURSIVE Run(_, _), Loop(_, _, _), SepLoop(_, _, _, _), SepNext(_, _, _, _), ClimbLoop(_, _, _, _)
RECURSIVE Do(_, _), Call(_, _)

Run(g, p) ==
    IF g = <<>> \/ ~p.ok \/ p.fuel <= 0 THEN p ELSE Run(Tail(g), Do(Head(g), p))

Loop(test, g, p) ==
    IF ~p.ok \/ p.fuel <= 0 \/ ~Holds(test, p) THEN p ELSE Loop(test, g, Run(g, Step(p)))

SepLoop(test, sep, g, p) ==
    IF ~p.ok \/ p.fuel <= 0 \/ ~Holds(test, p) THEN p
    ELSE SepNext(test, sep, g, Run(g, Step(p)))
SepNext(test, sep, g, q) ==
    IF q.ok /\ check(q, {sep}) THEN SepLoop(test, sep, g, advance(q)) ELSE q

TooDeep(n, p) ==
    \/ n = "expression" /\ p.depth > MaxParseDepth
    \/ n \in {"type", "statement"} /\ p.depth + 1 > MaxParseDepth
Nested(n) == IF n \in {"expression", "type", "statement"} THEN 1 ELSE 0

\* A call of a parse function: the nodes it makes are appended to the
\* caller's parts, unless it returns None.
Returned(n, p, q) ==
    [q EXCEPT !.depth = @ - Nested(n), !.kids = IF q.ok THEN p.kids \o @ ELSE p.kids]
Call(n, p) ==
    IF ~p.ok \/ p.fuel <= 0 THEN p
    ELSE IF TooDeep(n, p) THEN Failed(p)
    ELSE Returned(n, p, Run(Body(n), [Step(p) EXCEPT !.kids = <<>>, !.depth = @ + Nested(n)]))

\* A range does not chain: the loop ends after its right operand.
GoOn(p, q, then(_)) == IF ~q.ok \/ q.fuel <= 0 THEN q ELSE then([q EXCEPT !.kids = p.kids])
Climbed(p, q, min, op, r) ==
    GoOn(p, q, LAMBDA rest :
      LET operands == Append(r.vals, Last(q.kids))
          waiting == Append(r.ops, op)
      IN  IF op \in RangeOps THEN Keep(rest, Last(Reduce(operands, waiting, min).vals))
          ELSE ClimbLoop(rest, min, operands, waiting))
ClimbLoop(p, min, vals, ops) ==
    LET op == peek(p) IN
    IF Precedence(op) = 0 \/ Precedence(op) < min
    THEN Keep(p, Last(Reduce(vals, ops, min).vals))
    ELSE Climbed(p, Call("unary", Step(advance(p))), min, op, Reduce(vals, ops, Precedence(op)))

FirstOperand(p, q, min) == GoOn(p, q, LAMBDA rest : ClimbLoop(rest, min, <<Last(q.kids)>>, <<>>))
parse_binary_climbing(p, min) == FirstOperand(p, Call("unary", p), min)

Named(t) == t \in Identifiers \cup NameKeywords
consume_ident_or_keyword(p) ==
    LET q == advance(p) IN
    IF is_at_end(p) \/ ~Named(peek(p)) THEN Failed(q) ELSE Keep(q, Leaf("id", peek(p)))

consume_generic_close(p) ==
    LET q == SplitShr(p) IN
    IF check(q, {">"}) THEN Keep(advance(q), Leaf("op", ">")) ELSE Failed(q)

\* The flag is down after any condition, also one inside another.
parse_condition(p) ==
    [Call("expression", [p EXCEPT !.noStruct = TRUE]) EXCEPT !.noStruct = FALSE]

Recovered(p, q) == [q EXCEPT !.ok = TRUE, !.kids = p.kids]
Either(p, q, then, else) == IF q.ok THEN Run(then, q) ELSE Run(else, Recovered(p, q))

Do(s, p) ==
    CASE s[1] = "eat" -> IF check(p, {s[2]}) THEN advance(p) ELSE Failed(p)
      [] s[1] = "eat_soft" -> IF check(p, {s[2]}) THEN advance(p) ELSE Error(p)
      [] s[1] = "opt" -> IF check(p, {s[2]}) THEN advance(p) ELSE p
      [] s[1] = "token" -> IF is_at_end(p) THEN p ELSE Keep(advance(p), LeafOf(peek(p)))
      [] s[1] = "drop" -> advance(p)
      [] s[1] = "keep" -> Keep(p, LeafOf(previous(p)))
      [] s[1] = "ident" -> consume_ident_or_keyword(p)
      [] s[1] = "if_ident" -> Either(p, consume_ident_or_keyword(p), s[2], <<>>)
      [] s[1] = "close" -> consume_generic_close(p)
      [] s[1] = "nt" -> Call(s[2], p)
      [] s[1] = "nt_opt" -> Either(p, Call(s[2], p), <<>>, <<>>)
      [] s[1] = "nt_else" -> Either(p, Call(s[2], p), s[3], s[4])
      [] s[1] = "condition" -> parse_condition(p)
      [] s[1] = "climb" -> parse_binary_climbing(p, s[2])
      [] s[1] = "when" -> IF Holds(s[2], p) THEN Run(s[3], p) ELSE Run(s[4], p)
      [] s[1] = "while" -> Loop(s[2], s[3], p)
      [] s[1] = "sep" -> SepLoop(s[2], s[3], s[4], p)
      [] s[1] = "fail" -> Failed(p)
      [] s[1] = "reject" -> [p EXCEPT !.ok = FALSE]
      [] s[1] = "report" -> Error(p)
      [] s[1] = "sync" -> synchronize(p)
      [] s[1] = "by" -> Run(Alternatives(s[2], p), p)
      [] s[1] = "wrap" -> [p EXCEPT !.kids = <<Node(s[2], "", @)>>]
      [] s[1] = "first" -> [p EXCEPT !.kids = <<@[1]>>]
      [] s[1] = "name_only" -> [p EXCEPT !.kids = <<@[1].xs[1]>>]
      [] s[1] = "one_else" ->
           [p EXCEPT !.kids = Append(SelectSeq(Front(@), LAMBDA n : n.k # "else"), Last(@))]
      [] s[1] = "tail_return" -> [p EXCEPT !.kids = <<LambdaBlock(@[1])>>]

parse_program(toks, lines) == Call("program", Parser_new(toks, lines))
=============================================================================

------------------------------ MODULE SubjectKey ------------------------------
(***************************************************************************)
(* SubjectIdentifier.correlation_key: the string under which sessions are  *)
(* registered and SETs look them up.                                       *)
(*                                                                         *)
(* A string is the sequence of the words and the delimiters ":" and "|" it *)
(* consists of.  Keys are put together at delimiters only, so two of them  *)
(* are one string if and only if they are one sequence.  A member of a     *)
(* subject is a record of its JSON type and of what it prints as; one that *)
(* is an object has its members beside that.                               *)
(***************************************************************************)
EXTENDS Sequences

CONSTANTS
    Subjects,      \* the subject identifiers, nested users included
    Lower,         \* what str.lower makes of each word and delimiter
    Digest(_)      \* the word _stable_member_encoding makes of members

Types == {"string", "other", "object"}

(* Validation or str.lower raises: there is no key. *)
Invalid == <<>>

(* data.get(name, ''), as an f-string prints it. *)
Text(s, name) == IF name \in DOMAIN s THEN s[name].text ELSE <<>>

LowerCase(text) == [i \in DOMAIN text |-> Lower[text[i]]]

(* Mutant: nested members are dropped. *)
Members_Flat(s) == [name \in DOMAIN s \ {"format", "device", "user"} |-> s[name]]

(* Every member but the format. *)
Members(s) == [name \in DOMAIN s \ {"format"} |-> s[name]]

(* _stable_member_encoding. *)
Encoding(s) == IF DOMAIN s = {"format"} THEN "empty" ELSE Digest(Members(s))

HasUser(s) == s.format = <<"complex">> /\ "user" \in DOMAIN s /\ s.user.type = "object"

Nests(s) == HasUser(s) /\ "format" \in DOMAIN s.user.members

(* Subjects are JSON objects with a format; one that is no string counts   *)
(* as missing in a nested object.  With a subject the user nested in it is *)
(* one of them, and the nesting ends.  Digests do not collide.             *)
ASSUME SubjectAssumption ==
    /\ \A s \in Subjects :
          /\ s = [name \in DOMAIN s |-> s[name]] /\ "format" \in DOMAIN s
          /\ s.format \in Seq(DOMAIN Lower)
          /\ \A name \in DOMAIN s \ {"format"} : s[name].type \in Types /\ s[name].text \in Seq(DOMAIN Lower)
          /\ Nests(s) => s.user.members \in Subjects
          /\ Digest(Members(s)) # "empty"
          /\ \A u \in Subjects : Digest(Members(s)) = Digest(Members(u)) => Members(s) = Members(u)
    /\ \A T \in SUBSET {s \in Subjects : Nests(s)} : T # {} => \E s \in T : s.user.members \notin T

IsString(s, name) == name \in DOMAIN s => s[name].type = "string"

(* The key of a subject in which none is nested.                           *)
OwnKey(s) ==
    CASE s.format = <<"email">> ->
            IF IsString(s, "email") THEN <<"email", ":">> \o LowerCase(Text(s, "email")) ELSE Invalid
      [] s.format = <<"phone_number">> -> <<"phone", ":">> \o Text(s, "phone_number")
      [] s.format = <<"iss_sub">> -> <<"iss_sub", ":">> \o Text(s, "iss") \o <<"|">> \o Text(s, "sub")
      [] s.format = <<"opaque">> -> <<"opaque", ":">> \o Text(s, "id")
      [] HasUser(s) -> Invalid
      [] OTHER -> s.format \o <<":", Encoding(s)>>

CorrelationKey[s \in Subjects] == IF Nests(s) THEN CorrelationKey[s.user.members] ELSE OwnKey(s)
=============================================================================

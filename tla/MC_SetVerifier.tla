---- MODULE MC_SetVerifier ----
(* A small instance of SetVerifier: two registrations that differ in       *)
(* audience and key, and subjects of every format, among them those that   *)
(* print like others.                                                      *)
EXTENDS SetVerifier, TLC

MCDigest(members) == ToString(members)

String(text) == [type |-> "string", text |-> text]
Null == [type |-> "other", text |-> <<"None">>]
Object(members) == [type |-> "object", text |-> <<"{...}">>, members |-> members]

A == String(<<"a">>)
B == String(<<"b">>)
Empty == String(<<>>)
Mail(address) == [format |-> <<"email">>, email |-> address]
Phone(number) == [format |-> <<"phone_number">>, phone_number |-> number]
Opaque(id) == [format |-> <<"opaque">>, id |-> id]
IssSub(iss, sub) == [format |-> <<"iss_sub">>, iss |-> iss, sub |-> sub]
Complex(user) == [format |-> <<"complex">>, user |-> user]
NoFormat == [id |-> A]

Flat ==
    {Mail(A), Mail(String(<<"A">>)), Mail(B), Mail(Empty), Mail(Null),
     [format |-> <<"email">>], [format |-> <<"email">>, name |-> A], [format |-> <<"email">>, email |-> A, name |-> B],
     Phone(A), Phone(Null), Phone(String(<<"None">>)), Phone(String(<<"empty">>)), [format |-> <<"phone">>],
     Opaque(A), Opaque(B), Opaque(String(<<"a", ":", "empty">>)), [format |-> <<"opaque", ":", "a">>],
     [format |-> <<"iss_sub">>, iss |-> A], IssSub(A, B), IssSub(B, A),
     IssSub(A, String(<<"b", "|", "a">>)), IssSub(String(<<"a", "|", "b">>), A),
     [format |-> <<"account">>, uri |-> A], [format |-> <<"account">>, uri |-> B]}

Nested ==
    {Complex(A), Complex(Object(NoFormat)), Complex(Object(Mail(A))), Complex(Object(Complex(Object(Mail(A))))),
     [format |-> <<"complex">>, user |-> Object(Mail(A)), device |-> Object(Opaque(B))],
     [format |-> <<"complex">>, user |-> Object(NoFormat), device |-> Object(Opaque(A))],
     [format |-> <<"complex">>, device |-> Object(Opaque(A))], [format |-> <<"complex">>, device |-> Object(Opaque(B))]}

MCSubjects == Flat \cup Nested

MCLower ==
    [c \in {"a", "b", "A", "None", "empty", "email", "phone_number", "phone", "iss_sub", "opaque", "account", "complex",
            "{...}", ":", "|"} |-> CASE c = "A" -> "a" [] c = "None" -> "none" [] OTHER -> c]

MCAudienceOf == <<"aud1", "aud2">>
MCSignerOf == <<"key1", "key2">>

MCTokens ==
    {tok \in [form : {"ok", "garbled", "typ", "odd typ", "no iss", "no jti", "no sub_id", "no events", "ill-typed"},
               iss : {"idp", "other"}, signer : {"key1", "key2", "forged"},
               aud : {"aud1", "aud2"}, iat : {0, 2}] :
        tok.form # "ok" \/ tok.iss # "idp" => tok.signer = "key1" /\ tok.aud = "aud1" /\ tok.iat = 2}
====

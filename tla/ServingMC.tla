------------------------------ MODULE ServingMC ------------------------------
(* The six programs, three clients of a server, a local model and one of    *)
(* the cloud.                                                                *)
EXTENDS Commands, TLC

CONSTANTS c1, c2, c3, self, m, g

\* One client, two, or three.
Of(first, second, third) == c1 :> first @@ c2 :> second @@ c3 :> third @@ self :> {}
ChatWith(n, streamed) == <<"chat", streamed, n>>

MCAsks ==
     <<"serve", NoName>> :>
       Of({ChatWith(m, TRUE)}, {ChatWith(m, FALSE), ChatWith(g, FALSE)},
          {<<"delete", FALSE, m>>, <<"tags", FALSE, NoName>>, ChatWith(NoName, FALSE)})
  @@ <<"serve", m>> :>
       Of({ChatWith(NoName, TRUE)}, {<<"list", FALSE, NoName>>}, {<<"delete", FALSE, m>>})
  @@ <<"serve", g>> :>
       Of({<<"pull", TRUE, m>>}, {ChatWith(m, FALSE)}, {<<"delete", FALSE, m>>, <<"pull", FALSE, m>>})
  @@ <<"api", m>> :>
       Of({ChatWith(NoName, TRUE), <<"pull", TRUE, m>>}, {ChatWith(m, FALSE), ChatWith(g, FALSE)},
          {<<"delete", FALSE, m>>})
  @@ <<"api", g>> :> Of({ChatWith(g, TRUE)}, {ChatWith(m, TRUE)}, {<<"tags", FALSE, NoName>>})
  @@ <<"run", m>> :> Of({}, {}, {}) @@ <<"run", g>> :> Of({}, {}, {})
  @@ <<"quickstart", m>> :> Of({}, {}, {}) @@ <<"fallback", m>> :> Of({}, {}, {})
  @@ <<"benchmark", m>> :> Of({}, {}, {})
=============================================================================

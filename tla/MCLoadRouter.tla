---------------------------- MODULE MCLoadRouter ----------------------------
EXTENDS LoadRouter

\* Both pools configured and on-demand staying up, or only on-demand configured
\* and coming and going.
TwoSettings ==
  {[has_url |-> Pool, steady |-> {"ondemand"}],
   [has_url |-> {"ondemand"}, steady |-> {}]}
=============================================================================

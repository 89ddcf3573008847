-------------------------- MODULE MCServiceExchange --------------------------
(***************************************************************************)
(* Small instance of ServiceExchange for TLC.                              *)
(***************************************************************************)
EXTENDS ServiceExchange

\* An integer and a null value.
MCDatas == { << 17, 5 >>, << 0 >> }

\* An exception, the result of an access instead of a block, results that no
\* enumeration has, APDUs that are cut, an unknown tag; strays: responses of a type
\* that the client does not know and blocks that it did not ask for.
MCAnswers ==
    { Exception, << EXCEPTION_RESPONSE, 1 >>,
      << GET_RESPONSE, 1, 1, 1, 11 >>, << GET_RESPONSE, 1, 1, 99 >>, << GET_RESPONSE, 1 >>,
      << GET_RESPONSE, 2, 1, 0 >>, << SET_RESPONSE, 1, 1, 3 >>,
      << ACTION_RESPONSE, 1, 1, 0, 1, 1, 11 >>, << ACTION_RESPONSE, 1, 1, 0, 1 >>,
      << ACTION_RESPONSE, 1, 1, 0, 2 >>, << ACTION_RESPONSE, 1, 1, 77 >>,
      << ACTION_RESPONSE, 1, 1, 0, 1, 3 >>, << 0 >>, << >>,
      << GET_RESPONSE, 3, 1, 9 >>, << SET_RESPONSE, 5, 1 >>,
      << GET_RESPONSE, 2, 1, 0, 2, 2 >>, << ACTION_RESPONSE, 2, 1, 1, 0 >> }
=============================================================================

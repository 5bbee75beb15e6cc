---------------------------- MODULE PartsProofs -----------------------------
(***************************************************************************)
(* The smaller components side by side, as MCParts runs them: every step   *)
(* of the whole is a step of one component, which leaves the variables of  *)
(* the others alone.  So what is proved of a component by itself holds of  *)
(* the whole.                                                              *)
(***************************************************************************)
EXTENDS MCParts, HostProofs, TextProofs, UtopReplProofs

(* A behaviour of the whole is a behaviour of each of the components, the  *)
(* ones that stand still included.                                         *)
THEOREM PartsCompose ==
  Spec => /\ AcSpec /\ DcSpec /\ RmSpec /\ PsSpec /\ PySpec
          /\ SfSpec /\ CoSpec /\ AnSpec /\ UtSpec /\ TcSpec
<1>1. Init => /\ AcInit /\ DcInit /\ RmInit /\ PsInit /\ PyInit
              /\ SfInit /\ CoInit /\ AnInit /\ UtInit /\ TcInit
  BY DEF Init
<1>2. [Next]_vars =>
        /\ [AcNext]_acVars /\ [DcNext]_dcVars /\ [RmNext]_rmVars
        /\ [PsNext]_psVars /\ [PyNext]_pyVars /\ [SfNext]_sfVars
        /\ [CoNext]_coVars /\ [AnNext]_anVars /\ [UtNext]_utVars
        /\ [TcNext]_tcVars
  BY DEF Next, vars
<1> QED BY <1>1, <1>2, PTL
           DEF Spec, AcSpec, DcSpec, RmSpec, PsSpec, PySpec,
               SfSpec, CoSpec, AnSpec, UtSpec, TcSpec

(* So the variables of every component are what its handlers take them     *)
(* for, in every state of the whole.                                       *)
THEOREM PartsTypeCorrect == Spec => []TypesOK
<1> QED BY PartsCompose, AcTypeCorrect, RmTypeCorrect, PsTypeCorrect,
           PyTypeCorrect, SfTypeCorrect, CoTypeCorrect, AnTypeCorrect,
           UtTypeCorrect, TcTypeCorrect, PTL DEF TypesOK

(* And every component keeps its promises in the whole.                    *)
THEOREM PartsSafe ==
  Spec => /\ [](/\ AnswersMatch /\ SplitsAreInvisible /\ RegistryIsTrue
                /\ FlagsAgree /\ StreamsStayApart /\ FilesAreSafe /\ ColorsAreRead
                /\ ScreenIsExact /\ StanzasUnderstood /\ TabCompletes)
          /\ ClosesItsOwn
          /\ DrawingIsLocal
<1>1. Spec => /\ []AnswersMatch /\ []SplitsAreInvisible /\ []RegistryIsTrue
              /\ []FlagsAgree /\ []StreamsStayApart
  BY PartsCompose, AnswersMatchRequests, SplitsAlwaysInvisible, RegistryTrue,
     FlagsAlwaysAgree, StreamsApart, PTL
<1>2. Spec => /\ []FilesAreSafe /\ []ColorsAreRead /\ []ScreenIsExact
              /\ []StanzasUnderstood /\ []TabCompletes
  BY PartsCompose, FilesSafe, ColorsAlwaysRead, ScreenAlwaysExact,
     StanzasAlwaysUnderstood, TabAlwaysCompletes, PTL
<1>3. Spec => ClosesItsOwn /\ DrawingIsLocal
  BY PartsCompose, AutoCloseClosesItsOwn, DrawingAlwaysLocal, PTL
<1> QED BY <1>1, <1>2, <1>3, PTL
=============================================================================
